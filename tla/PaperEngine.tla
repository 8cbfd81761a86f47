----------------------------- MODULE PaperEngine -----------------------------
(***************************************************************************)
(* One paper session of quantlab (paper/engine.py): the workers that apply *)
(* closed candles to it, the owner's requests that the API process serves  *)
(* at the same time, the database all of them commit to, and the candle    *)
(* store they read.                                                        *)
(*                                                                         *)
(* A transaction of two processes that may meet is two steps: the rows as  *)
(* they were read, and the commit.  The ORM writes an attribute only when  *)
(* it differs from the value it was read with, and a unique column or a    *)
(* row that is gone undoes the whole transaction.                          *)
(***************************************************************************)
EXTENDS SimCore, FiniteSets, FiniteSetsExt, Functions

CONSTANTS
  Tickers,     \* processes that run tick_session on this session
  Actions,     \* what the owner asks for
  Gaps,        \* whether the exchange can leave a candle out
  Capital,     \* VirtualPortfolio.initial_balance
  MaxCandle,   \* bound: candles closed
  MaxAsked,    \* bound: requests of the owner
  MaxCrashes   \* bound: deaths of the workers

ASSUME TickersAssumption == IsFiniteSet(Tickers)
ASSUME ActionsAssumption == Actions \subseteq {"pause", "resume", "stop", "reset"}
ASSUME GapsAssumption == Gaps \in BOOLEAN
ASSUME NumbersAssumption ==
  Capital \in Nat /\ MaxCandle \in Nat /\ MaxAsked \in Nat /\ MaxCrashes \in Nat

VARIABLES
  (* The database. *)
  status,   \* PaperSession.status
  last,     \* PaperSession.last_candle_ts
  signal,   \* PaperSession.pending_signal
  usdt,     \* VirtualBalance.free of USDT
  base,     \* VirtualBalance.free of the base asset
  trades,   \* PaperTrade rows by entry_signal_ts
  snaps,    \* EquitySnapshot rows: the candles they are for
  (* The processes. *)
  ticker,   \* the tick of each worker
  request,  \* the request being served
  (* The world. *)
  now,      \* the newest closed candle
  stored,   \* the candles in the candle store
  asked,    \* requests so far
  crashes   \* deaths so far

rowVars == <<status, last, signal, usdt, base, trades, snaps>>
worldVars == <<now, stored, asked, crashes>>
vars == <<rowVars, ticker, request, worldVars>>

Candles == 1 .. MaxCandle
(* The sessions that are ticked.  Slip: halted ones are not. *)
NotHalted == {"running", "paused"}
ACTIVE == {"running", "paused", "halted"}
SignalSet == [side : {"none", "enter", "exit"}, at : 0 .. MaxCandle]

Session == INSTANCE PaperSession
NoTrade == Session!NoTrade
OpenTrades == Session!OpenTrades

(* The rows a transaction reads: load_state, the session and its balances. *)
Row == [status |-> status, last |-> last, signal |-> signal, usdt |-> usdt, base |-> base,
        open |-> Session!OpenTrade]
NoRow == [status |-> "stopped", last |-> 0, signal |-> NoSignal, usdt |-> 0, base |-> 0, open |-> 0]
NoTick == [pc |-> "idle", todo |-> {}, at |-> 0, row |-> NoRow]
NoRequest == [act |-> "none", row |-> NoRow, seen |-> {}]

RowSet == [status : {"running", "paused", "halted", "stopped"}, last : 0 .. MaxCandle, signal : SignalSet,
           usdt : Nat, base : {0, 1}, open : 0 .. MaxCandle]
TypeOK ==
  /\ Row \in RowSet
  /\ \A i \in Candles : trades[i].state \in {"none", "open", "closed"}
  /\ snaps \subseteq stored
  /\ \A t \in Tickers :
       /\ ticker[t].pc \in {"idle", "loaded", "run", "apply"}
       /\ ticker[t].pc = "idle" <=> ticker[t].todo = {}
       /\ ticker[t].todo \subseteq stored
       /\ ticker[t].row \in RowSet
  /\ request.act \in Actions \cup {"none"}
  /\ stored \subseteq 1 .. now /\ now \in 0 .. MaxCandle
  /\ asked \in 0 .. MaxAsked /\ crashes \in 0 .. MaxCrashes

Init ==
  /\ status = "running" /\ last = 0 /\ signal = NoSignal
  /\ usdt = Capital /\ base = 0
  /\ trades = [i \in Candles |-> NoTrade]
  /\ snaps = {}
  /\ ticker = [t \in Tickers |-> NoTick]
  /\ request = NoRequest
  /\ now = 0 /\ stored = {} /\ asked = 0 /\ crashes = 0

(* What the ORM writes of an attribute that was read as `old`. *)
Put(old, new, current) == IF new = old THEN current ELSE new

-----------------------------------------------------------------------------
(* tick_session. *)

(* The first transaction and store.load: candles closed and not yet seen.  *)
Load(t) ==
  /\ ticker[t].pc = "idle" /\ status \in ACTIVE
  /\ LET new == {i \in stored : i > last}
     IN  /\ new # {}
         /\ ticker' = [ticker EXCEPT ![t] = [NoTick EXCEPT !.pc = "loaded", !.todo = new, !.at = now]]
  /\ UNCHANGED <<rowVars, request, worldVars>>

(* signals or stake_series raises. *)
StrategyFails(t) ==
  /\ ticker[t].pc = "loaded"
  /\ status' = "halted"
  /\ ticker' = [ticker EXCEPT ![t] = NoTick]
  /\ UNCHANGED <<last, signal, usdt, base, trades, snaps, request, worldVars>>

(* The transaction of one candle reads its rows. *)
ReadRows(t) ==
  /\ ticker[t].pc \in {"loaded", "run"}
  /\ ticker' = [ticker EXCEPT ![t].pc = "apply", ![t].row = Row]
  /\ UNCHANGED <<rowVars, request, worldVars>>

(* On to the next candle of the list. *)
Advance(t) ==
  LET left == ticker[t].todo \ {Min(ticker[t].todo)}
  IN  ticker' = [ticker EXCEPT ![t] = IF left = {} THEN NoTick
                                       ELSE [@ EXCEPT !.pc = "run", !.todo = left, !.row = NoRow]]

(* Another process applied it. *)
Skip(t) ==
  /\ ticker[t].pc = "apply" /\ ticker[t].row.last >= Min(ticker[t].todo)
  /\ Advance(t)
  /\ UNCHANGED <<rowVars, request, worldVars>>

(* Whether candle i is a missed one: it closed two steps before the tick   *)
(* began.  The one before the newest is, but for the second it happens in. *)
Stale(i, at) == IF i >= at THEN {FALSE} ELSE IF i + 1 = at THEN BOOLEAN ELSE {TRUE}

(* EquitySnapshot is unique for session and candle.  Slip: it is not.      *)
AnySnapshot(i) == TRUE
NewSnapshot(i) == i \notin snaps

(* What the unique columns and the rows still there let _apply_candle      *)
(* commit for candle i with the fills of x.                                *)
Commits(i, x) ==
  /\ NewSnapshot(i)
  /\ x.bought # 0 => trades[x.bought] = NoTrade
  /\ x.sold # 0 /\ x.sold # x.bought => trades[x.sold] # NoTrade

(* _apply_candle ends in x with signal g, from rows r. *)
Write(t, r, i, x, g) ==
  /\ usdt' = Put(r.usdt, x.usdt, usdt)
  /\ base' = Put(r.base, IF x.open = 0 THEN 0 ELSE 1, base)
  /\ trades' = Session!Booked(trades, x, i)
  /\ signal' = Put(r.signal, g, signal)
  /\ last' = i
  /\ snaps' = snaps \cup {i}
  /\ status' \in {status} \cup (IF r.status = "running" THEN {"halted"} ELSE {})
  /\ Advance(t)

ApplyCandle(t) ==
  /\ ticker[t].pc = "apply"
  /\ LET r == ticker[t].row
         i == Min(ticker[t].todo)
     IN  /\ r.last < i
         /\ \E stale \in Stale(i, ticker[t].at) :
              LET allow == r.status = "running" /\ ~stale
              IN  \E end \in OnCandle(State(r.usdt, r.open), r.signal, i, allow) :
                    /\ Commits(i, end.state)
                    /\ Write(t, r, i, end.state, end.signal)
  /\ UNCHANGED <<request, worldVars>>

(* The transaction is undone and the exception ends the tick. *)
ApplyUndone(t) ==
  /\ ticker[t].pc = "apply"
  /\ LET r == ticker[t].row
         i == Min(ticker[t].todo)
     IN  /\ r.last < i
         /\ \E allow \in BOOLEAN :
              \E end \in OnCandle(State(r.usdt, r.open), r.signal, i, allow) : ~Commits(i, end.state)
  /\ ticker' = [ticker EXCEPT ![t] = NoTick]
  /\ UNCHANGED <<rowVars, request, worldVars>>

(* The worker dies; its open transaction with it. *)
Crash(t) ==
  /\ ticker[t].pc # "idle" /\ crashes < MaxCrashes
  /\ crashes' = crashes + 1
  /\ ticker' = [ticker EXCEPT ![t] = NoTick]
  /\ UNCHANGED <<rowVars, request, now, stored, asked>>

-----------------------------------------------------------------------------
(* set_status. *)

Allowed(act) ==
  CASE act = "pause" -> status = "running"
    [] act = "resume" -> status \in {"paused", "halted"}
    [] act = "stop" -> status \in ACTIVE
    [] OTHER -> TRUE

(* The session, and what reset's DELETEs see. *)
Ask(act) ==
  /\ request = NoRequest /\ asked < MaxAsked /\ Allowed(act)
  /\ asked' = asked + 1
  /\ request' = [act |-> act, row |-> Row,
                 seen |-> {i \in Candles : trades[i] # NoTrade} \cup snaps]
  /\ UNCHANGED <<rowVars, ticker, now, stored, crashes>>

SetStatus(new) == status' = Put(request.row.status, new, status)

PauseResume ==
  /\ \/ request.act = "pause" /\ SetStatus("paused")
     \/ request.act = "resume" /\ SetStatus("running")
  /\ request' = NoRequest
  /\ UNCHANGED <<last, signal, usdt, base, trades, snaps, ticker, worldVars>>

(* _close_at_last_price, if a position is open and the store has a candle  *)
(* since the one before the last applied, and the status.                  *)
Priced(r) == \E i \in stored : i >= r.last - 1
Stop ==
  /\ request.act = "stop"
  /\ LET r == request.row
     IN  /\ SetStatus("stopped")
         /\ signal' = Put(r.signal, NoSignal, signal)
         /\ IF r.open = 0 \/ ~Priced(r) THEN UNCHANGED <<usdt, base, trades>>
            ELSE \E p \in Prices :
                   /\ usdt' = Put(r.usdt, r.usdt + p, usdt)
                   /\ base' = Put(r.base, 0, base)
                   /\ trades' = [trades EXCEPT ![r.open].state = "closed", ![r.open].got = p]
  /\ request' = NoRequest
  /\ UNCHANGED <<last, snaps, ticker, worldVars>>

(* reset: the rows seen go; the balances are read after the DELETEs.  The  *)
(* two DELETEs and the write of the balances are one moment here.          *)
Reset ==
  /\ request.act = "reset"
  /\ trades' = [i \in Candles |-> IF i \in request.seen THEN NoTrade ELSE trades[i]]
  /\ snaps' = snaps \ request.seen
  /\ usdt' = Capital /\ base' = 0
  /\ last' = Put(request.row.last, now, last)
  /\ signal' = Put(request.row.signal, NoSignal, signal)
  /\ SetStatus("running")
  /\ request' = NoRequest
  /\ UNCHANGED <<ticker, worldVars>>

-----------------------------------------------------------------------------
(* The world. *)

CandleCloses ==
  /\ now < MaxCandle
  /\ now' = now + 1
  /\ UNCHANGED <<rowVars, ticker, request, stored, asked, crashes>>

(* sync: what the exchange has after the newest stored candle. *)
Sync ==
  /\ \E new \in IF Gaps THEN SUBSET (1 .. now) ELSE {1 .. now} :
       /\ stored' = stored \cup {i \in new : \A j \in stored : j < i}
       /\ stored' # stored
  /\ UNCHANGED <<rowVars, ticker, request, now, asked, crashes>>

-----------------------------------------------------------------------------
Tick(t) ==
  Load(t) \/ StrategyFails(t) \/ ReadRows(t) \/ Skip(t) \/ ApplyCandle(t) \/ ApplyUndone(t)

Serve == PauseResume \/ Stop \/ Reset

Next ==
  \/ \E t \in Tickers : Tick(t) \/ Crash(t)
  \/ \E act \in Actions : Ask(act)
  \/ Serve
  \/ CandleCloses \/ Sync

Spec == Init /\ [][Next]_vars

-----------------------------------------------------------------------------
(* "Only one open position per session", which one_or_none relies on: no   *)
(* order of ticks, stops and resets opens a second one.                    *)
OneOpen == Cardinality(OpenTrades) <= 1

Closed == {i \in Candles : trades[i].state = "closed"}
Pnl == [i \in Candles |-> trades[i].got - trades[i].paid]
Realized == SumFunctionOnSet(Pnl, Closed)

(* The free balances, the open position and the pnl of the closed trades   *)
(* add up to the capital at every moment.                                  *)
BalanceAgrees ==
  /\ usdt = Capital + Realized - (IF OpenTrades = {} THEN 0 ELSE trades[Session!OpenTrade].paid)
  /\ base = Cardinality(OpenTrades)

(* "A signal computed from candle i can only execute at the open of candle *)
(* i+1", the next one in the store, through pauses, deaths and downtime.   *)
EntryNext ==
  \A i \in Candles : trades[i] # NoTrade =>
    trades[i].entry > i /\ \A j \in stored : ~(i < j /\ j < trades[i].entry)

(* "A candle is never applied twice", by however many workers and whatever *)
(* dies: the session does what PaperSession says, one candle after another.*)
SessionSpec == Session!Spec

(* "After a crash or VPS restart a session resumes": every closed candle   *)
(* in the store is applied in the end, unless the owner stops the session. *)
(* The worker loop goes on; a strategy does not fail on every tick.        *)
Fairness ==
  /\ \A t \in Tickers : WF_vars(Tick(t))
  /\ \A t \in Tickers : SF_vars(ReadRows(t)) /\ SF_vars(ApplyCandle(t))
FairSpec == Spec /\ Fairness
CatchesUp == []<>(status = "stopped" \/ \A i \in stored : i <= last)

=============================================================================
