------------------------------ MODULE LiveEngine ------------------------------
(***************************************************************************)
(* The real-order engine of quantlab for one environment ("live"): the     *)
(* worker process that runs one tick after another (live/engine.py,        *)
(* worker.run_live), the owner's requests that the API process serves at   *)
(* the same time (start, stop, kill switch, authorize, revoke, stored      *)
(* credentials), the database both commit to, and the exchange that        *)
(* executes, refuses or loses the orders.                                  *)
(*                                                                         *)
(* One step is one database transaction or one call of the exchange.  The  *)
(* other process may act between any two of them, and the worker may die   *)
(* there.                                                                  *)
(***************************************************************************)
EXTENDS Integers, Sequences, FiniteSets

CONSTANTS
  Pairs,        \* trading pairs an authorization can name
  Keys,         \* API keys the owner can store
  SafeKeys,     \* the keys verify_key_is_safe finds no problem with
  NoKey,        \* no stored credentials
  NoPair,       \* no pair
  Outcomes,     \* final states the exchange gives an accepted order
  Switch,       \* values QL_LIVE_ENABLED can have when the worker starts
  CrashPoints,  \* program points at which the worker can die
  MaxCandle,    \* bound: candles closed
  MaxMinute,    \* bound: minutes passed
  MaxAuth,      \* bound: authorizations given
  MaxKills,     \* bound: uses of the kill switch
  MaxCrashes    \* bound: deaths of the worker

Points == {"idle", "verify", "quote", "gate", "reconcile", "rbook", "candle",
           "risk", "write", "post", "await", "book", "halt", "down"}

ASSUME PairsAssumption == NoPair \notin Pairs
ASSUME KeysAssumption == NoKey \notin Keys /\ SafeKeys \subseteq Keys
ASSUME OutcomesAssumption == Outcomes \subseteq {"filled", "expired"}
ASSUME CrashAssumption == CrashPoints \subseteq Points \ {"down"}
ASSUME SwitchAssumption == Switch \subseteq BOOLEAN /\ Switch # {}
ASSUME BoundsAssumption ==
  /\ MaxCandle \in Nat /\ MaxMinute \in Nat /\ MaxAuth \in Nat
  /\ MaxKills \in Nat /\ MaxCrashes \in Nat

VARIABLES
  (* The database. *)
  status,       \* LivePortfolio.status
  auths,        \* LiveAuthorization rows by id: pair and whether revoked_at is set
  creds,        \* ExchangeConnection: the stored key
  orderStatus,  \* LiveOrder.status by client order id; "none" is no row
  orderPair,    \* LiveOrder.symbol by client order id
  trade,        \* the open LiveTrade
  lastCandle,   \* LivePortfolio.last_candle_ts
  (* The worker process. *)
  pc,           \* where the current tick is
  verified,     \* run_live's `verified`
  cur,          \* client order id being sent or booked
  todo,         \* reconcile's list
  tick,         \* the other values a tick carries from step to step
  (* The API process. *)
  kill,         \* the kill switch request being served
  (* The exchange. *)
  exch,         \* the fate of each order
  holding,      \* base quantity of each pair held by this account
  (* The world. *)
  enabled,      \* settings.live_enabled of the running worker
  below,        \* pairs whose price is at or under the stop of a trade on them
  candle,       \* newest closed candle in the candle store
  minute,       \* now // 60
  crashes,      \* deaths so far
  (* Observation. *)
  lateEntries   \* BUY orders sent since the engine last was told not to open

dbVars     == <<status, auths, creds, orderStatus, orderPair, trade, lastCandle>>
orderVars  == <<orderStatus, orderPair, trade>>
localVars  == <<verified, cur, todo, tick>>
workerVars == <<pc, verified, cur, todo, tick>>
exchVars   == <<exch, holding>>
worldVars  == <<enabled, below, candle, minute, crashes>>
vars == <<dbVars, workerVars, kill, exchVars, worldVars, lateEntries>>

(* Client order ids: the letter says which code path makes the id, the     *)
(* number is the candle, the minute or the kill request it is made from.   *)
EngineCid == ({"e", "x"} \X (0 .. MaxCandle)) \cup ({"s"} \X (0 .. MaxMinute))
KillCid   == {"k"} \X (1 .. MaxKills)
Cid       == EngineCid \cup KillCid
NoCid     == <<"-", 0>>
IsBuy(c)  == c[1] = "e"

Open     == {"pending", "unknown"}
Final    == {"filled", "expired", "rejected", "not_placed"}
Executed == {"filled", "expired"}
NoTrade  == [pair |-> NoPair, qty |-> 0]
NoTick   == [key |-> NoKey, quote |-> NoPair, low |-> FALSE, held |-> 0,
             at |-> 0, pair |-> NoPair, open |-> 0]
NoKill(n) == [pc |-> "idle", pair |-> NoPair, at |-> n]

AuthRow == [pair : Pairs, revoked : BOOLEAN]
OrderTypeOK ==
  /\ orderStatus \in [Cid -> {"none"} \cup Open \cup Final]
  /\ \A c \in KillCid : orderStatus[c] \notin Open
  /\ orderPair \in [Cid -> Pairs \cup {NoPair}]
  /\ exch \in [Cid -> {"absent", "inflight", "refused", "lost"} \cup Executed]
  /\ holding \in [Pairs -> Nat]
  /\ trade \in [pair : Pairs \cup {NoPair}, qty : {0, 1}]
OwnerTypeOK ==
  /\ status \in {"stopped", "running", "halted"}
  /\ auths \in Seq(AuthRow)
  /\ creds \in Keys \cup {NoKey}
  /\ kill \in [pc : {"idle", "close", "await"}, pair : Pairs \cup {NoPair},
               at : 0 .. MaxKills]
  /\ kill.pc # "idle" => kill.at > 0
  /\ lateEntries \in Nat
WorkerTypeOK ==
  /\ pc \in Points
  /\ verified \in BOOLEAN
  /\ cur \in EngineCid \cup {NoCid}
  /\ pc \in {"rbook", "write", "post", "await", "book", "halt"} => cur \in EngineCid
  /\ todo \subseteq EngineCid
  /\ tick \in [key : Keys \cup {NoKey}, quote : Pairs \cup {NoPair}, low : BOOLEAN,
               held : 0 .. Len(auths), at : 0 .. MaxMinute,
               pair : Pairs \cup {NoPair}, open : {0, 1}]
  /\ lastCandle \in 0 .. MaxCandle
WorldTypeOK ==
  /\ enabled \in BOOLEAN
  /\ below \in [Pairs -> BOOLEAN]
  /\ candle \in 0 .. MaxCandle
  /\ minute \in 0 .. MaxMinute
  /\ crashes \in 0 .. MaxCrashes
TypeOK == OrderTypeOK /\ OwnerTypeOK /\ WorkerTypeOK /\ WorldTypeOK

Init ==
  /\ status = "stopped"
  /\ auths = <<>>
  /\ creds = NoKey
  /\ orderStatus = [c \in Cid |-> "none"]
  /\ orderPair = [c \in Cid |-> NoPair]
  /\ trade = NoTrade
  /\ lastCandle = 0
  /\ pc = "idle" /\ verified = FALSE /\ cur = NoCid /\ todo = {} /\ tick = NoTick
  /\ kill = NoKill(0)
  /\ exch = [c \in Cid |-> "absent"]
  /\ holding = [p \in Pairs |-> 0]
  /\ enabled \in Switch
  /\ below = [p \in Pairs |-> FALSE]
  /\ candle = 0 /\ minute = 0 /\ crashes = 0
  /\ lateEntries = 0

-----------------------------------------------------------------------------
(* What the queries of both processes return. *)

(* active_authorization: the newest row that is not revoked, 0 if none. *)
Active ==
  LET newest == {i \in DOMAIN auths : /\ ~auths[i].revoked
                                      /\ \A j \in (i + 1) .. Len(auths) : auths[j].revoked}
  IN  IF newest = {} THEN 0 ELSE CHOOSE i \in newest : TRUE

(* gate_reasons is empty. *)
GatesOpen == enabled /\ Active # 0 /\ creds # NoKey

(* The orders whose outcome this database does not know. *)
Unresolved == {c \in Cid : orderStatus[c] \in Open}

(* What reconcile asks the exchange about.  Slip: "unknown" left out. *)
ForgottenUnknown == {c \in Cid : orderStatus[c] = "pending"}
ReconcileList == {c \in Cid : orderStatus[c] \in {"pending", "unknown"}}

(* What makes tick return waiting_reconcile.  Slip: no such check. *)
NoBlocking == {}
Blocking == {c \in Cid : orderStatus[c] \in {"pending", "unknown"}}

-----------------------------------------------------------------------------
(* The worker.  A cycle of run_live ends by a return or by an exception    *)
(* that _guard swallows; nothing local but `verified` survives it.         *)

EndCycle == pc' = "idle" /\ cur' = NoCid /\ todo' = {} /\ tick' = NoTick

(* run_live: the portfolio is not stopped and build_exchange finds a key. *)
CycleStart ==
  /\ pc = "idle" /\ status # "stopped" /\ creds # NoKey
  /\ tick' = [NoTick EXCEPT !.key = creds]
  /\ pc' = IF verified THEN "quote" ELSE "verify"
  /\ UNCHANGED <<dbVars, verified, cur, todo, kill, exchVars, worldVars, lateEntries>>

(* verify_key_is_safe answers without problems. *)
VerifyKey ==
  /\ pc = "verify" /\ tick.key \in SafeKeys
  /\ verified' = TRUE
  /\ pc' = "quote"
  /\ UNCHANGED <<dbVars, cur, todo, tick, kill, exchVars, worldVars, lateEntries>>

(* verify_key_is_safe finds problems. *)
UnsafeKey ==
  /\ pc = "verify" /\ tick.key \notin SafeKeys
  /\ status' = "halted"
  /\ EndCycle
  /\ UNCHANGED <<auths, creds, orderVars, lastCandle, verified, kill, exchVars, worldVars, lateEntries>>

(* The price of the authorized pair, read from the exchange's ticker. *)
ReadQuote ==
  /\ pc = "quote"
  /\ tick' = IF Active = 0 THEN tick
             ELSE [tick EXCEPT !.quote = auths[Active].pair, !.low = below[auths[Active].pair]]
  /\ pc' = "gate"
  /\ UNCHANGED <<dbVars, verified, cur, todo, kill, exchVars, worldVars, lateEntries>>

(* apiRestrictions, the ticker or account() raises. *)
CallFails ==
  /\ pc \in {"verify", "quote", "risk"}
  /\ EndCycle
  /\ UNCHANGED <<dbVars, verified, kill, exchVars, worldVars, lateEntries>>

(* The first transaction of tick, stopped. *)
GateStopped ==
  /\ pc = "gate" /\ status = "stopped"
  /\ EndCycle
  /\ UNCHANGED <<dbVars, verified, kill, exchVars, worldVars, lateEntries>>

(* The first transaction of tick, not stopped, and the list reconcile      *)
(* makes right after it: only this process adds or resolves open orders.   *)
Gate ==
  /\ pc = "gate" /\ status # "stopped"
  /\ status' = IF GatesOpen THEN status ELSE "halted"
  /\ tick' = [tick EXCEPT !.held = Active, !.at = minute]
  /\ todo' = ReconcileList
  /\ pc' = "reconcile"
  /\ UNCHANGED <<auths, creds, orderVars, lastCandle, verified, cur, kill, exchVars, worldVars, lateEntries>>

(* The exchange does not answer the question about c: reconcile goes on.   *)
QueryFails(c) ==
  /\ pc = "reconcile" /\ c \in todo
  /\ todo' = todo \ {c}
  /\ UNCHANGED <<dbVars, pc, verified, cur, tick, kill, exchVars, worldVars, lateEntries>>

(* The status reconcile gives an order, from the exchange's answer.        *)
(* Slip: no case for an order the exchange does not have.                  *)
RawAnswer(c) == exch[c]
Answer(c) == IF exch[c] \in Executed THEN exch[c] ELSE "not_placed"

(* reconcile books what was filled.  Slip: it only marks the order. *)
BooksNothing(c) == FALSE
BooksAnswer(c) == exch[c] = "filled"

(* The answer of the exchange and _finish.  A request that was in flight   *)
(* when its caller gave up is settled by the time it is asked about: it    *)
(* carries recvWindow 5000 and the next cycle waits 10 seconds.            *)
QueryOrder(c) ==
  /\ pc = "reconcile" /\ c \in todo /\ exch[c] # "inflight"
  /\ orderStatus' = [orderStatus EXCEPT ![c] = Answer(c)]
  /\ todo' = todo \ {c}
  /\ pc' = IF BooksAnswer(c) THEN "rbook" ELSE "reconcile"
  /\ cur' = IF BooksAnswer(c) THEN c ELSE cur
  /\ UNCHANGED <<status, auths, creds, orderPair, trade, lastCandle, verified, tick, kill, exchVars, worldVars, lateEntries>>

(* _book: a BUY opens the trade if none is open, a SELL closes the open    *)
(* trade whatever its pair, anything else is ignored.                      *)
Book(c) ==
  trade' = IF IsBuy(c)
           THEN IF trade.pair # NoPair THEN trade
                ELSE [pair |-> orderPair[c], qty |-> IF exch[c] = "filled" THEN 1 ELSE 0]
           ELSE NoTrade

BookReconciled ==
  /\ pc = "rbook"
  /\ Book(cur)
  /\ pc' = "reconcile" /\ cur' = NoCid
  /\ UNCHANGED <<status, auths, creds, orderStatus, orderPair, lastCandle, verified, todo, tick, kill, exchVars, worldVars, lateEntries>>

(* The second transaction of tick.  First return: waiting_reconcile. *)
WaitingReconcile ==
  /\ pc = "reconcile" /\ todo = {} /\ Blocking # {}
  /\ EndCycle
  /\ UNCHANGED <<dbVars, verified, kill, exchVars, worldVars, lateEntries>>

(* Second return: no authorization was active in the first transaction. *)
NoAuthorization ==
  /\ pc = "reconcile" /\ todo = {} /\ Blocking = {} /\ tick.held = 0
  /\ EndCycle
  /\ UNCHANGED <<dbVars, verified, kill, exchVars, worldVars, lateEntries>>

(* Whether the price is at or under the stop of the open trade.  The price *)
(* is that of tick.quote; compared with the entry price of a trade on      *)
(* another pair, or taken from the last candle, it can fall either way.    *)
StopTests ==
  IF trade.qty = 0 THEN {FALSE}
  ELSE IF tick.quote = trade.pair THEN {tick.low} ELSE BOOLEAN

(* A tick that is due a stop sends it before it looks at the candle.       *)
(* Slip: stops are looked at on a new candle only.                         *)
AfterCandle(hit) == hit /\ candle > lastCandle
SendsStop(hit) == hit

(* No return: s.merge(auth) writes the row read in the first transaction   *)
(* back, revoked_at included; then the stop check.                         *)
Plan ==
  /\ pc = "reconcile" /\ todo = {} /\ Blocking = {} /\ tick.held # 0
  /\ auths' = [auths EXCEPT ![tick.held].revoked = FALSE]
  /\ tick' = [tick EXCEPT !.pair = auths[tick.held].pair, !.open = trade.qty]
  /\ \E hit \in StopTests :
       /\ pc' = IF SendsStop(hit) THEN "write" ELSE "candle"
       /\ cur' = IF SendsStop(hit) THEN <<"s", tick.at>> ELSE cur
  /\ UNCHANGED <<status, creds, orderVars, lastCandle, verified, todo, kill, exchVars, worldVars, lateEntries>>

(* no_new_candle; or stale_data, when the newest candle is too old. *)
NoFreshCandle ==
  /\ pc = "candle"
  /\ EndCycle
  /\ UNCHANGED <<dbVars, verified, kill, exchVars, worldVars, lateEntries>>

StrategyFails ==
  /\ pc = "candle" /\ candle > lastCandle
  /\ status' = "halted"
  /\ EndCycle
  /\ UNCHANGED <<auths, creds, orderVars, lastCandle, verified, kill, exchVars, worldVars, lateEntries>>

TakeCandle ==
  /\ pc = "candle" /\ candle > lastCandle
  /\ lastCandle' = candle
  /\ pc' = "risk"
  /\ UNCHANGED <<status, auths, creds, orderVars, verified, cur, todo, tick, kill, exchVars, worldVars, lateEntries>>

(* When a BUY may follow the risk transaction that read status st.         *)
(* Slips: the status read at the top of the tick; no look at the position. *)
EntersOnStaleStatus(st) == tick.open = 0
EntersTwice(st) == st = "running"
MayEnter(st) == tick.open = 0 /\ st = "running"

(* The transaction after account(): a breach of the authorized limits      *)
(* halts; then the exit signal, the entry signal, or nothing (no signal,   *)
(* entry_blocked, entry_rejected by entry_violations).                     *)
RiskCheck ==
  /\ pc = "risk"
  /\ \E st \in IF status = "running" THEN {"running", "halted"} ELSE {status} :
       /\ status' = st
       /\ \/ /\ tick.open = 1
             /\ pc' = "write" /\ cur' = <<"x", lastCandle>>
             /\ UNCHANGED <<todo, tick>>
          \/ /\ MayEnter(st)
             /\ pc' = "write" /\ cur' = <<"e", lastCandle>>
             /\ UNCHANGED <<todo, tick>>
          \/ EndCycle
  /\ UNCHANGED <<auths, creds, orderVars, lastCandle, verified, kill, exchVars, worldVars, lateEntries>>

(* _write_order finds no row with this client order id (unique column).    *)
(* Slip: no such column constraint.                                        *)
AnyRow(c) == TRUE
NewRow(c) == orderStatus[c] = "none"

(* Slip: the row is left for the time after the call, as kill_switch does. *)
SendWithoutRow ==
  /\ pc = "write" /\ NewRow(cur)
  /\ orderPair' = [orderPair EXCEPT ![cur] = tick.pair]
  /\ pc' = "post"
  /\ UNCHANGED <<status, auths, creds, orderStatus, trade, lastCandle, localVars, kill, exchVars, worldVars, lateEntries>>

(* _write_order returns True. *)
WriteOrder ==
  /\ pc = "write" /\ NewRow(cur)
  /\ orderStatus' = [orderStatus EXCEPT ![cur] = "pending"]
  /\ orderPair' = [orderPair EXCEPT ![cur] = tick.pair]
  /\ pc' = "post"
  /\ UNCHANGED <<status, auths, creds, trade, lastCandle, localVars, kill, exchVars, worldVars, lateEntries>>

(* _write_order returns False: the id was used, nothing is sent. *)
OrderExists ==
  /\ pc = "write" /\ ~NewRow(cur)
  /\ EndCycle
  /\ UNCHANGED <<dbVars, verified, kill, exchVars, worldVars, lateEntries>>

(* market_buy or market_sell leaves the process. *)
PostOrder ==
  /\ pc = "post"
  /\ exch' = [exch EXCEPT ![cur] = "inflight"]
  /\ lateEntries' = IF IsBuy(cur) /\ status # "running" THEN lateEntries + 1 ELSE lateEntries
  /\ pc' = "await"
  /\ UNCHANGED <<dbVars, localVars, kill, holding, worldVars>>

(* The response arrives, and _finish. *)
OrderAnswered ==
  /\ pc = "await" /\ exch[cur] \in Executed
  /\ orderStatus' = [orderStatus EXCEPT ![cur] = exch[cur]]
  /\ pc' = "book"
  /\ UNCHANGED <<status, auths, creds, orderPair, trade, lastCandle, localVars, kill, exchVars, worldVars, lateEntries>>

(* ExchangeError: the order did not execute. *)
OrderRejected ==
  /\ pc = "await" /\ exch[cur] = "refused"
  /\ orderStatus' = [orderStatus EXCEPT ![cur] = "rejected"]
  /\ pc' = "halt"
  /\ UNCHANGED <<status, auths, creds, orderPair, trade, lastCandle, localVars, kill, exchVars, worldVars, lateEntries>>

(* The status after a timeout.  Slip: ExchangeUnknown handled as an error. *)
TimeoutAsRejected == "rejected"
TimeoutStatus == "unknown"

(* ExchangeUnknown: a timeout or a 5xx, whatever became of the request. *)
OrderUnknown ==
  /\ pc = "await"
  /\ orderStatus' = [orderStatus EXCEPT ![cur] = TimeoutStatus]
  /\ pc' = "halt"
  /\ UNCHANGED <<status, auths, creds, orderPair, trade, lastCandle, localVars, kill, exchVars, worldVars, lateEntries>>

BookOrder ==
  /\ pc = "book"
  /\ Book(cur)
  /\ EndCycle
  /\ UNCHANGED <<status, auths, creds, orderStatus, orderPair, lastCandle, verified, kill, exchVars, worldVars, lateEntries>>

(* _halt with unknown_order_state or exchange_rejected. *)
HaltAfterSend ==
  /\ pc = "halt"
  /\ status' = "halted"
  /\ EndCycle
  /\ UNCHANGED <<auths, creds, orderVars, lastCandle, verified, kill, exchVars, worldVars, lateEntries>>

(* The process dies; compose starts it again, with its environment reread. *)
Crash ==
  /\ pc \in CrashPoints /\ crashes < MaxCrashes
  /\ crashes' = crashes + 1
  /\ pc' = "down" /\ verified' = FALSE /\ cur' = NoCid /\ todo' = {} /\ tick' = NoTick
  /\ UNCHANGED <<dbVars, kill, exchVars, enabled, below, candle, minute, lateEntries>>

Restart ==
  /\ pc = "down"
  /\ enabled' \in Switch
  /\ pc' = "idle"
  /\ UNCHANGED <<dbVars, localVars, kill, exchVars, below, candle, minute, crashes, lateEntries>>

-----------------------------------------------------------------------------
(* The owner's requests, served by the API process. *)

Start ==
  /\ GatesOpen
  /\ status' = "running"
  /\ lateEntries' = 0
  /\ UNCHANGED <<auths, creds, orderVars, lastCandle, workerVars, kill, exchVars, worldVars>>

Stop ==
  /\ status' = "stopped"
  /\ UNCHANGED <<auths, creds, orderVars, lastCandle, workerVars, kill, exchVars, worldVars, lateEntries>>

RevokeAll == [i \in DOMAIN auths |-> [auths[i] EXCEPT !.revoked = TRUE]]

(* authorize: a new row that replaces the active one. *)
Authorize(p) ==
  /\ Len(auths) < MaxAuth
  /\ auths' = Append(RevokeAll, [pair |-> p, revoked |-> FALSE])
  /\ UNCHANGED <<status, creds, orderVars, lastCandle, workerVars, kill, exchVars, worldVars, lateEntries>>

Revoke ==
  /\ auths' = RevokeAll
  /\ UNCHANGED <<status, creds, orderVars, lastCandle, workerVars, kill, exchVars, worldVars, lateEntries>>

(* set_credentials and del_credentials. *)
StoreKey(k) ==
  /\ creds' = k
  /\ UNCHANGED <<status, auths, orderVars, lastCandle, workerVars, kill, exchVars, worldVars, lateEntries>>

(* kill_switch commits the halt and reads the open trade; it goes on to    *)
(* the exchange if there is a key and a position and the owner asked to    *)
(* close it.  (For a trade of quantity 0 the request is refused: no step.) *)
KillBegin(close) ==
  /\ kill.pc = "idle" /\ kill.at < MaxKills
  /\ status' = "halted"
  /\ kill' = IF close /\ creds # NoKey /\ trade.qty = 1
             THEN [pc |-> "close", pair |-> trade.pair, at |-> kill.at + 1]
             ELSE NoKill(kill.at + 1)
  /\ UNCHANGED <<auths, creds, orderVars, lastCandle, workerVars, exchVars, worldVars, lateEntries>>

KillSell ==
  /\ kill.pc = "close"
  /\ exch' = [exch EXCEPT ![<<"k", kill.at>>] = "inflight"]
  /\ orderPair' = [orderPair EXCEPT ![<<"k", kill.at>>] = kill.pair]
  /\ kill' = [kill EXCEPT !.pc = "await"]
  /\ UNCHANGED <<status, auths, creds, orderStatus, trade, lastCandle, workerVars, holding, worldVars, lateEntries>>

(* The SELL executed and its response arrived: the order row and the end   *)
(* of the trade in one transaction, which rolls back if no trade is open.  *)
KillRecord ==
  /\ kill.pc = "await" /\ exch[<<"k", kill.at>>] \in Executed
  /\ orderStatus' = IF trade.pair = NoPair THEN orderStatus
                    ELSE [orderStatus EXCEPT ![<<"k", kill.at>>] = exch[<<"k", kill.at>>]]
  /\ trade' = NoTrade
  /\ kill' = NoKill(kill.at)
  /\ UNCHANGED <<status, auths, creds, orderPair, lastCandle, workerVars, exchVars, worldVars, lateEntries>>

(* cancel_all or market_sell raises, or the API process dies. *)
KillFails ==
  /\ kill.pc # "idle"
  /\ kill' = NoKill(kill.at)
  /\ UNCHANGED <<dbVars, workerVars, exchVars, worldVars, lateEntries>>

-----------------------------------------------------------------------------
(* The exchange: a market order executes at once or not at all; a BUY can  *)
(* always be refused (funds, filters), a SELL needs the holding.           *)

Fill(c) ==
  /\ exch[c] = "inflight" /\ "filled" \in Outcomes
  /\ IsBuy(c) \/ holding[orderPair[c]] > 0
  /\ exch' = [exch EXCEPT ![c] = "filled"]
  /\ holding' = [holding EXCEPT ![orderPair[c]] = IF IsBuy(c) THEN @ + 1 ELSE @ - 1]
  /\ UNCHANGED <<dbVars, workerVars, kill, worldVars, lateEntries>>

(* No liquidity (executedQty 0), refused, or the request never arrived. *)
NotFilled(c) ==
  /\ exch[c] = "inflight"
  /\ \E end \in {"refused", "lost"} \cup (Outcomes \ {"filled"}) : exch' = [exch EXCEPT ![c] = end]
  /\ UNCHANGED <<dbVars, workerVars, kill, holding, worldVars, lateEntries>>

-----------------------------------------------------------------------------
(* The world. *)

PriceMoves(p) ==
  /\ below' = [below EXCEPT ![p] = ~@]
  /\ UNCHANGED <<dbVars, workerVars, kill, exchVars, enabled, candle, minute, crashes, lateEntries>>

CandleCloses ==
  /\ candle < MaxCandle
  /\ candle' = candle + 1
  /\ UNCHANGED <<dbVars, workerVars, kill, exchVars, enabled, below, minute, crashes, lateEntries>>

MinutePasses ==
  /\ minute < MaxMinute
  /\ minute' = minute + 1
  /\ UNCHANGED <<dbVars, workerVars, kill, exchVars, enabled, below, candle, crashes, lateEntries>>

-----------------------------------------------------------------------------
TickStep ==
  \/ CycleStart \/ VerifyKey \/ UnsafeKey \/ ReadQuote \/ CallFails
  \/ GateStopped \/ Gate
  \/ (\E c \in EngineCid : QueryFails(c) \/ QueryOrder(c))
  \/ BookReconciled \/ WaitingReconcile \/ NoAuthorization \/ Plan
  \/ NoFreshCandle \/ StrategyFails \/ TakeCandle \/ RiskCheck

SendStep ==
  \/ WriteOrder \/ OrderExists \/ PostOrder
  \/ OrderAnswered \/ OrderRejected \/ OrderUnknown
  \/ BookOrder \/ HaltAfterSend

OwnerStep ==
  \/ Start \/ Stop \/ Revoke
  \/ (\E p \in Pairs : Authorize(p))
  \/ (\E k \in Keys \cup {NoKey} : StoreKey(k))

KillStep == (\E close \in BOOLEAN : KillBegin(close)) \/ KillSell \/ KillRecord \/ KillFails

ExchangeStep == \E c \in Cid : Fill(c) \/ NotFilled(c)

WorldStep == (\E p \in Pairs : PriceMoves(p)) \/ CandleCloses \/ MinutePasses

Next == TickStep \/ SendStep \/ Crash \/ Restart \/ OwnerStep \/ KillStep \/ ExchangeStep \/ WorldStep

Spec == Init /\ [][Next]_vars

-----------------------------------------------------------------------------
(* What holds of the orders and the position. *)

(* The engine never has two orders whose outcome it does not know, whatever *)
(* the crashes and timeouts: tick returns waiting_reconcile first.          *)
AtMostOneUnresolved == Cardinality(Unresolved) <= 1

(* "Each order is written to the database before it is sent": of the       *)
(* orders a tick sends.                                                     *)
WriteAhead == \A c \in EngineCid : exch[c] # "absent" => orderStatus[c] # "none"

(* A closed row tells the truth about the exchange: a filled order was     *)
(* filled, and one called rejected or not_placed never will be.            *)
LedgerAgrees ==
  \A c \in Cid :
    /\ orderStatus[c] \in Executed => exch[c] = orderStatus[c]
    /\ orderStatus[c] = "rejected" => exch[c] = "refused"
    /\ orderStatus[c] = "not_placed" => exch[c] \in {"absent", "refused", "lost"}

(* The invariant the last three rest on: where the tick is tells which     *)
(* order can be unresolved and what is known of it, and the kill requests  *)
(* to come have neither a row nor an order at the exchange.                *)
SendInv ==
  /\ todo \subseteq Unresolved
  /\ \A c, d \in Unresolved : c = d
  /\ pc \in {"candle", "risk", "write", "book"} => Unresolved = {}
  /\ pc \in {"post", "await"} => orderStatus[cur] = "pending" /\ todo = {}
  /\ pc = "post" => exch[cur] = "absent"
  /\ pc = "await" => exch[cur] # "absent"
KillInv ==
  \A n \in 1 .. MaxKills :
    /\ n > kill.at \/ (n = kill.at /\ kill.pc # "idle") => orderStatus[<<"k", n>>] = "none"
    /\ n > kill.at \/ (n = kill.at /\ kill.pc = "close") => exch[<<"k", n>>] = "absent"
OrderInv == SendInv /\ KillInv /\ WriteAhead /\ LedgerAgrees

(* A kill switch SELL that may have executed and has no row. *)
KillUnrecorded ==
  \E c \in KillCid : orderStatus[c] = "none" /\ exch[c] \in {"inflight"} \cup Executed

(* When nothing is unresolved and no fill waits to be booked, the open     *)
(* trade in the database is exactly what the account holds.                *)
PositionKnown ==
  (Unresolved = {} /\ pc \notin {"book", "rbook"} /\ ~KillUnrecorded)
    => \A p \in Pairs : holding[p] = IF trade.pair = p THEN trade.qty ELSE 0

(* Crashes, timeouts and restarts never make the engine buy a second       *)
(* position on top of the first.                                           *)
OnePosition ==
  /\ \A p \in Pairs : holding[p] <= 1
  /\ \A p, q \in Pairs : holding[p] = 1 /\ holding[q] = 1 => p = q

(* After a halt, a stop or a kill at most the one entry that the running   *)
(* tick had already decided leaves; the next tick opens nothing.           *)
LateEntryBound == lateEntries <= 1

(* A row that was closed never changes again, so a fill is not booked      *)
(* twice and a history shown to the owner does not turn.                   *)
FinalForever ==
  [][\A c \in Cid : orderStatus[c] \in Final => orderStatus'[c] = orderStatus[c]]_orderStatus

(* "so a restart can reconcile instead of re-sending": no client order id  *)
(* leaves twice.                                                           *)
SentOnce ==
  [][\A c \in Cid : exch[c] # "absent" /\ exch'[c] # exch[c] => exch'[c] # "inflight"]_exch

(* The orders of the ticks refine the abstract ledger. *)
Ledger == INSTANCE OrderLedger WITH
            Orders <- EngineCid,
            row <- [c \in EngineCid |-> orderStatus[c]],
            fate <- [c \in EngineCid |-> exch[c]]
LedgerSpec == Ledger!Spec

-----------------------------------------------------------------------------
(* Liveness.  The worker loop goes on and compose restarts it; a request   *)
(* in flight ends; calls that are tried again and again do not fail every  *)
(* time.  Nothing is assumed of the owner, the price or the clock.         *)

Fairness ==
  /\ WF_vars(TickStep \/ SendStep \/ Restart)
  /\ \A c \in Cid : WF_vars(Fill(c) \/ NotFilled(c))
  /\ SF_vars(VerifyKey)
  /\ SF_vars(ReadQuote)
  /\ SF_vars(\E c \in EngineCid : QueryOrder(c))

FairSpec == Spec /\ Fairness

(* An order of unknown outcome does not stay unknown while the engine is   *)
(* not stopped and has a key: reconcile gets to it even when the engine is *)
(* halted or the authorization is gone.                                    *)
UnresolvedResolves == []<>(Unresolved = {} \/ status = "stopped" \/ creds = NoKey)

(* The price is at or under the stop of the open trade, its pair is the    *)
(* authorized one, and no stop order has been written in this minute.      *)
StopDue ==
  /\ trade.qty = 1 /\ below[trade.pair]
  /\ Active # 0 /\ auths[Active].pair = trade.pair
  /\ status # "stopped" /\ creds # NoKey
  /\ orderStatus[<<"s", minute>>] = "none"

(* "Stops are evaluated every cycle on the latest price, not only on       *)
(* closed candles": a stop that stays due is acted on, also when halted.   *)
StopActs == []<>~StopDue
=============================================================================
