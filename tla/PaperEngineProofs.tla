--------------------------- MODULE PaperEngineProofs ---------------------------
(***************************************************************************)
(* One session, for any number of workers and candles: the types, the one  *)
(* open position, the candle an entry is executed at, and that the workers *)
(* together do what PaperSession says.                                     *)
(***************************************************************************)
EXTENDS PaperEngine, NumberFacts

TradeRow == [state : {"none", "open", "closed"}, entry : 0 .. MaxCandle, paid : Nat, got : Nat]
TickRow ==
  [pc : {"idle", "loaded", "run", "apply"}, todo : SUBSET Candles, at : 0 .. MaxCandle, row : RowSet]
RequestRow == [act : Actions \cup {"none"}, row : RowSet, seen : SUBSET Candles]

RowTypes ==
  /\ status \in {"running", "paused", "halted", "stopped"} /\ last \in 0 .. MaxCandle
  /\ signal \in SignalSet /\ usdt \in Nat /\ base \in {0, 1}
  /\ trades \in [Candles -> TradeRow]
WorldTypes ==
  /\ stored \subseteq 1 .. now /\ now \in 0 .. MaxCandle /\ snaps \subseteq stored
  /\ asked \in 0 .. MaxAsked /\ crashes \in 0 .. MaxCrashes
TickerTypes ==
  /\ ticker \in [Tickers -> TickRow]
  /\ \A t \in Tickers :
       /\ ticker[t].pc = "idle" <=> ticker[t].todo = {}
       /\ ticker[t].todo \subseteq stored
Types == RowTypes /\ WorldTypes /\ TickerTypes /\ request \in RequestRow

(* Nothing is reset: the candles applied are those in the store up to the  *)
(* last one, and a worker has left none out before those it has to do.     *)
Applied == snaps = {j \in stored : j <= last} /\ last \in {0} \cup stored
NoneLeftOut(v, to) == \A k \in v.todo : \A j \in stored : j < k => j \in v.todo \/ j <= to

(* A transaction that read its rows when the same candle was the last saw  *)
(* what is still there, but for what a stop has closed since.              *)
ReadStill(r) ==
  /\ r.last <= last
  /\ r.signal.side # "none" => r.signal.at = r.last
  /\ r.last = last => signal \in {r.signal, NoSignal}
  /\ r.last = last /\ r.open = 0 => OpenTrades = {}
  /\ r.last = last /\ "stop" \notin Actions => r = [Row EXCEPT !.status = r.status]
TickInv(v) ==
  /\ NoneLeftOut(v, last)
  /\ v.pc = "apply" => NoneLeftOut(v, v.row.last) /\ ReadStill(v.row)
TicksInv == \A t \in Tickers : TickInv(ticker[t])

(* No trade is deleted, so the one a request read is still there.          *)
RequestInv == request.row.open # 0 => trades[request.row.open] # NoTrade

AtMostOne == \A i, j \in OpenTrades : i = j
SignalOfLast == signal.side # "none" => signal.at = last
TradesAreOld ==
  \A i \in Candles : trades[i] # NoTrade =>
    trades[i].entry \in stored /\ trades[i].entry > i /\ trades[i].entry <= last

SessionIInv ==
  /\ Types /\ Applied /\ TicksInv /\ RequestInv /\ AtMostOne
  /\ SignalOfLast /\ TradesAreOld /\ EntryNext

(* One worker: what it has read to be closed only it could open.           *)
OneTickerInv ==
  /\ Types /\ AtMostOne
  /\ \A t \in Tickers : ticker[t].pc = "apply" /\ ticker[t].row.open = 0 => OpenTrades = {}

-----------------------------------------------------------------------------
(* What a candle can do to the state it is applied to.                     *)
SimRow == [usdt : Nat, open : 0 .. MaxCandle, paid : Nat, bought : 0 .. MaxCandle,
           sold : 0 .. MaxCandle, got : Nat]
Fills(z, open, sig) ==
  /\ z.bought = 0 => z.sold \in {0, open} /\ z.open = IF z.sold = 0 THEN open ELSE 0
  /\ z.bought # 0 => z.sold \in {0, z.bought} /\ z.open = IF z.sold = 0 THEN z.bought ELSE 0
  /\ z.bought # 0 => open = 0 /\ sig.side = "enter" /\ z.bought = sig.at
LeavesSignal(g, z, i) ==
  \/ g = NoSignal
  \/ g = [side |-> "exit", at |-> i] /\ z.open # 0
  \/ g = [side |-> "enter", at |-> i] /\ z.open = 0

LEMMA StateFacts ==
  ASSUME NEW u \in Nat, NEW o \in 0 .. MaxCandle
  PROVE  LET x == State(u, o)
         IN  /\ x \in SimRow /\ x.usdt = u /\ x.open = o
             /\ x.paid = 0 /\ x.bought = 0 /\ x.sold = 0 /\ x.got = 0
BY NumbersAssumption DEF State, SimRow

LEMMA BuyFacts ==
  ASSUME NEW x \in SimRow, NEW at \in 0 .. MaxCandle, NEW p \in Prices, p <= x.usdt
  PROVE  /\ Buy(x, at, p) \in SimRow
         /\ Buy(x, at, p).open = at /\ Buy(x, at, p).bought = at /\ Buy(x, at, p).sold = x.sold
<1>1. p \in Nat /\ x.usdt \in Nat /\ x.usdt - p \in Nat
  BY PricesAssumption DEF SimRow
<1> QED
  BY <1>1 DEF Buy, SimRow

LEMMA SellFacts ==
  ASSUME NEW x \in SimRow, NEW p \in Prices
  PROVE  /\ Sell(x, p) \in SimRow
         /\ Sell(x, p).open = 0 /\ Sell(x, p).sold = x.open /\ Sell(x, p).bought = x.bought
<1>1. p \in Nat /\ x.usdt \in Nat /\ x.usdt + p \in Nat
  BY PricesAssumption DEF SimRow
<1>2. 0 \in 0 .. MaxCandle
  BY NumbersAssumption
<1> QED
  BY <1>1, <1>2 DEF Sell, SimRow

LEMMA AtOpenFacts ==
  ASSUME NEW u \in Nat, NEW o \in 0 .. MaxCandle, NEW sig \in SignalSet, NEW allow \in BOOLEAN,
         NEW y \in AtOpen(State(u, o), sig, allow)
  PROVE  y \in SimRow /\ Fills(y, o, sig)
<1> DEFINE x == State(u, o)
<1>1. /\ x \in SimRow /\ x.usdt = u /\ x.open = o
      /\ x.paid = 0 /\ x.bought = 0 /\ x.sold = 0 /\ x.got = 0
  BY StateFacts
<1>2. y \in AtOpen(x, sig, allow)
  OBVIOUS
<1>3. sig.at \in 0 .. MaxCandle
  BY DEF SignalSet
<1> HIDE DEF x
<1>4. CASE y = x
  BY <1>1, <1>4 DEF Fills
<1>5. ASSUME NEW p \in Prices, p <= x.usdt, y = Buy(x, sig.at, p), sig.side = "enter", o = 0
      PROVE  y \in SimRow /\ Fills(y, o, sig)
  <2>1. y \in SimRow /\ y.open = sig.at /\ y.bought = sig.at /\ y.sold = 0
    BY <1>1, <1>3, <1>5, BuyFacts
  <2> QED
    BY <1>5, <2>1 DEF Fills
<1>6. ASSUME NEW p \in Prices, y = Sell(x, p), o # 0
      PROVE  y \in SimRow /\ Fills(y, o, sig)
  <2>1. y \in SimRow /\ y.open = 0 /\ y.sold = o /\ y.bought = 0
    BY <1>1, <1>6, SellFacts
  <2> QED
    BY <1>6, <2>1 DEF Fills
<1>7. \/ y = x
      \/ sig.side = "enter" /\ o = 0 /\ \E p \in Prices : p <= x.usdt /\ y = Buy(x, sig.at, p)
      \/ o # 0 /\ \E p \in Prices : y = Sell(x, p)
  BY <1>1, <1>2 DEF AtOpen
<1> QED
  BY <1>4, <1>5, <1>6, <1>7

LEMMA InsideFacts ==
  ASSUME NEW y \in SimRow, NEW o \in 0 .. MaxCandle, NEW sig \in SignalSet, Fills(y, o, sig),
         NEW z \in Inside(y)
  PROVE  z \in SimRow /\ Fills(z, o, sig)
<1>1. CASE z = y
  BY <1>1
<1>2. ASSUME NEW p \in Prices, z = Sell(y, p), y.open # 0
      PROVE  z \in SimRow /\ Fills(z, o, sig)
  <2>1. z \in SimRow /\ z.open = 0 /\ z.sold = y.open /\ z.bought = y.bought
    BY <1>2, SellFacts
  <2> QED
    BY <1>2, <2>1 DEF Fills
<1> QED
  BY <1>1, <1>2 DEF Inside

(* on_candle for the state and the signal that were read.                  *)
LEMMA CandleFacts ==
  ASSUME NEW u \in Nat, NEW o \in 0 .. MaxCandle, NEW sig \in SignalSet, NEW allow \in BOOLEAN,
         NEW i \in Candles, NEW end \in OnCandle(State(u, o), sig, i, allow)
  PROVE  /\ end.state \in SimRow /\ end.signal \in SignalSet
         /\ Fills(end.state, o, sig) /\ LeavesSignal(end.signal, end.state, i)
<1>1. PICK y \in AtOpen(State(u, o), sig, allow) : \E z \in Inside(y) :
             \E g \in Left(z, i, allow) : end = [state |-> z, signal |-> g]
  BY DEF OnCandle
<1>2. PICK z \in Inside(y) : \E g \in Left(z, i, allow) : end = [state |-> z, signal |-> g]
  BY <1>1
<1>3. PICK g \in Left(z, i, allow) : end = [state |-> z, signal |-> g]
  BY <1>2
<1>4. z \in SimRow /\ Fills(z, o, sig)
  BY AtOpenFacts, InsideFacts
<1>5. LeavesSignal(g, z, i)
  BY DEF Left, LeavesSignal
<1>6. g \in SignalSet
  BY <1>5, NumbersAssumption DEF LeavesSignal, SignalSet, NoSignal, Candles
<1> QED
  BY <1>3, <1>4, <1>5, <1>6

-----------------------------------------------------------------------------
LEMMA OpenTradeFacts ==
  /\ OpenTrades \subseteq Candles
  /\ OpenTrades = {} => Session!OpenTrade = 0
  /\ OpenTrades # {} => Session!OpenTrade \in OpenTrades
  /\ Session!OpenTrade \in 0 .. MaxCandle
  /\ Session!OpenTrade = 0 => OpenTrades = {}
<1>1. OpenTrades \subseteq Candles /\ OpenTrades = Session!OpenTrades
  BY DEF OpenTrades, Session!OpenTrades
<1>2. OpenTrades # {} => Session!OpenTrade \in OpenTrades
  BY <1>1 DEF Session!OpenTrade
<1>3. OpenTrades = {} => Session!OpenTrade = 0
  BY <1>1 DEF Session!OpenTrade
<1>4. 0 \in 0 .. MaxCandle /\ \A i \in Candles : i \in 0 .. MaxCandle /\ i # 0
  BY NumbersAssumption DEF Candles
<1>5. CASE OpenTrades = {}
  BY <1>1, <1>3, <1>4, <1>5
<1>6. CASE OpenTrades # {}
  <2>1. Session!OpenTrade \in Candles
    BY <1>1, <1>2, <1>6
  <2> QED
    BY <1>1, <1>2, <1>4, <1>6, <2>1
<1> QED
  BY <1>5, <1>6

LEMMA RowTyped == RowTypes => Row \in RowSet
BY OpenTradeFacts DEF RowTypes, Row, RowSet

LEMMA RestTyped ==
  /\ NoRow \in RowSet /\ NoTick \in TickRow /\ NoTick.pc = "idle" /\ NoTick.todo = {}
  /\ NoRequest \in RequestRow /\ NoTrade \in TradeRow /\ NoSignal \in SignalSet
<1>1. NoSignal \in SignalSet
  BY NumbersAssumption DEF NoSignal, SignalSet
<1>2. NoRow \in RowSet
  BY <1>1, NumbersAssumption DEF NoRow, RowSet
<1>3. NoTick \in TickRow /\ NoTick.pc = "idle" /\ NoTick.todo = {}
  BY <1>2, NumbersAssumption DEF NoTick, TickRow
<1>4. NoRequest \in RequestRow
  BY <1>2, NumbersAssumption DEF NoRequest, RequestRow
<1>5. NoTrade \in TradeRow
  BY NumbersAssumption DEF NoTrade, Session!NoTrade, TradeRow
<1> QED
  BY <1>1, <1>2, <1>3, <1>4, <1>5

(* The rows of the trades after the fills of a candle.                     *)
LEMMA BookedFacts ==
  ASSUME NEW rows \in [Candles -> TradeRow], NEW z \in SimRow, NEW i \in Candles
  PROVE  LET new == Session!Booked(rows, z, i)
         IN  /\ new \in [Candles -> TradeRow]
             /\ \A j \in Candles :
                  /\ j \notin {z.bought, z.sold} => new[j] = rows[j]
                  /\ j = z.bought => new[j].entry = i
                  /\ j # z.bought => new[j].entry = rows[j].entry
                  /\ j = z.sold => new[j].state = "closed"
                  /\ j = z.bought /\ j # z.sold => new[j].state = "open"
<1> DEFINE b == [state |-> "open", entry |-> i, paid |-> z.paid, got |-> 0]
           row(j) == IF j = z.bought THEN b ELSE rows[j]
           sale(j) == [row(j) EXCEPT !.state = "closed", !.got = z.got]
<1>1. b \in TradeRow /\ b.state = "open" /\ b.entry = i
  BY NumbersAssumption DEF TradeRow, SimRow, Candles
<1>2. z.got \in Nat
  BY DEF SimRow
<1> HIDE DEF b
<1>3. ASSUME NEW r \in TradeRow
      PROVE  /\ [r EXCEPT !.state = "closed", !.got = z.got] \in TradeRow
             /\ [r EXCEPT !.state = "closed", !.got = z.got].state = "closed"
             /\ [r EXCEPT !.state = "closed", !.got = z.got].entry = r.entry
  BY <1>2 DEF TradeRow
<1>4. \A j \in Candles : row(j) \in TradeRow
  BY <1>1
<1>5. ASSUME NEW j \in Candles
      PROVE  sale(j) \in TradeRow /\ sale(j).state = "closed" /\ sale(j).entry = row(j).entry
  <2> DEFINE r == row(j)
  <2>1. r \in TradeRow
    BY <1>4
  <2>2. sale(j) = [r EXCEPT !.state = "closed", !.got = z.got]
    OBVIOUS
  <2> HIDE DEF r, sale
  <2>3. sale(j) \in TradeRow /\ sale(j).state = "closed" /\ sale(j).entry = r.entry
    BY <1>3, <2>1, <2>2
  <2> QED
    BY <2>3 DEF r
<1>6. Session!Booked(rows, z, i) = [j \in Candles |-> IF j = z.sold THEN sale(j) ELSE row(j)]
  BY DEF Session!Booked, b
<1>7. \A j \in Candles : row(j) = IF j = z.bought THEN b ELSE rows[j]
  OBVIOUS
<1> HIDE DEF row, sale
<1> QED
  BY <1>1, <1>4, <1>5, <1>6, <1>7

-----------------------------------------------------------------------------
(* The types.                                                              *)
LEMMA InitTypes == Init => Types
<1> SUFFICES ASSUME Init PROVE Types
  OBVIOUS
<1>1. RowTypes
  BY RestTyped, NumbersAssumption DEF Init, RowTypes
<1>2. WorldTypes
  BY NumbersAssumption DEF Init, WorldTypes
<1>3. TickerTypes /\ request \in RequestRow
  BY RestTyped DEF Init, TickerTypes
<1> QED
  BY <1>1, <1>2, <1>3 DEF Types

LEMMA TickerStep ==
  ASSUME TickerTypes, NEW t \in Tickers, NEW v \in TickRow, v.pc = "idle" <=> v.todo = {},
         v.todo \subseteq stored', stored' = stored, ticker' = [ticker EXCEPT ![t] = v]
  PROVE  TickerTypes' /\ ticker'[t] = v /\ \A s \in Tickers \ {t} : ticker'[s] = ticker[s]
BY DEF TickerTypes

LEMMA LoadFacts ==
  ASSUME Types, NEW t \in Tickers, Load(t)
  PROVE  /\ TickerTypes' /\ \A s \in Tickers \ {t} : ticker'[s] = ticker[s]
         /\ ticker'[t].pc = "loaded" /\ ticker'[t].todo = {i \in stored : i > last}
<1> DEFINE new == {i \in stored : i > last}
           v == [NoTick EXCEPT !.pc = "loaded", !.todo = new, !.at = now]
<1>1. new \in SUBSET Candles /\ new # {} /\ new \subseteq stored /\ now \in 0 .. MaxCandle
  BY NumbersAssumption DEF Load, Types, WorldTypes, Candles
<1>2. ticker' = [ticker EXCEPT ![t] = v] /\ stored' = stored
  BY DEF Load, worldVars
<1> HIDE DEF new
<1>3. v \in TickRow /\ v.pc = "loaded" /\ v.todo = new
  BY <1>1, RestTyped DEF TickRow
<1> HIDE DEF v
<1>4. TickerTypes' /\ ticker'[t] = v /\ \A s \in Tickers \ {t} : ticker'[s] = ticker[s]
  BY <1>1, <1>2, <1>3, TickerStep DEF Types
<1> QED
  BY <1>3, <1>4 DEF new

LEMMA ReadFacts ==
  ASSUME Types, NEW t \in Tickers, ReadRows(t)
  PROVE  /\ TickerTypes' /\ \A s \in Tickers \ {t} : ticker'[s] = ticker[s]
         /\ ticker'[t].pc = "apply" /\ ticker'[t].todo = ticker[t].todo /\ ticker'[t].row = Row
<1> DEFINE v == [ticker[t] EXCEPT !.pc = "apply", !.row = Row]
<1>1. ticker[t] \in TickRow /\ Row \in RowSet /\ stored' = stored
  BY RowTyped DEF Types, TickerTypes, ReadRows, worldVars
<1>2. v \in TickRow /\ v.pc = "apply" /\ v.todo = ticker[t].todo /\ v.row = Row
  BY <1>1 DEF TickRow
<1>3. ticker' = [ticker EXCEPT ![t] = v]
  BY DEF ReadRows
<1>4. ticker[t].todo # {} /\ ticker[t].todo \subseteq stored
  BY DEF ReadRows, Types, TickerTypes
<1> HIDE DEF v
<1>5. TickerTypes' /\ ticker'[t] = v /\ \A s \in Tickers \ {t} : ticker'[s] = ticker[s]
  BY <1>1, <1>2, <1>3, <1>4, TickerStep DEF Types
<1> QED
  BY <1>2, <1>5

LEMMA NextCandle ==
  ASSUME Types, NEW t \in Tickers, ticker[t].pc = "apply"
  PROVE  /\ Min(ticker[t].todo) \in ticker[t].todo
         /\ \A k \in ticker[t].todo : Min(ticker[t].todo) <= k
         /\ ticker[t].todo \subseteq Candles /\ ticker[t].todo \subseteq stored
         /\ ticker[t] \in TickRow /\ ticker[t].row \in RowSet
<1>1. ticker[t] \in TickRow
  BY DEF Types, TickerTypes
<1>2. /\ ticker[t].todo \subseteq Candles /\ ticker[t].todo # {} /\ ticker[t].todo \subseteq stored
      /\ ticker[t].row \in RowSet
  BY <1>1 DEF Types, TickerTypes, TickRow
<1>3. ticker[t].todo \subseteq Nat
  BY <1>2, NumbersAssumption DEF Candles
<1> QED
  BY <1>1, <1>2, <1>3, MinIsLeast

LEMMA AdvanceFacts ==
  ASSUME Types, NEW t \in Tickers, ticker[t].pc = "apply", Advance(t), stored' = stored
  PROVE  /\ TickerTypes' /\ \A s \in Tickers \ {t} : ticker'[s] = ticker[s]
         /\ ticker'[t].pc \in {"idle", "run"}
         /\ ticker'[t].todo = ticker[t].todo \ {Min(ticker[t].todo)}
<1> DEFINE left == ticker[t].todo \ {Min(ticker[t].todo)}
           w == [ticker[t] EXCEPT !.pc = "run", !.todo = left, !.row = NoRow]
           v == IF left = {} THEN NoTick ELSE w
<1>1. ticker[t] \in TickRow /\ left \subseteq Candles /\ left \subseteq stored
  BY NextCandle
<1>2. ticker' = [ticker EXCEPT ![t] = v]
  BY DEF Advance
<1> HIDE DEF left
<1>3. w \in TickRow /\ w.pc = "run" /\ w.todo = left
  BY <1>1, RestTyped DEF TickRow
<1> HIDE DEF w
<1>4. v \in TickRow /\ v.pc \in {"idle", "run"} /\ v.todo = left /\ (v.pc = "idle" <=> left = {})
  BY <1>3, RestTyped
<1> HIDE DEF v
<1>5. TickerTypes' /\ ticker'[t] = v /\ \A s \in Tickers \ {t} : ticker'[s] = ticker[s]
  BY <1>1, <1>2, <1>4, TickerStep DEF Types
<1> QED
  BY <1>4, <1>5 DEF left

LEMMA IdleFacts ==
  ASSUME Types, NEW t \in Tickers, ticker' = [ticker EXCEPT ![t] = NoTick], stored' = stored
  PROVE  /\ TickerTypes' /\ \A s \in Tickers \ {t} : ticker'[s] = ticker[s]
         /\ ticker'[t].pc = "idle" /\ ticker'[t].todo = {}
<1>1. {} \subseteq stored'
  OBVIOUS
<1> QED
  BY <1>1, RestTyped, TickerStep DEF Types

LEMMA ApplyFacts ==
  ASSUME Types, NEW t \in Tickers, ApplyCandle(t)
  PROVE  LET r == ticker[t].row
             i == Min(ticker[t].todo)
         IN  /\ i \in Candles /\ i \in stored /\ r.last < i /\ UNCHANGED <<request, worldVars>>
             /\ \E allow \in BOOLEAN : \E end \in OnCandle(State(r.usdt, r.open), r.signal, i, allow) :
                  /\ end.state \in SimRow /\ end.signal \in SignalSet
                  /\ Fills(end.state, r.open, r.signal) /\ LeavesSignal(end.signal, end.state, i)
                  /\ Commits(i, end.state) /\ Write(t, r, i, end.state, end.signal)
<1> DEFINE r == ticker[t].row
           i == Min(ticker[t].todo)
<1>1. ticker[t].pc = "apply" /\ r.last < i /\ UNCHANGED <<request, worldVars>>
  BY DEF ApplyCandle
<1>2. i \in Candles /\ i \in stored /\ r \in RowSet
  BY <1>1, NextCandle
<1>3. r.usdt \in Nat /\ r.open \in 0 .. MaxCandle /\ r.signal \in SignalSet
  BY <1>2 DEF RowSet
<1>4. PICK stale \in Stale(i, ticker[t].at) :
        \E end \in OnCandle(State(r.usdt, r.open), r.signal, i, r.status = "running" /\ ~stale) :
          Commits(i, end.state) /\ Write(t, r, i, end.state, end.signal)
  BY DEF ApplyCandle
<1> DEFINE allow == r.status = "running" /\ ~stale
<1>5. allow \in BOOLEAN
  OBVIOUS
<1>6. PICK end \in OnCandle(State(r.usdt, r.open), r.signal, i, allow) :
        Commits(i, end.state) /\ Write(t, r, i, end.state, end.signal)
  BY <1>4
<1> HIDE DEF r, i, allow
<1>7. /\ end.state \in SimRow /\ end.signal \in SignalSet
      /\ Fills(end.state, r.open, r.signal) /\ LeavesSignal(end.signal, end.state, i)
  BY <1>2, <1>3, <1>5, <1>6, CandleFacts
<1>8. \E b \in BOOLEAN : \E e \in OnCandle(State(r.usdt, r.open), r.signal, i, b) :
                  /\ e.state \in SimRow /\ e.signal \in SignalSet
                  /\ Fills(e.state, r.open, r.signal) /\ LeavesSignal(e.signal, e.state, i)
                  /\ Commits(i, e.state) /\ Write(t, r, i, e.state, e.signal)
  BY <1>5, <1>6, <1>7
<1> QED
  BY <1>1, <1>2, <1>8 DEF r, i

LEMMA WriteTypes ==
  ASSUME Types, NEW t \in Tickers, NEW r \in RowSet, NEW i \in Candles, NEW z \in SimRow,
         NEW g \in SignalSet, Write(t, r, i, z, g)
  PROVE  RowTypes'
<1>1. z.usdt \in Nat /\ usdt' \in Nat
  BY DEF Write, Put, SimRow, Types, RowTypes
<1>2. base' \in {0, 1} /\ signal' \in SignalSet
  BY DEF Write, Put, Types, RowTypes
<1>3. trades' \in [Candles -> TradeRow]
  BY BookedFacts DEF Write, Types, RowTypes
<1>4. last' \in 0 .. MaxCandle /\ status' \in {"running", "paused", "halted", "stopped"}
  BY NumbersAssumption DEF Write, Types, RowTypes, Candles
<1> QED
  BY <1>1, <1>2, <1>3, <1>4 DEF RowTypes

LEMMA RequestTypes ==
  ASSUME Types, Serve
  PROVE  RowTypes' /\ request' \in RequestRow /\ snaps' \subseteq snaps
         /\ UNCHANGED <<ticker, worldVars>>
<1> DEFINE r == request.row
<1>1. r \in RowSet
  BY DEF Types, RequestRow
<1>2. r.open \in 0 .. MaxCandle /\ r.usdt \in Nat
  BY <1>1 DEF RowSet
<1>3. Capital \in Nat /\ NoSignal \in SignalSet /\ NoRequest \in RequestRow /\ now \in 0 .. MaxCandle
  BY RestTyped, NumbersAssumption DEF Types, WorldTypes
<1>4. CASE PauseResume
  BY <1>3, <1>4 DEF PauseResume, SetStatus, Put, Types, RowTypes
<1>5. CASE Stop
  <2>1. /\ request' \in RequestRow /\ UNCHANGED <<last, snaps, ticker, worldVars>>
        /\ signal' \in SignalSet /\ status' \in {"running", "paused", "halted", "stopped"}
    BY <1>3, <1>5 DEF Stop, SetStatus, Put, Types, RowTypes
  <2>2. CASE r.open = 0 \/ ~Priced(r)
    BY <1>5, <2>1, <2>2 DEF Stop, Types, RowTypes
  <2>3. CASE r.open # 0 /\ Priced(r)
    <3>1. PICK p \in Prices :
             /\ usdt' = Put(r.usdt, r.usdt + p, usdt)
             /\ base' = Put(r.base, 0, base)
             /\ trades' = [trades EXCEPT ![r.open].state = "closed", ![r.open].got = p]
      BY <1>5, <2>3 DEF Stop
    <3>2. p \in Nat
      BY PricesAssumption
    <3>3. usdt' \in Nat /\ base' \in {0, 1}
      BY <1>2, <3>1, <3>2 DEF Put, Types, RowTypes
    <3>4. trades' \in [Candles -> TradeRow]
      <4> DEFINE o == r.open
                 w == [trades[o] EXCEPT !.state = "closed", !.got = p]
      <4>1. o \in Candles /\ trades \in [Candles -> TradeRow]
        BY <1>2, <2>3, NumbersAssumption DEF Candles, Types, RowTypes
      <4>2. w \in TradeRow
        BY <3>2, <4>1 DEF TradeRow
      <4>3. trades' = [trades EXCEPT ![o] = w]
        BY <3>1, <4>1
      <4> QED
        BY <4>1, <4>2, <4>3
    <3> QED
      BY <2>1, <3>3, <3>4 DEF Types, RowTypes
  <2> QED
    BY <2>2, <2>3
<1>6. CASE Reset
  <2>1. trades' \in [Candles -> TradeRow]
    BY <1>6, RestTyped DEF Reset, Types, RowTypes
  <2> QED
    BY <1>3, <1>6, <2>1 DEF Reset, SetStatus, Put, Types, RowTypes
<1> QED
  BY <1>4, <1>5, <1>6 DEF Serve

LEMMA ApplyTypes ==
  ASSUME Types, NEW t \in Tickers, ApplyCandle(t)
  PROVE  Types'
<1> DEFINE r == ticker[t].row
           i == Min(ticker[t].todo)
<1>1. i \in Candles /\ i \in stored /\ UNCHANGED <<request, worldVars>>
  BY ApplyFacts
<1>2. PICK allow \in BOOLEAN :
        \E end \in OnCandle(State(r.usdt, r.open), r.signal, i, allow) :
          end.state \in SimRow /\ end.signal \in SignalSet /\ Write(t, r, i, end.state, end.signal)
  BY ApplyFacts
<1>3. PICK end \in OnCandle(State(r.usdt, r.open), r.signal, i, allow) :
          end.state \in SimRow /\ end.signal \in SignalSet /\ Write(t, r, i, end.state, end.signal)
  BY <1>2
<1>4. ticker[t].pc = "apply" /\ r \in RowSet
  BY NextCandle DEF ApplyCandle
<1> HIDE DEF r, i
<1>5. RowTypes'
  BY <1>1, <1>3, <1>4, WriteTypes
<1>6. TickerTypes'
  BY <1>1, <1>3, <1>4, AdvanceFacts DEF Write, worldVars
<1>7. WorldTypes' /\ request' \in RequestRow
  BY <1>1, <1>3 DEF Write, Types, WorldTypes, worldVars
<1> QED
  BY <1>5, <1>6, <1>7 DEF Types

LEMMA NextTypes == Types /\ [Next]_vars => Types'
<1> SUFFICES ASSUME Types, [Next]_vars PROVE Types'
  OBVIOUS
<1>1. ASSUME UNCHANGED <<rowVars, request, worldVars>>, TickerTypes' PROVE Types'
  BY <1>1 DEF Types, RowTypes, WorldTypes, rowVars, worldVars
<1>2. ASSUME NEW t \in Tickers, Load(t) PROVE Types'
  BY <1>1, <1>2, LoadFacts DEF Load
<1>3. ASSUME NEW t \in Tickers, StrategyFails(t) PROVE Types'
  <2>1. TickerTypes'
    BY <1>3, IdleFacts DEF StrategyFails, worldVars
  <2> QED
    BY <1>3, <2>1 DEF StrategyFails, Types, RowTypes, WorldTypes, worldVars
<1>4. ASSUME NEW t \in Tickers, ReadRows(t) PROVE Types'
  BY <1>1, <1>4, ReadFacts DEF ReadRows
<1>5. ASSUME NEW t \in Tickers, Skip(t) PROVE Types'
  BY <1>1, <1>5, AdvanceFacts DEF Skip, worldVars
<1>6. ASSUME NEW t \in Tickers, ApplyUndone(t) PROVE Types'
  BY <1>1, <1>6, IdleFacts DEF ApplyUndone, worldVars
<1>7. ASSUME NEW t \in Tickers, Crash(t) PROVE Types'
  <2>1. TickerTypes'
    BY <1>7, IdleFacts DEF Crash
  <2>2. crashes' \in 0 .. MaxCrashes
    BY <1>7, NumbersAssumption DEF Crash, Types, WorldTypes
  <2> QED
    BY <1>7, <2>1, <2>2 DEF Crash, Types, RowTypes, WorldTypes, rowVars
<1>8. ASSUME NEW act \in Actions, Ask(act) PROVE Types'
  <2>1. Row \in RowSet
    BY RowTyped DEF Types
  <2>2. {i \in Candles : trades[i] # NoTrade} \cup snaps \in SUBSET Candles
    <3>1. ASSUME NEW i \in snaps PROVE i \in Candles
      BY NumbersAssumption DEF Types, WorldTypes, Candles
    <3> QED
      BY <3>1
  <2>3. request' \in RequestRow
    BY <1>8, <2>1, <2>2 DEF Ask, RequestRow
  <2>4. asked' \in 0 .. MaxAsked
    BY <1>8, NumbersAssumption DEF Ask, Types, WorldTypes
  <2> QED
    BY <1>8, <2>3, <2>4 DEF Ask, Types, RowTypes, WorldTypes, TickerTypes, rowVars
<1>9. ASSUME Serve PROVE Types'
  BY <1>9, RequestTypes DEF Types, WorldTypes, TickerTypes, worldVars
<1>10. ASSUME CandleCloses PROVE Types'
  <2>1. now' = now + 1 /\ now < MaxCandle /\ now \in 0 .. MaxCandle /\ stored' = stored
    BY <1>10 DEF CandleCloses, Types, WorldTypes
  <2>2. WorldTypes'
    BY <1>10, <2>1, NumbersAssumption DEF CandleCloses, Types, WorldTypes, rowVars
  <2> QED
    BY <1>10, <2>2 DEF CandleCloses, Types, RowTypes, TickerTypes, rowVars
<1>11. ASSUME Sync PROVE Types'
  <2>1. stored \subseteq stored' /\ stored' \subseteq 1 .. now /\ UNCHANGED <<rowVars, ticker, request, now, asked, crashes>>
    BY <1>11 DEF Sync, Types, WorldTypes
  <2> QED
    BY <2>1 DEF Types, RowTypes, WorldTypes, TickerTypes, rowVars
<1>12. ASSUME UNCHANGED vars PROVE Types'
  BY <1>12 DEF vars, rowVars, worldVars, Types, RowTypes, WorldTypes, TickerTypes
<1> QED
  BY <1>2, <1>3, <1>4, <1>5, ApplyTypes, <1>6, <1>7, <1>8, <1>9, <1>10, <1>11, <1>12
  DEF Next, Tick

LEMMA TypesImply == Types => TypeOK
<1> SUFFICES ASSUME Types PROVE TypeOK
  OBVIOUS
<1>1. Row \in RowSet
  BY RowTyped DEF Types
<1>2. ASSUME NEW i \in Candles PROVE trades[i].state \in {"none", "open", "closed"}
  BY DEF Types, RowTypes, TradeRow
<1>3. ASSUME NEW t \in Tickers
      PROVE  ticker[t].pc \in {"idle", "loaded", "run", "apply"} /\ ticker[t].row \in RowSet
  BY DEF Types, TickerTypes, TickRow
<1>4. request.act \in Actions \cup {"none"}
  BY DEF Types, RequestRow
<1> QED
  BY <1>1, <1>2, <1>3, <1>4 DEF TypeOK, Types, WorldTypes, TickerTypes

(* The rows of a session and the memory of its workers have their types    *)
(* whatever the owner asks for and however many workers there are.         *)
THEOREM TypeCorrect == Spec => []TypeOK
BY InitTypes, NextTypes, TypesImply, PTL DEF Spec

-----------------------------------------------------------------------------
(* One open position and entries at the next candle, while nothing resets. *)
LEMMA AgainstBefore ==
  ASSUME SessionIInv
  PROVE  /\ last \in Nat /\ stored \subseteq Nat \ {0} /\ stored \subseteq Candles /\ Types
         /\ last \in {0} \cup stored
<1>1. last \in Nat /\ Types /\ last \in {0} \cup stored
  BY NumbersAssumption DEF SessionIInv, Types, RowTypes, Applied
<1>2. ASSUME NEW j \in stored PROVE j \in Nat \ {0} /\ j \in Candles
  BY NumbersAssumption DEF SessionIInv, Types, WorldTypes, Candles
<1> QED
  BY <1>1, <1>2

LEMMA InitSession == Init => SessionIInv
<1> SUFFICES ASSUME Init PROVE SessionIInv
  OBVIOUS
<1>1. \A i \in Candles : trades[i] = NoTrade /\ trades[i].state = "none"
  BY DEF Init, NoTrade, Session!NoTrade
<1>2. OpenTrades = {}
  BY <1>1 DEF OpenTrades, Session!OpenTrades
<1>3. TicksInv
  BY RestTyped DEF Init, TicksInv, TickInv, NoneLeftOut
<1>4. RequestInv
  BY DEF Init, RequestInv, NoRequest, NoRow
<1>5. Applied /\ SignalOfLast
  BY DEF Init, Applied, SignalOfLast, NoSignal
<1>6. AtMostOne /\ TradesAreOld /\ EntryNext
  BY <1>1, <1>2 DEF AtMostOne, TradesAreOld, EntryNext
<1> QED
  BY InitTypes, <1>3, <1>4, <1>5, <1>6 DEF SessionIInv

(* The rows that the invariant speaks of, but for the status, and the      *)
(* store stay.                                                             *)
Same == UNCHANGED <<last, signal, usdt, base, trades, snaps, stored>>

LEMMA SameRows ==
  ASSUME SessionIInv, Types', Same, TicksInv', RequestInv'
  PROVE  SessionIInv'
<1>1. OpenTrades' = OpenTrades
  BY DEF Same, OpenTrades, Session!OpenTrades
<1>2. Applied' /\ SignalOfLast' /\ TradesAreOld' /\ EntryNext'
  BY DEF SessionIInv, Same, Applied, SignalOfLast, TradesAreOld, EntryNext
<1>3. AtMostOne'
  BY <1>1 DEF SessionIInv, AtMostOne
<1> QED
  BY <1>2, <1>3 DEF SessionIInv

LEMMA SameTick ==
  ASSUME Same, NEW s \in Tickers, TickInv(ticker[s]), ticker'[s] = ticker[s]
  PROVE  TickInv(ticker[s])'
<1>1. OpenTrades' = OpenTrades /\ Session!OpenTrade' = Session!OpenTrade
  BY DEF Same, OpenTrades, Session!OpenTrades, Session!OpenTrade
<1>2. [Row EXCEPT !.status = ticker[s].row.status]' = [Row EXCEPT !.status = ticker[s].row.status]
  BY <1>1 DEF Same, Row
<1> QED
  BY <1>1, <1>2 DEF Same, TickInv, NoneLeftOut, ReadStill

(* A step of a worker that leaves the rows alone.                          *)
LEMMA TickStep ==
  ASSUME SessionIInv, Types', Same, NEW t \in Tickers, TickInv(ticker[t])', UNCHANGED request,
         \A s \in Tickers \ {t} : ticker'[s] = ticker[s]
  PROVE  SessionIInv'
<1>1. ASSUME NEW s \in Tickers PROVE TickInv(ticker[s])'
  <2>1. CASE s = t
    BY <2>1
  <2>2. CASE s # t
    <3>1. TickInv(ticker[s]) /\ ticker'[s] = ticker[s]
      BY <2>2 DEF SessionIInv, TicksInv
    <3> QED
      BY <3>1, SameTick
  <2> QED
    BY <2>1, <2>2
<1>2. TicksInv'
  BY <1>1 DEF TicksInv
<1>3. RequestInv'
  BY DEF SessionIInv, RequestInv, Same
<1> QED
  BY <1>2, <1>3, SameRows

LEMMA LoadSession ==
  ASSUME SessionIInv, Types', NEW t \in Tickers, Load(t)
  PROVE  SessionIInv'
<1>1. Same /\ UNCHANGED request /\ Types
  BY DEF Load, Same, rowVars, worldVars, SessionIInv
<1>2. /\ \A s \in Tickers \ {t} : ticker'[s] = ticker[s]
      /\ ticker'[t].pc = "loaded" /\ ticker'[t].todo = {i \in stored : i > last}
  BY <1>1, LoadFacts
<1>3. TickInv(ticker[t])'
  BY <1>1, <1>2, AgainstBefore DEF Same, TickInv, NoneLeftOut
<1> QED
  BY <1>1, <1>2, <1>3, TickStep

LEMMA ReadSession ==
  ASSUME SessionIInv, Types', NEW t \in Tickers, ReadRows(t)
  PROVE  SessionIInv'
<1>1. Same /\ UNCHANGED request /\ Types /\ status' = status
  BY DEF ReadRows, Same, rowVars, worldVars, SessionIInv
<1>2. /\ \A s \in Tickers \ {t} : ticker'[s] = ticker[s]
      /\ ticker'[t].pc = "apply" /\ ticker'[t].todo = ticker[t].todo /\ ticker'[t].row = Row
  BY <1>1, ReadFacts
<1>3. OpenTrades' = OpenTrades /\ Row' = Row
  BY <1>1 DEF Same, OpenTrades, Row, Session!OpenTrades, Session!OpenTrade
<1>4. Row.last = last /\ Row.signal = signal /\ Row.open = Session!OpenTrade
  BY DEF Row
<1>5. ReadStill(Row)'
  <2>1. Row.open = 0 => OpenTrades = {}
    BY <1>4, OpenTradeFacts
  <2>2. Row = [Row EXCEPT !.status = Row.status]
    BY DEF Row
  <2> QED
    BY <1>1, <1>3, <1>4, <2>1, <2>2, AgainstBefore DEF Same, ReadStill, SessionIInv, SignalOfLast
<1>6. NoneLeftOut(ticker[t], last)'
  BY <1>1, <1>2 DEF Same, SessionIInv, TicksInv, TickInv, NoneLeftOut
<1>7. TickInv(ticker[t])'
  <2>1. ticker'[t].row = Row' /\ ticker'[t].row.last = last'
    BY <1>1, <1>2, <1>3, <1>4 DEF Same
  <2>2. ReadStill(ticker[t].row)'
    BY <1>5, <2>1 DEF ReadStill
  <2>3. NoneLeftOut(ticker[t], ticker[t].row.last)'
    BY <1>6, <2>1 DEF NoneLeftOut
  <2> QED
    BY <1>6, <2>2, <2>3 DEF TickInv
<1> QED
  BY <1>1, <1>2, <1>7, TickStep

LEMMA SkipSession ==
  ASSUME SessionIInv, Types', NEW t \in Tickers, Skip(t)
  PROVE  SessionIInv'
<1>1. Same /\ UNCHANGED request /\ Types /\ stored' = stored /\ ticker[t].pc = "apply"
  BY DEF Skip, Same, rowVars, worldVars, SessionIInv
<1> DEFINE i == Min(ticker[t].todo)
<1>2. /\ \A s \in Tickers \ {t} : ticker'[s] = ticker[s]
      /\ ticker'[t].pc # "apply" /\ ticker'[t].todo = ticker[t].todo \ {i}
  BY <1>1, AdvanceFacts DEF Skip
<1>3. ticker[t].row.last >= i /\ ticker[t].row.last <= last /\ ticker[t].row.last \in Nat
  <2>1. ticker[t].row \in RowSet
    BY <1>1, NextCandle
  <2>2. ticker[t].row.last \in Nat
    BY <2>1, NumbersAssumption DEF RowSet
  <2>3. ticker[t].row.last <= last
    BY <1>1 DEF SessionIInv, TicksInv, TickInv, ReadStill
  <2> QED
    BY <2>2, <2>3 DEF Skip
<1>4. NoneLeftOut(ticker[t], last)
  BY DEF SessionIInv, TicksInv, TickInv
<1>5. i \in Nat
  BY <1>1, NextCandle, NumbersAssumption DEF Candles
<1> HIDE DEF i
<1>6. TickInv(ticker[t])'
  BY <1>1, <1>2, <1>3, <1>4, <1>5, AgainstBefore DEF Same, TickInv, NoneLeftOut
<1> QED
  BY <1>1, <1>2, <1>6, TickStep

LEMMA IdleSession ==
  ASSUME SessionIInv, Types', NEW t \in Tickers, ticker' = [ticker EXCEPT ![t] = NoTick],
         Same, UNCHANGED request
  PROVE  SessionIInv'
<1>1. \A s \in Tickers \ {t} : ticker'[s] = ticker[s]
  OBVIOUS
<1>2. ticker'[t].pc = "idle" /\ ticker'[t].todo = {}
  BY IdleFacts DEF SessionIInv, Same
<1>3. TickInv(ticker[t])'
  BY <1>2 DEF TickInv, NoneLeftOut
<1> QED
  BY <1>1, <1>3, TickStep

(* A step that leaves the workers and the rows alone.                      *)
LEMMA OtherStep ==
  ASSUME SessionIInv, Types', Same, UNCHANGED ticker, RequestInv'
  PROVE  SessionIInv'
<1>1. ASSUME NEW s \in Tickers PROVE TickInv(ticker[s])'
  BY SameTick DEF SessionIInv, TicksInv
<1>2. TicksInv'
  BY <1>1 DEF TicksInv
<1> QED
  BY <1>2, SameRows

LEMMA AskSession ==
  ASSUME SessionIInv, Types', NEW act \in Actions, Ask(act)
  PROVE  SessionIInv'
<1>1. Same /\ UNCHANGED ticker
  BY DEF Ask, Same, rowVars
<1>2. request'.row.open = Session!OpenTrade
  BY DEF Ask, Row
<1>3. Session!OpenTrade # 0 => trades[Session!OpenTrade].state = "open"
  BY OpenTradeFacts DEF OpenTrades, Session!OpenTrades
<1>4. NoTrade.state = "none"
  BY DEF NoTrade, Session!NoTrade
<1>5. RequestInv'
  BY <1>1, <1>2, <1>3, <1>4 DEF RequestInv, Same
<1> QED
  BY <1>1, <1>5, OtherStep

LEMMA StopSession ==
  ASSUME SessionIInv, Types', Stop
  PROVE  SessionIInv'
<1> DEFINE r == request.row
<1>1. /\ "stop" \in Actions /\ UNCHANGED <<last, snaps, ticker, stored>>
      /\ request' = NoRequest
  BY DEF Stop, SessionIInv, Types, RequestRow, worldVars
<1>2. signal' \in {signal, NoSignal}
  BY DEF Stop, Put
<1>3. /\ r.open \in 0 .. MaxCandle
      /\ r.open # 0 => trades[r.open] # NoTrade
      /\ trades \in [Candles -> TradeRow]
  BY DEF SessionIInv, RequestInv, Types, RequestRow, RowSet, RowTypes
<1>4. ASSUME NEW j \in Candles
      PROVE  /\ trades'[j].entry = trades[j].entry
             /\ trades'[j].state \in {trades[j].state, "closed"}
             /\ trades'[j] = trades[j] \/ trades[j] # NoTrade
  <2>1. CASE r.open = 0 \/ ~Priced(r)
    BY <2>1 DEF Stop
  <2>2. CASE r.open # 0 /\ Priced(r)
    <3>1. PICK p \in Prices :
            trades' = [trades EXCEPT ![r.open].state = "closed", ![r.open].got = p]
      BY <2>2 DEF Stop
    <3> DEFINE o == r.open
               w == [trades[o] EXCEPT !.state = "closed", !.got = p]
    <3>2. o \in Candles
      BY <1>3, <2>2, NumbersAssumption DEF Candles
    <3>3. trades[o] \in TradeRow /\ w.state = "closed" /\ w.entry = trades[o].entry
      BY <1>3, <3>2 DEF TradeRow
    <3>4. trades' = [trades EXCEPT ![o] = w]
      BY <1>3, <3>1, <3>2
    <3> HIDE DEF w
    <3> QED
      BY <1>3, <2>2, <3>2, <3>3, <3>4
  <2> QED
    BY <2>1, <2>2
<1>5. OpenTrades' \subseteq OpenTrades
  BY <1>4 DEF OpenTrades, Session!OpenTrades
<1>6. ASSUME NEW s \in Tickers PROVE TickInv(ticker[s])'
  <2>1. TickInv(ticker[s])
    BY DEF SessionIInv, TicksInv
  <2>2. NoneLeftOut(ticker[s], last)' /\ (ticker[s].pc = "apply" => NoneLeftOut(ticker[s], ticker[s].row.last)')
    BY <1>1, <2>1 DEF TickInv, NoneLeftOut
  <2>3. ticker[s].pc = "apply" => ReadStill(ticker[s].row)'
    BY <1>1, <1>2, <1>5, <2>1 DEF TickInv, ReadStill
  <2> QED
    BY <1>1, <2>2, <2>3 DEF TickInv
<1>7. TicksInv'
  BY <1>6 DEF TicksInv
<1>8. RequestInv' /\ Applied' /\ SignalOfLast'
  BY <1>1, <1>2 DEF RequestInv, NoRequest, NoRow, Applied, SignalOfLast, NoSignal, SessionIInv
<1>9. AtMostOne'
  BY <1>5 DEF SessionIInv, AtMostOne
<1>10. TradesAreOld' /\ EntryNext'
  <2>1. NoTrade' = NoTrade
    BY DEF NoTrade, Session!NoTrade
  <2> QED
    BY <1>1, <1>4, <2>1 DEF SessionIInv, TradesAreOld, EntryNext
<1> QED
  BY <1>7, <1>8, <1>9, <1>10 DEF SessionIInv

LEMMA SyncSession ==
  ASSUME SessionIInv, Types', Sync
  PROVE  SessionIInv'
<1>1. /\ UNCHANGED <<rowVars, ticker, request>>
      /\ stored \subseteq stored' /\ \A j \in stored' \ stored : \A k \in stored : k < j
      /\ stored' \subseteq Nat \ {0}
  <2>1. \A j \in stored' : j \in Nat \ {0}
    BY NumbersAssumption DEF Types, WorldTypes
  <2> QED
    BY <2>1 DEF Sync
<1>2. Applied'
  <2>1. ASSUME NEW j \in stored' \ stored PROVE ~(j <= last)
    <3>1. last = 0 \/ last < j
      BY <1>1, AgainstBefore
    <3> QED
      BY <1>1, <3>1, AgainstBefore
  <2> QED
    BY <1>1, <2>1 DEF SessionIInv, Applied, rowVars
<1>3. ASSUME NEW s \in Tickers PROVE TickInv(ticker[s])'
  <2>1. TickInv(ticker[s]) /\ ticker[s].todo \subseteq stored
    BY DEF SessionIInv, TicksInv, Types, TickerTypes
  <2>2. ASSUME NEW k \in ticker[s].todo, NEW j \in stored', j < k PROVE j \in stored
    <3>1. k \in stored /\ k \in Nat /\ j \in Nat
      BY <1>1, <2>1, AgainstBefore
    <3>2. ~(k < j)
      BY <2>2, <3>1
    <3> QED
      BY <1>1, <3>1, <3>2
  <2>3. NoneLeftOut(ticker[s], last)' /\ (ticker[s].pc = "apply" => NoneLeftOut(ticker[s], ticker[s].row.last)')
    BY <1>1, <2>1, <2>2 DEF TickInv, NoneLeftOut, rowVars
  <2>4. OpenTrades' = OpenTrades /\ Row' = Row
    BY <1>1 DEF OpenTrades, Row, Session!OpenTrades, Session!OpenTrade, rowVars
  <2>5. ticker[s].pc = "apply" => ReadStill(ticker[s].row)'
    BY <1>1, <2>1, <2>4 DEF TickInv, ReadStill, rowVars
  <2> QED
    BY <1>1, <2>3, <2>5 DEF TickInv
<1>4. TicksInv'
  BY <1>3 DEF TicksInv
<1>5. RequestInv' /\ SignalOfLast' /\ AtMostOne' /\ TradesAreOld'
  BY <1>1 DEF SessionIInv, RequestInv, SignalOfLast, AtMostOne, TradesAreOld, rowVars, OpenTrades,
              Session!OpenTrades
<1>6. EntryNext'
  <2>1. ASSUME NEW i \in Candles, trades[i] # NoTrade, NEW j \in stored', i < j, j < trades[i].entry
        PROVE  FALSE
    <3>1. trades[i].entry \in stored /\ trades[i].entry \in Nat /\ j \in Nat
      BY <1>1, <2>1, AgainstBefore DEF SessionIInv, TradesAreOld
    <3>2. ~(trades[i].entry < j)
      BY <2>1, <3>1
    <3>3. j \in stored
      BY <1>1, <3>1, <3>2
    <3> QED
      BY <2>1, <3>3 DEF SessionIInv, EntryNext
  <2>2. trades' = trades /\ NoTrade' = NoTrade
    BY <1>1 DEF rowVars, NoTrade, Session!NoTrade
  <2> QED
    BY <2>1, <2>2 DEF SessionIInv, EntryNext
<1> QED
  BY <1>2, <1>4, <1>5, <1>6 DEF SessionIInv

(* The one worker whose snapshot is not there yet read the rows that are   *)
(* still there, and its candle is the next one in the store.               *)
LEMMA NextOnce ==
  ASSUME SessionIInv, NEW t \in Tickers, ApplyCandle(t)
  PROVE  LET r == ticker[t].row
             i == Min(ticker[t].todo)
         IN  /\ r \in RowSet /\ r.last = last /\ last < i /\ i \in Candles /\ i \in stored
             /\ ReadStill(r)
             /\ \A j \in stored : j < i => j <= last
<1> DEFINE r == ticker[t].row
           i == Min(ticker[t].todo)
<1>1. ticker[t].pc = "apply" /\ Types
  BY DEF ApplyCandle, SessionIInv
<1>2. r \in RowSet /\ \A k \in ticker[t].todo : i <= k
  BY <1>1, NextCandle
<1>3. i \in Candles /\ i \in stored /\ i \in ticker[t].todo /\ r.last < i /\ i \notin snaps
  BY <1>1, NextCandle, ApplyFacts DEF Commits, NewSnapshot
<1>4. ReadStill(r) /\ NoneLeftOut(ticker[t], r.last) /\ r.last <= last /\ r.last \in Nat /\ i \in Nat
  BY <1>1, <1>2, <1>3, NumbersAssumption
  DEF SessionIInv, TicksInv, TickInv, ReadStill, RowSet, Candles
<1> HIDE DEF i, r
<1>5. ASSUME NEW j \in stored, j < i PROVE j <= r.last
  <2>1. j \notin ticker[t].todo
    BY <1>2, <1>4, <1>5, AgainstBefore
  <2> QED
    BY <1>3, <1>5, <1>4, <2>1 DEF NoneLeftOut
<1>6. ~(i <= last)
  BY <1>3 DEF SessionIInv, Applied
<1>7. last < i
  BY <1>4, <1>6, AgainstBefore
<1>8. last <= r.last
  BY <1>4, <1>5, <1>7, AgainstBefore
<1>9. r.last = last
  BY <1>4, <1>8, AgainstBefore
<1> QED
  BY <1>2, <1>3, <1>4, <1>5, <1>7, <1>9 DEF i, r

LEMMA ApplySession ==
  ASSUME SessionIInv, Types', NEW t \in Tickers, ApplyCandle(t)
  PROVE  SessionIInv'
<1> DEFINE r == ticker[t].row
           i == Min(ticker[t].todo)
<1>1. /\ r \in RowSet /\ r.last = last /\ last < i /\ i \in Candles /\ i \in stored
      /\ ReadStill(r)
      /\ \A j \in stored : j < i => j <= last
  BY NextOnce
<1>2. UNCHANGED <<request, worldVars>> /\ Types /\ ticker[t].pc = "apply"
  BY ApplyFacts DEF SessionIInv, ApplyCandle
<1>3. PICK z \in SimRow : \E g \in SignalSet :
        /\ Fills(z, r.open, r.signal) /\ LeavesSignal(g, z, i)
        /\ Commits(i, z) /\ Write(t, r, i, z, g)
  BY <1>2, ApplyFacts
<1>4. PICK g \in SignalSet :
        /\ Fills(z, r.open, r.signal) /\ LeavesSignal(g, z, i)
        /\ Commits(i, z) /\ Write(t, r, i, z, g)
  BY <1>3
<1>5. stored' = stored /\ Advance(t)
  BY <1>2, <1>4 DEF worldVars, Write
<1>6. /\ \A s \in Tickers \ {t} : ticker'[s] = ticker[s]
      /\ ticker'[t].pc # "apply" /\ ticker'[t].todo = ticker[t].todo \ {i}
  BY <1>2, <1>5, AdvanceFacts
<1>7. i \in Nat /\ last \in Nat /\ stored \subseteq Nat \ {0}
  BY <1>1, AgainstBefore
<1> HIDE DEF r, i
<1>8. last' = i /\ snaps' = snaps \cup {i} /\ signal' = Put(r.signal, g, signal)
  BY <1>4 DEF Write
<1>9. /\ trades' = Session!Booked(trades, z, i) /\ trades \in [Candles -> TradeRow]
      /\ z.bought # 0 => trades[z.bought] = NoTrade
      /\ z.sold # 0 /\ z.sold # z.bought => trades[z.sold] # NoTrade
      /\ z.bought \in 0 .. MaxCandle /\ z.sold \in 0 .. MaxCandle
  BY <1>2, <1>4 DEF Write, Commits, Types, RowTypes, SimRow
<1>10. ASSUME NEW j \in Candles
       PROVE  /\ j \notin {z.bought, z.sold} => trades'[j] = trades[j]
              /\ j = z.bought => trades'[j].entry = i
              /\ j # z.bought => trades'[j].entry = trades[j].entry
              /\ j = z.sold => trades'[j].state = "closed"
  BY <1>1, <1>9, BookedFacts
<1>11. z.bought # 0 => z.bought = last /\ OpenTrades = {}
  BY <1>1, <1>4 DEF Fills, ReadStill
<1>12. NoTrade' = NoTrade /\ NoTrade.state = "none"
  BY DEF NoTrade, Session!NoTrade
<1>13. ASSUME NEW j \in Candles, trades'[j] # NoTrade
       PROVE  \/ (trades[j] # NoTrade /\ trades'[j].entry = trades[j].entry)
              \/ (j = z.bought /\ j = last /\ trades'[j].entry = i)
  <2>1. j # 0
    BY DEF Candles
  <2>2. CASE j = z.bought
    BY <1>10, <1>11, <2>1, <2>2
  <2>3. CASE j # z.bought /\ j = z.sold
    BY <1>9, <1>10, <2>1, <2>3
  <2>4. CASE j \notin {z.bought, z.sold}
    BY <1>10, <1>13, <2>4
  <2> QED
    BY <2>2, <2>3, <2>4
<1>14. TradesAreOld'
  <2>1. ASSUME NEW j \in Candles, trades'[j] # NoTrade
        PROVE  trades'[j].entry \in stored /\ trades'[j].entry > j /\ trades'[j].entry <= i
    <3>1. CASE trades[j] # NoTrade /\ trades'[j].entry = trades[j].entry
      <4>1. trades[j].entry \in stored /\ trades[j].entry > j /\ trades[j].entry <= last
        BY <3>1 DEF TradesAreOld, SessionIInv
      <4> QED
        BY <1>1, <1>7, <3>1, <4>1, trades[j].entry \in Nat
    <3>2. CASE j = z.bought /\ j = last /\ trades'[j].entry = i
      BY <1>1, <1>7, <3>2
    <3> QED
      BY <1>13, <2>1, <3>1, <3>2
  <2> QED
    BY <1>5, <1>8, <1>12, <2>1 DEF TradesAreOld
<1>15. EntryNext'
  <2>1. ASSUME NEW j \in Candles, trades'[j] # NoTrade
        PROVE  trades'[j].entry > j /\ \A k \in stored : ~(j < k /\ k < trades'[j].entry)
    <3>1. CASE trades[j] # NoTrade /\ trades'[j].entry = trades[j].entry
      BY <3>1 DEF EntryNext, SessionIInv
    <3>2. CASE j = z.bought /\ j = last /\ trades'[j].entry = i
      BY <1>1, <1>7, <3>2
    <3> QED
      BY <1>13, <2>1, <3>1, <3>2
  <2> QED
    BY <1>5, <1>12, <2>1 DEF EntryNext
<1>16. AtMostOne'
  <2>1. ASSUME NEW j \in OpenTrades' PROVE j \in Candles /\ (j = z.bought \/ j \in OpenTrades)
    <3>1. j \in Candles /\ trades'[j].state = "open"
      BY DEF OpenTrades, Session!OpenTrades
    <3> QED
      BY <1>10, <3>1 DEF OpenTrades, Session!OpenTrades
  <2> QED
    BY <1>11, <2>1 DEF AtMostOne, SessionIInv, Candles
<1>17. SignalOfLast'
  <2>1. g = NoSignal \/ g.at = i
    BY <1>4 DEF LeavesSignal
  <2>2. \/ signal' = g
        \/ (signal' \in {r.signal, NoSignal} /\ g = r.signal)
    BY <1>1, <1>8 DEF Put, ReadStill
  <2>3. NoSignal.side = "none"
    BY DEF NoSignal
  <2> QED
    BY <1>8, <2>1, <2>2, <2>3 DEF SignalOfLast
<1>18. Applied'
  <2>1. ASSUME NEW j \in stored PROVE j <= i <=> (j <= last \/ j = i)
    BY <1>1, <1>7
  <2> QED
    BY <1>1, <1>5, <1>8, <2>1 DEF SessionIInv, Applied
<1>19. ASSUME NEW s \in Tickers PROVE TickInv(ticker[s])'
  <2>1. TickInv(ticker[s])
    BY DEF SessionIInv, TicksInv
  <2>0. \A j \in stored : j <= last => j <= i
    BY <1>1, <1>7
  <2>2. CASE s = t
    <3>1. ticker'[s].pc # "apply" /\ ticker'[s].todo = ticker[s].todo \ {i}
      BY <1>6, <2>2
    <3>2. NoneLeftOut(ticker[s], last)'
      BY <1>5, <1>7, <1>8, <2>0, <2>1, <3>1 DEF TickInv, NoneLeftOut
    <3> QED
      BY <3>1, <3>2 DEF TickInv
  <2>3. CASE s # t
    <3>1. ticker'[s] = ticker[s]
      BY <1>6, <2>3
    <3>2. NoneLeftOut(ticker[s], last)' /\ (ticker[s].pc = "apply" => NoneLeftOut(ticker[s], ticker[s].row.last)')
      BY <1>5, <1>8, <2>0, <2>1, <3>1 DEF TickInv, NoneLeftOut
    <3>3. ticker[s].pc = "apply" => ticker[s].row.last \in Nat
      BY <1>2, NextCandle, NumbersAssumption DEF RowSet
    <3>4. ticker[s].pc = "apply" => ReadStill(ticker[s].row)'
      BY <1>1, <1>7, <1>8, <2>1, <3>1, <3>3 DEF TickInv, ReadStill
    <3> QED
      BY <3>1, <3>2, <3>4 DEF TickInv
  <2> QED
    BY <2>2, <2>3
<1>20. TicksInv'
  BY <1>19 DEF TicksInv
<1>21. RequestInv'
  <2>1. request.row.open # 0 => request.row.open \in Candles
    BY <1>2, NumbersAssumption DEF Types, RequestRow, RowSet, Candles
  <2>2. ASSUME NEW j \in Candles, trades[j] # NoTrade PROVE trades'[j] # NoTrade
    <3>1. CASE j = z.bought
      BY <1>9, <2>2, <3>1 DEF Candles
    <3>2. CASE j = z.sold
      BY <1>10, <1>12, <3>2
    <3> QED
      BY <1>10, <2>2, <3>1, <3>2
  <2> QED
    BY <1>2, <1>12, <2>1, <2>2 DEF RequestInv, SessionIInv
<1> QED
  BY <1>14, <1>15, <1>16, <1>17, <1>18, <1>20, <1>21 DEF SessionIInv

LEMMA NextSession ==
  ASSUME "reset" \notin Actions
  PROVE  SessionIInv /\ [Next]_vars => SessionIInv'
<1> SUFFICES ASSUME SessionIInv, [Next]_vars PROVE SessionIInv'
  OBVIOUS
<1>1. Types'
  BY NextTypes DEF SessionIInv
<1>2. ASSUME NEW t \in Tickers, Tick(t) PROVE SessionIInv'
  <2>1. ASSUME StrategyFails(t) PROVE SessionIInv'
    BY <1>1, <2>1, IdleSession DEF StrategyFails, Same, worldVars
  <2>2. ASSUME ApplyUndone(t) PROVE SessionIInv'
    BY <1>1, <2>2, IdleSession DEF ApplyUndone, Same, rowVars, worldVars
  <2> QED
    BY <1>1, <1>2, <2>1, <2>2, LoadSession, ReadSession, SkipSession, ApplySession DEF Tick
<1>3. ASSUME NEW t \in Tickers, Crash(t) PROVE SessionIInv'
  BY <1>1, <1>3, IdleSession DEF Crash, Same, rowVars
<1>4. ASSUME NEW act \in Actions, Ask(act) PROVE SessionIInv'
  BY <1>1, <1>4, AskSession
<1>5. ASSUME Serve PROVE SessionIInv'
  <2>1. ~Reset
    BY DEF Reset, SessionIInv, Types, RequestRow
  <2>2. ASSUME PauseResume PROVE SessionIInv'
    <3>1. Same /\ UNCHANGED ticker /\ request' = NoRequest
      BY <2>2 DEF PauseResume, Same, worldVars
    <3>2. RequestInv'
      BY <3>1 DEF RequestInv, NoRequest, NoRow
    <3> QED
      BY <1>1, <3>1, <3>2, OtherStep
  <2> QED
    BY <1>1, <1>5, <2>1, <2>2, StopSession DEF Serve
<1>6. ASSUME CandleCloses \/ UNCHANGED vars PROVE SessionIInv'
  <2>1. Same /\ UNCHANGED <<ticker, request>>
    BY <1>6 DEF CandleCloses, vars, Same, rowVars, worldVars
  <2>2. RequestInv'
    BY <2>1 DEF RequestInv, SessionIInv, Same
  <2> QED
    BY <1>1, <2>1, <2>2, OtherStep
<1> QED
  BY <1>1, <1>2, <1>3, <1>4, <1>5, <1>6, SyncSession DEF Next

LEMMA AtMostOneCounts == AtMostOne => OneOpen
<1> SUFFICES ASSUME AtMostOne PROVE OneOpen
  OBVIOUS
<1>1. CASE OpenTrades = {}
  BY <1>1, FS_EmptySet DEF OneOpen
<1>2. CASE OpenTrades # {}
  <2>1. PICK i \in OpenTrades : TRUE
    BY <1>2
  <2>2. OpenTrades = {i}
    BY <2>1 DEF AtMostOne
  <2> QED
    BY <2>2, FS_Singleton DEF OneOpen
<1> QED
  BY <1>1, <1>2

(* A signal is executed at the open of the next candle in the store, by    *)
(* however many workers, while the owner pauses, resumes and stops: only a *)
(* reset that meets a candle being applied can leave an older signal.      *)
THEOREM EntriesAtTheNextOpen ==
  ASSUME "reset" \notin Actions
  PROVE  Spec => []EntryNext
<1>1. SessionIInv => EntryNext
  BY DEF SessionIInv
<1> QED
  BY InitSession, NextSession, <1>1, PTL DEF Spec

(* One open position per session, by however many workers (one_or_none in  *)
(* paper/engine.py relies on it).                                          *)
THEOREM OneOpenPosition ==
  ASSUME "reset" \notin Actions
  PROVE  Spec => []OneOpen
<1>1. SessionIInv => OneOpen
  BY AtMostOneCounts DEF SessionIInv
<1> QED
  BY InitSession, NextSession, <1>1, PTL DEF Spec

-----------------------------------------------------------------------------
(* One worker and whatever the owner asks for.                             *)
LEMMA NextOneTicker ==
  ASSUME \A s, t \in Tickers : s = t
  PROVE  OneTickerInv /\ [Next]_vars => OneTickerInv'
<1> SUFFICES ASSUME OneTickerInv, [Next]_vars PROVE OneTickerInv'
  OBVIOUS
<1>1. Types /\ Types'
  BY NextTypes DEF OneTickerInv
<1>2. ASSUME OpenTrades' \subseteq OpenTrades,
             \A t \in Tickers : ticker'[t].pc = "apply" => ticker'[t] = ticker[t]
      PROVE  OneTickerInv'
  BY <1>1, <1>2 DEF OneTickerInv, AtMostOne
<1>3. ASSUME trades' = trades PROVE OpenTrades' = OpenTrades
  BY <1>3 DEF OpenTrades, Session!OpenTrades
<1>4. ASSUME NEW t \in Tickers, Tick(t) PROVE OneTickerInv'
  <2>1. \A s \in Tickers : s = t
    OBVIOUS
  <2>2. CASE Load(t)
    <3>1. ticker'[t].pc = "loaded" /\ OpenTrades' = OpenTrades
      BY <1>1, <1>3, <2>2, LoadFacts DEF Load, rowVars
    <3> QED
      BY <1>2, <2>1, <3>1
  <2>3. CASE StrategyFails(t) \/ ApplyUndone(t)
    <3>1. /\ ticker' = [ticker EXCEPT ![t] = NoTick] /\ stored' = stored
          /\ OpenTrades' = OpenTrades
      BY <1>3, <2>3 DEF StrategyFails, ApplyUndone, rowVars, worldVars
    <3>2. ticker'[t].pc = "idle"
      BY <1>1, <3>1, IdleFacts
    <3> QED
      BY <1>2, <2>1, <3>1, <3>2
  <2>4. CASE ReadRows(t)
    <3>1. trades' = trades /\ ticker'[t].row = Row
      BY <1>1, <2>4, ReadFacts DEF ReadRows, rowVars
    <3>2. Row.open = 0 => OpenTrades = {}
      BY OpenTradeFacts DEF Row
    <3> QED
      BY <1>1, <1>3, <2>1, <3>1, <3>2 DEF OneTickerInv, AtMostOne
  <2>5. CASE Skip(t)
    <3>1. ticker'[t].pc # "apply" /\ OpenTrades' = OpenTrades
      BY <1>1, <1>3, <2>5, AdvanceFacts DEF Skip, rowVars, worldVars
    <3> QED
      BY <1>2, <2>1, <3>1
  <2>6. CASE ApplyCandle(t)
    <3> DEFINE r == ticker[t].row
               i == Min(ticker[t].todo)
    <3>1. i \in Candles /\ UNCHANGED <<request, worldVars>> /\ ticker[t].pc = "apply"
      BY <1>1, <2>6, ApplyFacts DEF ApplyCandle
    <3>2. PICK z \in SimRow : \E g \in SignalSet :
             Fills(z, r.open, r.signal) /\ Write(t, r, i, z, g)
      BY <1>1, <2>6, ApplyFacts
    <3>3. stored' = stored /\ Advance(t)
      BY <3>1, <3>2 DEF worldVars, Write
    <3>4. ticker'[t].pc # "apply"
      BY <1>1, <3>1, <3>3, AdvanceFacts
    <3> HIDE DEF r, i
    <3>5. trades' = Session!Booked(trades, z, i) /\ trades \in [Candles -> TradeRow]
      BY <1>1, <3>2 DEF Write, Types, RowTypes
    <3>6. z.bought # 0 => OpenTrades = {}
      BY <3>1, <3>2 DEF Fills, OneTickerInv, r
    <3>7. ASSUME NEW j \in OpenTrades' PROVE j \in Candles /\ (j = z.bought \/ j \in OpenTrades)
      <4>1. j \in Candles /\ trades'[j].state = "open"
        BY DEF OpenTrades, Session!OpenTrades
      <4>2. j \notin {z.bought, z.sold} => trades'[j] = trades[j]
        BY <3>1, <3>5, <4>1, BookedFacts
      <4>3. j = z.sold => trades'[j].state = "closed"
        BY <3>1, <3>5, <4>1, BookedFacts
      <4> QED
        BY <4>1, <4>2, <4>3 DEF OpenTrades, Session!OpenTrades
    <3>8. AtMostOne'
      BY <3>6, <3>7 DEF AtMostOne, OneTickerInv, Candles
    <3> QED
      BY <1>1, <2>1, <3>4, <3>8 DEF OneTickerInv
  <2> QED
    BY <1>4, <2>2, <2>3, <2>4, <2>5, <2>6 DEF Tick
<1>5. ASSUME NEW t \in Tickers, Crash(t) PROVE OneTickerInv'
  <2>1. OpenTrades' = OpenTrades /\ ticker'[t].pc = "idle" /\ \A s \in Tickers : s = t
    BY <1>1, <1>3, <1>5, IdleFacts DEF Crash, rowVars
  <2> QED
    BY <1>2, <2>1
<1>6. ASSUME Serve PROVE OneTickerInv'
  <2>1. UNCHANGED ticker
    BY <1>1, <1>6, RequestTypes
  <2>2. ASSUME NEW j \in Candles, trades'[j].state = "open" PROVE trades[j].state = "open"
    <3>1. CASE PauseResume
      BY <2>2, <3>1 DEF PauseResume
    <3>2. CASE Stop
      <4>1. CASE request.row.open = 0 \/ ~Priced(request.row)
        BY <2>2, <3>2, <4>1 DEF Stop
      <4>2. CASE request.row.open # 0 /\ Priced(request.row)
        <5> DEFINE o == request.row.open
        <5>1. PICK p \in Prices :
                trades' = [trades EXCEPT ![o].state = "closed", ![o].got = p]
          BY <3>2, <4>2 DEF Stop
        <5> DEFINE w == [trades[o] EXCEPT !.state = "closed", !.got = p]
        <5>2. o \in Candles /\ trades \in [Candles -> TradeRow]
          BY <1>1, <4>2, NumbersAssumption DEF Candles, Types, RequestRow, RowSet, RowTypes
        <5>3. trades[o] \in TradeRow /\ w.state = "closed"
          BY <5>2 DEF TradeRow
        <5>4. trades' = [trades EXCEPT ![o] = w]
          BY <5>1, <5>2
        <5> HIDE DEF w
        <5> QED
          BY <2>2, <5>2, <5>3, <5>4
      <4> QED
        BY <4>1, <4>2
    <3>3. CASE Reset
      <4>1. NoTrade.state = "none"
        BY DEF NoTrade, Session!NoTrade
      <4> QED
        BY <2>2, <3>3, <4>1 DEF Reset
    <3> QED
      BY <1>6, <3>1, <3>2, <3>3 DEF Serve
  <2>3. OpenTrades' \subseteq OpenTrades
    BY <2>2 DEF OpenTrades, Session!OpenTrades
  <2> QED
    BY <1>2, <2>1, <2>3
<1>7. ASSUME \/ \E act \in Actions : Ask(act)
             \/ CandleCloses \/ Sync \/ UNCHANGED vars
      PROVE  OneTickerInv'
  <2>1. trades' = trades /\ ticker' = ticker
    BY <1>7 DEF Ask, CandleCloses, Sync, vars, rowVars
  <2> QED
    BY <1>2, <1>3, <2>1
<1> QED
  BY <1>4, <1>5, <1>6, <1>7 DEF Next

(* With the one worker that the deployment runs, a second position cannot  *)
(* be opened whatever the owner asks for, a reset included.                *)
THEOREM OneOpenWithReset ==
  ASSUME \A s, t \in Tickers : s = t
  PROVE  Spec => []OneOpen
<1>1. Init => OneTickerInv
  BY InitSession, RestTyped DEF SessionIInv, OneTickerInv, Init
<1>2. OneTickerInv => OneOpen
  BY AtMostOneCounts DEF OneTickerInv
<1> QED
  BY <1>1, NextOneTicker, <1>2, PTL DEF Spec

-----------------------------------------------------------------------------
(* The workers of a session that is at most paused implement PaperSession. *)
LEMMA SameCore ==
  ASSUME NEW u, NEW o, NEW sig, NEW i, NEW allow
  PROVE  Session!OnCandle(Session!State(u, o), sig, i, allow) = OnCandle(State(u, o), sig, i, allow)
BY DEF Session!OnCandle, Session!State, Session!Left, Session!Inside, Session!AtOpen, Session!Buy,
       Session!Sell, Session!NoSignal,
       OnCandle, State, Left, Inside, AtOpen, Buy, Sell, NoSignal

LEMMA ApplyImplements ==
  ASSUME Actions \subseteq {"pause", "resume"}, SessionIInv, NEW t \in Tickers, ApplyCandle(t)
  PROVE  Session!Next
<1> DEFINE r == ticker[t].row
           i == Min(ticker[t].todo)
<1>1. r \in RowSet /\ r.last = last /\ last < i /\ i \in Candles /\ ReadStill(r)
  BY NextOnce
<1>2. r = [Row EXCEPT !.status = r.status]
  BY <1>1 DEF ReadStill
<1>3. r.usdt = usdt /\ r.open = Session!OpenTrade /\ r.signal = signal
  BY <1>2 DEF Row
<1>4. PICK allow \in BOOLEAN : \E end \in OnCandle(State(r.usdt, r.open), r.signal, i, allow) :
                  Commits(i, end.state) /\ Write(t, r, i, end.state, end.signal)
  BY ApplyFacts DEF SessionIInv
<1>5. PICK end \in OnCandle(State(r.usdt, r.open), r.signal, i, allow) :
                  Commits(i, end.state) /\ Write(t, r, i, end.state, end.signal)
  BY <1>4
<1> HIDE DEF r, i
<1>6. end \in Session!OnCandle(Session!State(usdt, Session!OpenTrade), signal, i, allow)
  BY <1>3, <1>5, SameCore
<1>7. /\ end.state.bought # 0 => trades[end.state.bought] = Session!NoTrade
      /\ usdt' = end.state.usdt /\ signal' = end.signal /\ last' = i
      /\ trades' = Session!Booked(trades, end.state, i)
  BY <1>3, <1>5 DEF Commits, Write, Put, NoTrade
<1>8. i > last
  BY <1>1, AgainstBefore DEF Candles
<1>9. Session!Apply(i)
  BY <1>6, <1>7, <1>8 DEF Session!Apply
<1> QED
  BY <1>1, <1>9 DEF Session!Next

LEMMA StepsImplement ==
  ASSUME Actions \subseteq {"pause", "resume"}, SessionIInv, [Next]_vars
  PROVE  [Session!Next]_<<last, usdt, trades, signal>>
<1>1. ASSUME NEW t \in Tickers, Tick(t) \/ Crash(t), ~ApplyCandle(t)
      PROVE  UNCHANGED <<last, usdt, trades, signal>>
  BY <1>1 DEF Tick, Load, StrategyFails, ReadRows, Skip, ApplyUndone, Crash, rowVars
<1>2. ASSUME Serve PROVE UNCHANGED <<last, usdt, trades, signal>>
  <2>1. request.act \in {"pause", "resume", "none"}
    BY DEF SessionIInv, Types, RequestRow
  <2> QED
    BY <1>2, <2>1 DEF Serve, PauseResume, Stop, Reset
<1>3. ASSUME \/ \E act \in Actions : Ask(act)
             \/ CandleCloses \/ Sync \/ UNCHANGED vars
      PROVE  UNCHANGED <<last, usdt, trades, signal>>
  BY <1>3 DEF Ask, CandleCloses, Sync, vars, rowVars
<1> QED
  BY <1>1, <1>2, <1>3, ApplyImplements DEF Next

(* However many workers tick a session and whichever of them die, it does  *)
(* what PaperSession says: each candle once, in order, and its balance,    *)
(* trades and signal in one step.  A stop and a reset are the owner's      *)
(* steps, which PaperSession has not.                                      *)
THEOREM ImplementsSession ==
  ASSUME Actions \subseteq {"pause", "resume"}
  PROVE  Spec => SessionSpec
<1>1. Init => Session!Init
  BY DEF Init, Session!Init, NoTrade, NoSignal, Session!NoSignal
<1>2. SessionIInv /\ [Next]_vars => [Session!Next]_<<last, usdt, trades, signal>>
  BY StepsImplement
<1>3. "reset" \notin Actions
  OBVIOUS
<1> QED
  BY <1>1, <1>2, <1>3, InitSession, NextSession, PTL DEF Spec, SessionSpec, Session!Spec

-----------------------------------------------------------------------------
(* The books of the session.  The sum of the closed trades alone is not    *)
(* inductive: a sale moves a trade into it, so the invariant adds up what  *)
(* every trade, the open one included, has brought so far.                 *)
Cash(rows) ==
  [i \in Candles |-> IF rows[i].state = "none" THEN 0
                     ELSE IF rows[i].state = "open" THEN 0 - rows[i].paid
                     ELSE rows[i].got - rows[i].paid]
Balanced ==
  /\ usdt = Capital + SumFunctionOnSet(Cash(trades), Candles)
  /\ base = IF OpenTrades = {} THEN 0 ELSE 1
SignalReal == signal.side # "none" => signal.at # 0
BalanceIInv == SessionIInv /\ SignalReal /\ Balanced

(* The fills of a candle and the balance move together.                    *)
Moved(z, u) ==
  /\ z.usdt = u - z.paid + z.got
  /\ z.bought = 0 => z.paid = 0
  /\ z.sold = 0 => z.got = 0

LEMMA OpenMoves ==
  ASSUME NEW u \in Nat, NEW o \in 0 .. MaxCandle, NEW sig \in SignalSet, NEW allow \in BOOLEAN,
         sig.side # "none" => sig.at # 0, NEW y \in AtOpen(State(u, o), sig, allow)
  PROVE  Moved(y, u)
<1> DEFINE x == State(u, o)
<1>1. /\ x \in SimRow /\ x.usdt = u /\ x.open = o
      /\ x.paid = 0 /\ x.bought = 0 /\ x.sold = 0 /\ x.got = 0
  BY StateFacts
<1>2. y \in AtOpen(x, sig, allow)
  OBVIOUS
<1> HIDE DEF x
<1>3. CASE y = x
  BY <1>1, <1>3 DEF Moved
<1>4. ASSUME NEW p \in Prices, y = Buy(x, sig.at, p), sig.side = "enter" PROVE Moved(y, u)
  <2>1. y.usdt = u - p /\ y.paid = p /\ y.got = 0 /\ y.bought # 0 /\ p \in Nat
    BY <1>1, <1>4, PricesAssumption DEF Buy, SimRow
  <2> QED
    BY <2>1 DEF Moved
<1>5. ASSUME NEW p \in Prices, y = Sell(x, p), o # 0 PROVE Moved(y, u)
  <2>1. y.usdt = u + p /\ y.paid = 0 /\ y.got = p /\ y.sold # 0 /\ p \in Nat
    BY <1>1, <1>5, PricesAssumption DEF Sell, SimRow
  <2> QED
    BY <2>1 DEF Moved
<1>6. \/ y = x
      \/ sig.side = "enter" /\ \E p \in Prices : y = Buy(x, sig.at, p)
      \/ o # 0 /\ \E p \in Prices : y = Sell(x, p)
  BY <1>1, <1>2 DEF AtOpen
<1> QED
  BY <1>3, <1>4, <1>5, <1>6

LEMMA InsideMoves ==
  ASSUME NEW u \in Nat, NEW y \in SimRow, NEW o, NEW sig, Fills(y, o, sig), Moved(y, u),
         NEW z \in Inside(y)
  PROVE  Moved(z, u)
<1>1. CASE z = y
  BY <1>1
<1>2. ASSUME NEW p \in Prices, z = Sell(y, p), y.open # 0 PROVE Moved(z, u)
  <2>1. y.got = 0
    BY <1>2 DEF Fills, Moved
  <2>2. /\ z.usdt = y.usdt + p /\ z.paid = y.paid /\ z.got = p /\ z.sold # 0 /\ z.bought = y.bought
        /\ p \in Nat /\ y.paid \in Nat
    BY <1>2, PricesAssumption DEF Sell, SimRow
  <2> QED
    BY <2>1, <2>2 DEF Moved
<1> QED
  BY <1>1, <1>2 DEF Inside

LEMMA CandleMoves ==
  ASSUME NEW u \in Nat, NEW o \in 0 .. MaxCandle, NEW sig \in SignalSet, NEW allow \in BOOLEAN,
         sig.side # "none" => sig.at # 0, NEW i,
         NEW end \in OnCandle(State(u, o), sig, i, allow)
  PROVE  Moved(end.state, u)
<1>1. PICK y \in AtOpen(State(u, o), sig, allow) : \E z \in Inside(y) :
             \E g \in Left(z, i, allow) : end = [state |-> z, signal |-> g]
  BY DEF OnCandle
<1>2. PICK z \in Inside(y) : end.state = z
  BY <1>1
<1>3. y \in SimRow /\ Fills(y, o, sig)
  BY AtOpenFacts
<1>4. Moved(y, u)
  BY OpenMoves
<1> QED
  BY <1>2, <1>3, <1>4, InsideMoves

(* The money in the rows of the trades after the fills of a candle.        *)
LEMMA BookedMoney ==
  ASSUME NEW rows \in [Candles -> TradeRow], NEW z \in SimRow, NEW i \in Candles
  PROVE  LET new == Session!Booked(rows, z, i)
         IN  \A j \in Candles :
                  /\ j = z.bought => new[j].paid = z.paid
                  /\ j # z.bought => new[j].paid = rows[j].paid
                  /\ j = z.sold => new[j].got = z.got
<1> DEFINE b == [state |-> "open", entry |-> i, paid |-> z.paid, got |-> 0]
           row(j) == IF j = z.bought THEN b ELSE rows[j]
           sale(j) == [row(j) EXCEPT !.state = "closed", !.got = z.got]
<1>1. b \in TradeRow /\ b.paid = z.paid
  BY NumbersAssumption DEF TradeRow, SimRow, Candles
<1> HIDE DEF b
<1>2. ASSUME NEW r \in TradeRow
      PROVE  /\ [r EXCEPT !.state = "closed", !.got = z.got].paid = r.paid
             /\ [r EXCEPT !.state = "closed", !.got = z.got].got = z.got
  BY <1>2 DEF TradeRow
<1>3. \A j \in Candles : row(j) \in TradeRow
  BY <1>1
<1>4. ASSUME NEW j \in Candles PROVE sale(j).paid = row(j).paid /\ sale(j).got = z.got
  <2> DEFINE r == row(j)
  <2>1. r \in TradeRow
    BY <1>3
  <2>2. sale(j) = [r EXCEPT !.state = "closed", !.got = z.got]
    OBVIOUS
  <2> HIDE DEF r, sale
  <2>3. sale(j).paid = r.paid /\ sale(j).got = z.got
    BY <1>2, <2>1, <2>2
  <2> QED
    BY <2>3 DEF r
<1>5. Session!Booked(rows, z, i) = [j \in Candles |-> IF j = z.sold THEN sale(j) ELSE row(j)]
  BY DEF Session!Booked, b
<1>6. \A j \in Candles : row(j) = IF j = z.bought THEN b ELSE rows[j]
  OBVIOUS
<1> HIDE DEF row, sale
<1> QED
  BY <1>1, <1>4, <1>5, <1>6

LEMMA CashFacts ==
  ASSUME NEW rows \in [Candles -> TradeRow]
  PROVE  /\ IsFiniteSet(Candles)
         /\ \A i \in Candles :
              /\ Cash(rows)[i] \in Int /\ rows[i].paid \in Nat /\ rows[i].got \in Nat
              /\ rows[i].state = "none" => Cash(rows)[i] = 0
              /\ rows[i].state = "open" => Cash(rows)[i] = 0 - rows[i].paid
              /\ rows[i].state = "closed" => Cash(rows)[i] = rows[i].got - rows[i].paid
              /\ rows[i].state \in {"none", "open", "closed"}
<1>1. IsFiniteSet(Candles)
  BY NumbersAssumption, FS_Interval DEF Candles
<1>2. ASSUME NEW i \in Candles
      PROVE  rows[i].paid \in Nat /\ rows[i].got \in Nat /\ rows[i].state \in {"none", "open", "closed"}
    BY DEF TradeRow
<1>3. ASSUME NEW i \in Candles
      PROVE  Cash(rows)[i] = IF rows[i].state = "none" THEN 0
                             ELSE IF rows[i].state = "open" THEN 0 - rows[i].paid
                             ELSE rows[i].got - rows[i].paid
  BY DEF Cash
<1> QED
  BY <1>1, <1>2, <1>3

(* One row changes, the cash of the others stays.                          *)
LEMMA CashChanged ==
  ASSUME NEW rows \in [Candles -> TradeRow], NEW new \in [Candles -> TradeRow],
         NEW b \in Candles, \A j \in Candles \ {b} : new[j] = rows[j]
  PROVE  /\ SumFunctionOnSet(Cash(rows), Candles) \in Int
         /\ SumFunctionOnSet(Cash(new), Candles)
              = SumFunctionOnSet(Cash(rows), Candles) - Cash(rows)[b] + Cash(new)[b]
<1> DEFINE f == Cash(rows)
           g == Cash(new)
<1>1. IsFiniteSet(Candles) /\ \A j \in Candles : f[j] \in Int /\ g[j] \in Int
  BY CashFacts
<1>2. \A j \in Candles \ {b} : g[j] = f[j]
  BY DEF Cash
<1> HIDE DEF f, g
<1>3. SumFunctionOnSet(f, Candles) \in Int
  BY <1>1, SumFacts
<1>4. SumFunctionOnSet(g, Candles) = SumFunctionOnSet(f, Candles) - f[b] + g[b]
  BY <1>1, <1>2, SumChanged
<1> QED
  BY <1>3, <1>4 DEF f, g

LEMMA ApplyBalance ==
  ASSUME BalanceIInv, Types', Actions \subseteq {"pause", "resume"}, NEW t \in Tickers, ApplyCandle(t)
  PROVE  SignalReal' /\ Balanced'
<1> DEFINE r == ticker[t].row
           i == Min(ticker[t].todo)
<1>0. SessionIInv /\ Types
  BY DEF BalanceIInv, SessionIInv
<1>1. r \in RowSet /\ r.last = last /\ i \in Candles /\ ReadStill(r)
  BY <1>0, NextOnce
<1>2. r = [Row EXCEPT !.status = r.status]
  BY <1>1 DEF ReadStill
<1>3. r.usdt = usdt /\ r.open = Session!OpenTrade /\ r.signal = signal /\ r.base = base
  BY <1>2 DEF Row
<1>4. PICK allow \in BOOLEAN : \E end \in OnCandle(State(r.usdt, r.open), r.signal, i, allow) :
        /\ end.state \in SimRow /\ Fills(end.state, r.open, r.signal)
        /\ LeavesSignal(end.signal, end.state, i)
        /\ Commits(i, end.state) /\ Write(t, r, i, end.state, end.signal)
  BY <1>0, ApplyFacts
<1>5. PICK end \in OnCandle(State(r.usdt, r.open), r.signal, i, allow) :
        /\ end.state \in SimRow /\ Fills(end.state, r.open, r.signal)
        /\ LeavesSignal(end.signal, end.state, i)
        /\ Commits(i, end.state) /\ Write(t, r, i, end.state, end.signal)
  BY <1>4
<1> HIDE DEF r, i
<1> DEFINE z == end.state
           g == end.signal
           o == Session!OpenTrade
<1>6. /\ usdt \in Nat /\ signal \in SignalSet /\ trades \in [Candles -> TradeRow]
      /\ trades' \in [Candles -> TradeRow] /\ o \in 0 .. MaxCandle
  BY <1>0, OpenTradeFacts DEF Types, RowTypes
<1>7. Moved(z, usdt)
  BY <1>3, <1>5, <1>6, CandleMoves DEF BalanceIInv, SignalReal
<1>8. /\ z \in SimRow /\ Fills(z, o, signal) /\ LeavesSignal(g, z, i)
      /\ z.bought # 0 => trades[z.bought] = NoTrade
      /\ usdt' = z.usdt /\ signal' = g
      /\ base' = IF z.open = 0 THEN 0 ELSE 1
      /\ trades' = Session!Booked(trades, z, i)
  BY <1>3, <1>5 DEF Commits, Write, Put
<1> HIDE DEF z, g
<1>9. SignalReal'
  BY <1>1, <1>8 DEF LeavesSignal, SignalReal, NoSignal, Candles
<1>10. /\ z.usdt \in Nat /\ z.paid \in Nat /\ z.got \in Nat
       /\ z.bought \in 0 .. MaxCandle /\ z.sold \in 0 .. MaxCandle
  BY <1>8 DEF SimRow
<1>11. ASSUME NEW j \in Candles
       PROVE  /\ j \notin {z.bought, z.sold} => trades'[j] = trades[j]
              /\ j = z.sold => trades'[j].state = "closed" /\ trades'[j].got = z.got
              /\ j = z.bought /\ j # z.sold => trades'[j].state = "open"
              /\ j = z.bought => trades'[j].paid = z.paid
              /\ j # z.bought => trades'[j].paid = trades[j].paid
  BY <1>1, <1>6, <1>8, BookedFacts, BookedMoney
<1>12. /\ usdt = Capital + SumFunctionOnSet(Cash(trades), Candles)
       /\ SumFunctionOnSet(Cash(trades), Candles) \in Int /\ Capital \in Nat
  <2>1. IsFiniteSet(Candles) /\ \A j \in Candles : Cash(trades)[j] \in Int
    BY <1>6, CashFacts
  <2> QED
    BY <2>1, SumFacts, NumbersAssumption DEF BalanceIInv, Balanced
<1>13. 0 \notin Candles /\ Candles = 1 .. MaxCandle /\ MaxCandle \in Nat
  BY NumbersAssumption DEF Candles
<1>14. NoTrade.state = "none" /\ OpenTrades = {j \in Candles : trades[j].state = "open"}
       /\ OpenTrades' = {j \in Candles : trades'[j].state = "open"}
  BY DEF NoTrade, Session!NoTrade, OpenTrades, Session!OpenTrades
<1>15. /\ o = 0 <=> OpenTrades = {}
       /\ o # 0 => o \in Candles /\ trades[o].state = "open" /\ \A j \in OpenTrades : j = o
  <2>1. AtMostOne
    BY <1>0 DEF SessionIInv
  <2> HIDE DEF o
  <2> QED
    BY <1>13, <1>14, <2>1, OpenTradeFacts DEF AtMostOne, o
<1>16. CASE z.bought # 0
  <2> DEFINE b == z.bought
  <2>1. b \in Candles /\ trades[b] = NoTrade /\ z.sold \in {0, b} /\ OpenTrades = {}
    BY <1>8, <1>10, <1>13, <1>15, <1>16 DEF Fills
  <2>2. \A j \in Candles \ {b} : trades'[j] = trades[j]
    BY <1>11, <1>13, <2>1
  <2>3. Cash(trades)[b] = 0
    BY <1>6, <1>14, <2>1, CashFacts
  <2>4. Cash(trades')[b] = z.got - z.paid
    <3>1. trades'[b].paid = z.paid
      BY <1>11, <2>1
    <3>2. CASE z.sold = b
      <4>1. trades'[b].state = "closed" /\ trades'[b].got = z.got
        BY <1>11, <2>1, <3>2
      <4> QED
        BY <1>6, <2>1, <3>1, <4>1, CashFacts
    <3>3. CASE z.sold # b
      <4>1. trades'[b].state = "open" /\ z.got = 0
        BY <1>7, <1>11, <2>1, <3>3 DEF Moved
      <4> QED
        BY <1>6, <2>1, <3>1, <4>1, CashFacts
    <3> QED
      BY <3>2, <3>3
  <2>5. SumFunctionOnSet(Cash(trades'), Candles) = SumFunctionOnSet(Cash(trades), Candles) - 0 + (z.got - z.paid)
    BY <1>6, <2>1, <2>2, <2>3, <2>4, CashChanged
  <2>6. usdt' = Capital + SumFunctionOnSet(Cash(trades'), Candles)
    BY <1>7, <1>8, <1>10, <1>12, <2>5 DEF Moved
  <2>7. z.open = 0 <=> OpenTrades' = {}
    <3>1. CASE z.sold = b
      <4>1. z.open = 0
        BY <1>8, <1>16, <3>1 DEF Fills
      <4>2. ASSUME NEW j \in OpenTrades' PROVE FALSE
        BY <1>11, <1>14, <2>1, <2>2, <3>1, <4>2
      <4> QED
        BY <4>1, <4>2
    <3>2. CASE z.sold # b
      <4>1. z.open = b /\ b \in OpenTrades'
        BY <1>8, <1>11, <1>14, <1>16, <2>1, <3>2 DEF Fills
      <4> QED
        BY <1>13, <2>1, <4>1
    <3> QED
      BY <3>1, <3>2
  <2> QED
    BY <1>8, <1>9, <2>6, <2>7 DEF Balanced
<1>17. CASE z.bought = 0 /\ z.sold = 0
  <2>1. \A j \in Candles : trades'[j] = trades[j]
    BY <1>11, <1>13, <1>17
  <2>2. trades' = trades
    BY <1>6, <2>1
  <2>3. OpenTrades' = OpenTrades
    BY <1>14, <2>1
  <2>4. z.open = o /\ usdt' = usdt
    BY <1>6, <1>7, <1>8, <1>17 DEF Fills, Moved
  <2> QED
    BY <1>8, <1>9, <1>12, <1>15, <2>2, <2>3, <2>4 DEF Balanced
<1>18. CASE z.bought = 0 /\ z.sold # 0
  <2>1. z.sold = o /\ z.open = 0 /\ z.paid = 0 /\ o \in Candles /\ trades[o].state = "open"
    BY <1>7, <1>8, <1>15, <1>18 DEF Fills, Moved
  <2>2. /\ \A j \in Candles \ {o} : trades'[j] = trades[j]
        /\ trades'[o].state = "closed" /\ trades'[o].got = z.got /\ trades'[o].paid = trades[o].paid
    <3> HIDE DEF o
    <3> QED
      BY <1>11, <1>13, <1>18, <2>1
  <2>3. Cash(trades)[o] = 0 - trades[o].paid /\ Cash(trades')[o] = z.got - trades[o].paid
        /\ trades[o].paid \in Nat
    <3> HIDE DEF o
    <3> QED
      BY <1>6, <2>1, <2>2, CashFacts
  <2>4. SumFunctionOnSet(Cash(trades'), Candles)
          = SumFunctionOnSet(Cash(trades), Candles) - Cash(trades)[o] + Cash(trades')[o]
    <3> HIDE DEF o
    <3> QED
      BY <1>6, <2>1, <2>2, CashChanged
  <2>5. usdt' = Capital + SumFunctionOnSet(Cash(trades'), Candles)
    <3> HIDE DEF o
    <3> QED
      BY <1>6, <1>7, <1>8, <1>10, <1>12, <2>1, <2>3, <2>4 DEF Moved
  <2>6. OpenTrades' = {}
    <3>1. ASSUME NEW j \in OpenTrades' PROVE FALSE
      <4>1. j \in Candles /\ trades'[j].state = "open" /\ j # o
        BY <1>14, <2>2
      <4>2. j \in OpenTrades
        BY <1>14, <2>2, <4>1
      <4> QED
        BY <1>15, <2>1, <1>13, <4>1, <4>2
    <3> QED
      BY <3>1
  <2> QED
    BY <1>8, <1>9, <2>1, <2>5, <2>6 DEF Balanced
<1> QED
  BY <1>16, <1>17, <1>18

LEMMA NextBalance ==
  ASSUME Actions \subseteq {"pause", "resume"}
  PROVE  BalanceIInv /\ [Next]_vars => BalanceIInv'
<1> SUFFICES ASSUME BalanceIInv, [Next]_vars PROVE BalanceIInv'
  OBVIOUS
<1>1. SessionIInv' /\ Types'
  BY NextSession DEF BalanceIInv, SessionIInv
<1>2. ASSUME UNCHANGED <<usdt, base, trades, signal>> PROVE SignalReal' /\ Balanced'
  <2>1. OpenTrades' = OpenTrades
    BY <1>2 DEF OpenTrades, Session!OpenTrades
  <2> QED
    BY <1>2, <2>1 DEF BalanceIInv, SignalReal, Balanced
<1>3. ASSUME NEW t \in Tickers, Tick(t) \/ Crash(t), ~ApplyCandle(t)
      PROVE  UNCHANGED <<usdt, base, trades, signal>>
  BY <1>3 DEF Tick, Load, StrategyFails, ReadRows, Skip, ApplyUndone, Crash, rowVars
<1>4. ASSUME Serve PROVE UNCHANGED <<usdt, base, trades, signal>>
  <2>1. request.act \in {"pause", "resume", "none"}
    BY DEF BalanceIInv, SessionIInv, Types, RequestRow
  <2> QED
    BY <1>4, <2>1 DEF Serve, PauseResume, Stop, Reset
<1>5. ASSUME \/ \E act \in Actions : Ask(act)
             \/ CandleCloses \/ Sync \/ UNCHANGED vars
      PROVE  UNCHANGED <<usdt, base, trades, signal>>
  BY <1>5 DEF Ask, CandleCloses, Sync, vars, rowVars
<1>6. SignalReal' /\ Balanced'
  BY <1>1, <1>2, <1>3, <1>4, <1>5, ApplyBalance DEF Next
<1> QED
  BY <1>1, <1>6 DEF BalanceIInv

LEMMA InitBalance == Init => BalanceIInv
<1> SUFFICES ASSUME Init PROVE BalanceIInv
  OBVIOUS
<1>1. SessionIInv /\ trades \in [Candles -> TradeRow]
  BY InitSession DEF SessionIInv, Types, RowTypes
<1>2. \A i \in Candles : trades[i].state = "none"
  BY DEF Init, NoTrade, Session!NoTrade
<1>3. OpenTrades = {}
  BY <1>2 DEF OpenTrades, Session!OpenTrades
<1> DEFINE f == Cash(trades)
<1>4. IsFiniteSet(Candles) /\ \A i \in Candles : f[i] \in Int /\ f[i] = 0
  BY <1>1, <1>2, CashFacts
<1> HIDE DEF f
<1>5. SumFunctionOnSet(f, Candles) = SumFunctionOnSet(f, {})
  BY <1>4, SumRestricted
<1>6. SumFunctionOnSet(f, {}) = 0
  BY SumFacts, FS_EmptySet
<1>7. Balanced
  BY <1>3, <1>5, <1>6, NumbersAssumption DEF Init, Balanced, f
<1> QED
  BY <1>1, <1>7 DEF BalanceIInv, SignalReal, Init, NoSignal

LEMMA BalanceIs == BalanceIInv => BalanceAgrees
<1> SUFFICES ASSUME BalanceIInv PROVE BalanceAgrees
  OBVIOUS
<1>1. trades \in [Candles -> TradeRow] /\ AtMostOne /\ Balanced /\ usdt \in Nat
  BY DEF BalanceIInv, SessionIInv, Types, RowTypes
<1> DEFINE f == Cash(trades)
           g == Pnl
           o == Session!OpenTrade
<1>2. /\ IsFiniteSet(Candles) /\ \A i \in Candles : f[i] \in Int /\ g[i] \in Int
      /\ \A i \in Closed : g[i] = f[i]
      /\ \A i \in Candles : trades[i].state = "none" => f[i] = 0
      /\ \A i \in OpenTrades : f[i] = 0 - trades[i].paid /\ trades[i].paid \in Nat
  <2>1. \A i \in Candles : Pnl[i] = trades[i].got - trades[i].paid
    BY DEF Pnl
  <2> QED
    BY <1>1, <2>1, CashFacts DEF Closed, OpenTrades, Session!OpenTrades
<1>3. /\ Closed \in SUBSET Candles /\ OpenTrades \in SUBSET Candles
      /\ Closed \cap OpenTrades = {} /\ IsFiniteSet(Closed)
      /\ \A i \in Candles \ (Closed \cup OpenTrades) : trades[i].state = "none"
  <2>1. Closed \in SUBSET Candles
    BY DEF Closed
  <2>2. IsFiniteSet(Closed)
    BY <1>2, <2>1, FS_Subset
  <2>3. \A i \in Candles : trades[i].state \in {"none", "open", "closed"}
    BY <1>1, CashFacts
  <2> QED
    BY <2>1, <2>2, <2>3 DEF Closed, OpenTrades, Session!OpenTrades
<1>4. Realized = SumFunctionOnSet(g, Closed)
  BY DEF Realized
<1> HIDE DEF f, g
<1>5. SumFunctionOnSet(g, Closed) = SumFunctionOnSet(f, Closed) /\ SumFunctionOnSet(f, Closed) \in Int
  <2>1. \A i \in Closed : f[i] \in Int
    BY <1>2, <1>3
  <2>2. SumFunctionOnSet(f, Closed) \in Int
    BY <1>3, <2>1, SumFacts
  <2>3. SumFunctionOnSet(g, Closed) = SumFunctionOnSet(f, Closed)
    BY <1>2, <1>3, SumSame
  <2> QED
    BY <2>2, <2>3
<1>6. usdt = Capital + SumFunctionOnSet(f, Candles) /\ base = (IF OpenTrades = {} THEN 0 ELSE 1)
  BY <1>1 DEF Balanced, f
<1>7. CASE OpenTrades = {}
  <2>1. SumFunctionOnSet(f, Candles) = SumFunctionOnSet(f, Closed)
    <3>1. \A i \in Candles \ Closed : f[i] = 0
      BY <1>2, <1>3, <1>7
    <3> QED
      BY <1>2, <1>3, <3>1, SumRestricted
  <2>2. Cardinality(OpenTrades) = 0
    BY <1>7, FS_EmptySet
  <2>3. usdt = Capital + Realized - 0
    BY <1>4, <1>5, <1>6, <2>1, NumbersAssumption
  <2> QED
    BY <1>6, <1>7, <2>2, <2>3 DEF BalanceAgrees
<1>8. CASE OpenTrades # {}
  <2>1. o \in OpenTrades /\ OpenTrades = {o}
    BY <1>1, <1>8, OpenTradeFacts DEF AtMostOne
  <2> HIDE DEF o
  <2>2. SumFunctionOnSet(f, Candles) = SumFunctionOnSet(f, Closed \cup {o})
    <3>1. \A i \in Candles \ (Closed \cup {o}) : f[i] = 0
      BY <1>2, <1>3, <2>1
    <3>2. Closed \cup {o} \in SUBSET Candles
      BY <1>3, <2>1
    <3> QED
      BY <1>2, <3>1, <3>2, SumRestricted
  <2>3. SumFunctionOnSet(f, Closed \cup {o}) = SumFunctionOnSet(f, Closed) + f[o]
    <3>1. o \notin Closed /\ \A i \in Closed \cup {o} : f[i] \in Int
      BY <1>2, <1>3, <2>1
    <3> QED
      BY <1>3, <3>1, SumWith
  <2>4. Cardinality(OpenTrades) = 1
    BY <2>1, FS_Singleton
  <2>5. f[o] = 0 - trades[o].paid /\ trades[o].paid \in Nat
    BY <1>2, <2>1
  <2>6. usdt = Capital + Realized - trades[o].paid
    BY <1>4, <1>5, <1>6, <2>2, <2>3, <2>5, NumbersAssumption
  <2> QED
    BY <1>6, <1>8, <2>4, <2>6 DEF BalanceAgrees, o
<1> QED
  BY <1>7, <1>8

(* The free balance, the open position and the pnl of the closed trades    *)
(* add up to the capital: for every price, however many workers apply the *)
(* candles, whichever of them die (paper/engine.py commits the balance and *)
(* the trade rows together).                                               *)
THEOREM BalancesAddUp ==
  ASSUME Actions \subseteq {"pause", "resume"}
  PROVE  Spec => []BalanceAgrees
BY InitBalance, NextBalance, BalanceIs, PTL DEF Spec
=============================================================================
