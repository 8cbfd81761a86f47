--------------------------- MODULE TradeOrdersProofs ---------------------------
(***************************************************************************)
(* One trade, for any size, any number of orders and any deaths of the     *)
(* bot: what its rows say of its orders, the amount they add up to, and    *)
(* what is left at the exchange.                                           *)
(***************************************************************************)
EXTENDS TradeOrders, SequenceTheorems, NumberFacts

Sells == {"exit", "stop"}
Ended == {"closed", "canceled"}
Lives == {"none", "open", "closed", "dropped", "unreplaced", "deleted"}
Gone == {"dropped", "unreplaced", "deleted"}
NoFill == [status |-> "canceled", filled |-> 0]

(* The facts about rows are stated for any orders e of the exchange, so    *)
(* that they can be used of the orders before and after a step.            *)
OrderRow ==
  {o \in [side : Sides, amount : 1 .. Size, status : {"open"} \cup Ended, filled : 0 .. Size] :
     /\ o.filled <= o.amount
     /\ o.status = "closed" <=> o.filled = o.amount}
ViewOf(e, i) == [status |-> e[i].status, filled |-> e[i].filled]
EmptyAt(e, i) == ViewOf(e, i) = NoFill
Books(e) == UNION {[D -> Views] : D \in SUBSET DOMAIN e}
DbRow(e) == [life : Lives, amount : Nat, book : Books(e)]

(* A row that says the order has ended is what the exchange says of it.    *)
RowsOK(e, b) == \A i \in DOMAIN b : b[i].status # "open" => b[i] = ViewOf(e, i)

(* Of the entries since the trade began at most one has bought something   *)
(* or still can: the others were canceled without a fill.                  *)
WindowOf(e, D) == {i \in DOMAIN e : \E k \in D : k <= i}
OneIn(e, D) ==
  \A i, j \in WindowOf(e, D) :
    e[i].side = "entry" /\ e[j].side = "entry" /\ i # j => EmptyAt(e, i) \/ EmptyAt(e, j)

(* The amount that the rows add up to: Net, and the same as one sum.       *)
Worth(o, v) == IF v.status = "open" THEN 0 ELSE IF o.side = "entry" THEN v.filled ELSE 0 - v.filled
Ledger(e, b) == [i \in DOMAIN e |-> IF i \in DOMAIN b THEN Worth(e[i], b[i]) ELSE 0]
NetSum(e, b) == SumFunctionOnSet(Ledger(e, b), DOMAIN e)
DoneIn(e, b, sides) == {i \in DOMAIN b : b[i].status \in {"closed", "canceled"} /\ e[i].side \in sides}
NetIn(e, b) ==
  SumFunctionOnSet(Filled(b), DoneIn(e, b, {"entry"}))
    - SumFunctionOnSet(Filled(b), DoneIn(e, b, {"exit", "stop"}))

LEMMA NetIs == ASSUME NEW b PROVE Net(b) = NetIn(exch, b)
BY DEF Net, NetOf, NetIn, DoneIn

LEMMA OrderFacts ==
  ASSUME NEW e \in Seq(OrderRow), NEW i \in DOMAIN e
  PROVE  /\ e[i] \in OrderRow /\ i \in Nat /\ e[i].side \in {"entry", "exit", "stop"}
         /\ e[i].amount \in 1 .. Size /\ e[i].filled \in 0 .. Size
         /\ e[i].status \in {"open", "closed", "canceled"} /\ e[i].filled <= e[i].amount
         /\ e[i].status = "closed" <=> e[i].filled = e[i].amount
         /\ ViewOf(e, i) \in Views /\ IsFiniteSet(DOMAIN e)
         /\ ViewOf(e, i).status = e[i].status /\ ViewOf(e, i).filled = e[i].filled
<1>1. Len(e) \in Nat /\ DOMAIN e = 1 .. Len(e) /\ e[i] \in OrderRow
  OBVIOUS
<1>2. IsFiniteSet(DOMAIN e) /\ i \in Nat
  BY <1>1, FS_Interval
<1>3. e[i].side \in {"entry", "exit", "stop"} /\ e[i].status \in {"open", "closed", "canceled"}
  BY <1>1 DEF OrderRow, Sides, Ended
<1>4. e[i].amount \in 1 .. Size /\ e[i].filled \in 0 .. Size
  BY <1>1 DEF OrderRow
<1>5. ViewOf(e, i) \in Views
  BY <1>3, <1>4 DEF ViewOf, Views
<1> QED
  BY <1>1, <1>2, <1>3, <1>4, <1>5 DEF OrderRow, ViewOf

LEMMA BookFacts ==
  ASSUME NEW e, NEW b \in Books(e)
  PROVE  /\ DOMAIN b \subseteq DOMAIN e /\ b = [i \in DOMAIN b |-> b[i]]
         /\ \A i \in DOMAIN b :
              /\ b[i] \in Views /\ b[i].status \in {"open", "closed", "canceled"}
              /\ b[i].filled \in 0 .. Size /\ Filled(b)[i] = b[i].filled
              /\ b[i] = [status |-> b[i].status, filled |-> b[i].filled]
<1>1. PICK D \in SUBSET DOMAIN e : b \in [D -> Views]
  BY DEF Books
<1>2. \A i \in DOMAIN b : b[i] \in Views
  BY <1>1
<1> QED
  BY <1>1, <1>2 DEF Views, Filled

LEMMA NetIsSum ==
  ASSUME NEW e \in Seq(OrderRow), NEW b \in Books(e)
  PROVE  /\ NetIn(e, b) = NetSum(e, b) /\ NetSum(e, b) \in Int
         /\ IsFiniteSet(DOMAIN e) /\ \A i \in DOMAIN e : Ledger(e, b)[i] \in Int
<1> DEFINE S == DOMAIN e
           P == DoneIn(e, b, {"entry"})
           M == DoneIn(e, b, {"exit", "stop"})
           f == Filled(b)
           h == Ledger(e, b)
<1>1. IsFiniteSet(S)
  <2>1. Len(e) \in Nat /\ S = 1 .. Len(e)
    OBVIOUS
  <2> QED
    BY <2>1, FS_Interval
<1>2. P \in SUBSET S /\ M \in SUBSET S /\ P \cap M = {}
  BY BookFacts DEF DoneIn
<1>3. \A x \in P \cup M : f[x] \in Int
  BY BookFacts DEF DoneIn
<1>4. ASSUME NEW x \in S PROVE h[x] = IF x \in DOMAIN b THEN Worth(e[x], b[x]) ELSE 0
  BY DEF Ledger
<1>5. \A x \in P : h[x] = f[x]
  BY <1>2, <1>4, BookFacts DEF DoneIn, Worth
<1>6. \A x \in M : h[x] = 0 - f[x]
  BY <1>2, <1>4, BookFacts DEF DoneIn, Worth
<1>7. \A x \in S \ (P \cup M) : h[x] = 0
  <2>1. SUFFICES ASSUME NEW x \in S, x \notin P \cup M PROVE h[x] = 0
    OBVIOUS
  <2>2. e[x].side \in {"entry", "exit", "stop"}
    BY OrderFacts
  <2>3. x \in DOMAIN b => b[x].status = "open"
    BY <2>1, <2>2, BookFacts DEF DoneIn
  <2> QED
    BY <1>4, <2>3 DEF Worth
<1>8. \A x \in S : h[x] \in Int
  <2> HIDE DEF P, M, f, h
  <2> QED
    BY <1>2, <1>3, <1>5, <1>6, <1>7
<1>9. SumFunctionOnSet(h, S) = SumFunctionOnSet(f, P) - SumFunctionOnSet(f, M)
  <2> HIDE DEF P, M, f, h, S
  <2> QED
    BY <1>1, <1>2, <1>3, <1>5, <1>6, <1>7, SumSplit
<1>10. SumFunctionOnSet(h, S) \in Int
  <2> HIDE DEF h, S
  <2> QED
    BY <1>1, <1>8, SumFacts
<1> QED
  BY <1>1, <1>8, <1>9, <1>10 DEF NetIn, NetSum

(* What a row adds.                                                        *)
LEMMA LedgerIs ==
  ASSUME NEW e \in Seq(OrderRow), NEW b \in Books(e), NEW i \in DOMAIN e
  PROVE  /\ i \notin DOMAIN b => Ledger(e, b)[i] = 0
         /\ i \in DOMAIN b => Ledger(e, b)[i] = Worth(e[i], b[i])
BY DEF Ledger

LEMMA NetAtMostSize ==
  ASSUME NEW e \in Seq(OrderRow), NEW b \in Books(e), RowsOK(e, b), OneIn(e, DOMAIN b)
  PROVE  NetSum(e, b) <= Size
<1> DEFINE h == Ledger(e, b)
<1>1. IsFiniteSet(DOMAIN e) /\ \A i \in DOMAIN e : h[i] \in Int
  BY NetIsSum
<1>2. ASSUME NEW i \in DOMAIN e, h[i] > 0
      PROVE  i \in WindowOf(e, DOMAIN b) /\ e[i].side = "entry" /\ ~EmptyAt(e, i) /\ h[i] <= Size
  <2>1. i \in DOMAIN b /\ h[i] = Worth(e[i], b[i])
    BY <1>2, LedgerIs
  <2>2. b[i].status # "open" /\ b[i].filled \in 0 .. Size /\ e[i].side = "entry" /\ h[i] = b[i].filled
    BY <1>2, <2>1, BookFacts DEF Worth
  <2>3. b[i] = ViewOf(e, i)
    BY <2>1, <2>2 DEF RowsOK
  <2>4. b[i].filled # 0 /\ NoFill.filled = 0
    BY <1>2, <2>2 DEF NoFill
  <2>5. i \in WindowOf(e, DOMAIN b)
    BY <2>1, OrderFacts DEF WindowOf
  <2> HIDE DEF h
  <2> QED
    BY <2>2, <2>3, <2>4, <2>5, SizeAssumption DEF EmptyAt
<1>3. CASE \A i \in DOMAIN e : h[i] <= 0
  <2> HIDE DEF h
  <2>1. SumFunctionOnSet(h, DOMAIN e) <= 0
    BY <1>1, <1>3, SumNotPositive
  <2>2. SumFunctionOnSet(h, DOMAIN e) \in Int
    BY <1>1, SumFacts
  <2> QED
    BY <2>1, <2>2, SizeAssumption DEF NetSum, h
<1>4. CASE \E i \in DOMAIN e : ~(h[i] <= 0)
  <2>1. PICK i \in DOMAIN e : h[i] > 0
    BY <1>1, <1>4
  <2>2. \A j \in DOMAIN e \ {i} : h[j] <= 0
    <3>1. SUFFICES ASSUME NEW j \in DOMAIN e, j # i, h[j] > 0 PROVE FALSE
      BY <1>1
    <3> HIDE DEF h
    <3> QED
      BY <1>2, <2>1, <3>1 DEF OneIn
  <2>3. h[i] <= Size
    BY <1>2, <2>1
  <2> HIDE DEF h
  <2>4. SumFunctionOnSet(h, DOMAIN e) <= h[i] /\ SumFunctionOnSet(h, DOMAIN e) \in Int
    BY <1>1, <2>1, <2>2, SumAtMost, SumFacts
  <2> QED
    BY <1>1, <2>3, <2>4, SizeAssumption DEF NetSum, h
<1> QED
  BY <1>3, <1>4

(* The rows add up to something only if an entry has bought.               *)
LEMMA NetFromEntry ==
  ASSUME NEW e \in Seq(OrderRow), NEW b \in Books(e), NetSum(e, b) > 0
  PROVE  \E i \in DOMAIN b : e[i].side = "entry" /\ b[i].status # "open" /\ b[i].filled > 0
<1> DEFINE h == Ledger(e, b)
<1>1. IsFiniteSet(DOMAIN e) /\ (\A i \in DOMAIN e : h[i] \in Int) /\ NetSum(e, b) \in Int
  BY NetIsSum
<1>2. PICK i \in DOMAIN e : ~(h[i] <= 0)
  <2> HIDE DEF h
  <2>1. SUFFICES ASSUME \A i \in DOMAIN e : h[i] <= 0 PROVE FALSE
    OBVIOUS
  <2>2. SumFunctionOnSet(h, DOMAIN e) <= 0
    BY <1>1, <2>1, SumNotPositive
  <2> QED
    BY <1>1, <2>2 DEF NetSum, h
<1>3. i \in DOMAIN b /\ h[i] = Worth(e[i], b[i]) /\ h[i] \in Int
  BY <1>1, <1>2, LedgerIs
<1>4. b[i].filled \in 0 .. Size
  BY <1>3, BookFacts
<1> HIDE DEF h
<1> QED
  BY <1>2, <1>3, <1>4 DEF Worth

-----------------------------------------------------------------------------
(* An answer written to the rows.                                          *)
SameSides(e, f) ==
  /\ DOMAIN f = DOMAIN e
  /\ \A i \in DOMAIN e : e[i].side = "entry" <=> f[i].side = "entry"

LEMMA NetSameSides ==
  ASSUME NEW e \in Seq(OrderRow), NEW f \in Seq(OrderRow), SameSides(e, f), NEW b \in Books(e)
  PROVE  NetIn(f, b) = NetIn(e, b) /\ b \in Books(f)
<1>1. \A i \in DOMAIN b : i \in DOMAIN e /\ i \in DOMAIN f
  BY BookFacts DEF SameSides
<1>2. \A i \in DOMAIN b : e[i].side \in {"entry", "exit", "stop"} /\ f[i].side \in {"entry", "exit", "stop"}
  BY <1>1, OrderFacts
<1>3. \A i \in DOMAIN b : /\ e[i].side \in {"entry"} <=> f[i].side \in {"entry"}
                          /\ e[i].side \in {"exit", "stop"} <=> f[i].side \in {"exit", "stop"}
  BY <1>1, <1>2 DEF SameSides
<1>4. /\ DoneIn(f, b, {"entry"}) = DoneIn(e, b, {"entry"})
      /\ DoneIn(f, b, {"exit", "stop"}) = DoneIn(e, b, {"exit", "stop"})
  BY <1>3 DEF DoneIn
<1>5. b \in Books(f)
  BY DEF Books, SameSides
<1> QED
  BY <1>4, <1>5 DEF NetIn

LEMMA UpdatedFacts ==
  ASSUME exch \in Seq(OrderRow), NEW e \in Seq(OrderRow), SameSides(exch, e),
         NEW d \in DbRow(e), NEW i \in DOMAIN e, NEW v \in Views, NEW again \in BOOLEAN
  PROVE  LET u == Updated(d, i, v, again)
             net == NetIn(e, u.book)
         IN  /\ u \in DbRow(e) /\ u.life \in {d.life, "closed"}
             /\ DOMAIN u.book = DOMAIN d.book \cup {i}
             /\ \A j \in DOMAIN u.book : u.book[j] = IF j = i THEN v ELSE d.book[j]
             /\ v.status = "open" \/ v.filled = 0 => u.amount = d.amount /\ u.life = d.life
             /\ v.status # "open" /\ v.filled # 0 /\ e[i].side = "entry" =>
                  u.life = d.life /\ u.amount = IF net > 0 THEN net ELSE v.filled
             /\ v.status # "open" /\ v.filled # 0 /\ e[i].side # "entry" =>
                  \/ Closes(d, v, again) /\ u.life = "closed" /\ u.amount = d.amount
                  \/ ~Closes(d, v, again) /\ u.life = d.life
                     /\ u.amount = IF net > 0 THEN net ELSE d.amount
             /\ d.amount > 0 => u.amount > 0
<1> DEFINE book == [j \in DOMAIN d.book \cup {i} |-> IF j = i THEN v ELSE d.book[j]]
           kept == [d EXCEPT !.book = book]
           u == Updated(d, i, v, again)
           n == Net(book)
<1>1. d.life \in Lives /\ d.amount \in Nat /\ d.book \in Books(e)
  BY DEF DbRow
<1>2. book \in Books(e)
  <2>1. DOMAIN d.book \cup {i} \in SUBSET DOMAIN e /\ \A j \in DOMAIN d.book : d.book[j] \in Views
    BY <1>1, BookFacts
  <2>2. book \in [DOMAIN d.book \cup {i} -> Views]
    BY <2>1
  <2> HIDE DEF book
  <2> QED
    BY <2>1, <2>2 DEF Books
<1>3. /\ DOMAIN book = DOMAIN d.book \cup {i}
      /\ \A j \in DOMAIN book : book[j] = IF j = i THEN v ELSE d.book[j]
  OBVIOUS
<1>4. n = NetIn(e, book) /\ n \in Int
  <2> HIDE DEF book
  <2>1. book \in Books(exch)
    BY <1>2 DEF SameSides, Books
  <2> QED
    BY <1>2, <2>1, NetIs, NetSameSides, NetIsSum
<1>5. v.filled \in Nat /\ v.status \in {"open", "closed", "canceled"}
  BY SizeAssumption DEF Views
<1>6. u = IF v.status = "open" \/ v.filled = 0 THEN kept
          ELSE IF exch[i].side = "entry"
          THEN [kept EXCEPT !.amount = Recalculated([d EXCEPT !.amount = v.filled], book)]
          ELSE IF Closes(d, v, again) THEN [kept EXCEPT !.life = "closed"]
          ELSE [kept EXCEPT !.amount = Recalculated(d, book)]
  BY DEF Updated
<1> HIDE DEF book, u
<1>7. kept = [life |-> d.life, amount |-> d.amount, book |-> book]
  BY <1>1 DEF DbRow
<1>8. Recalculated([d EXCEPT !.amount = v.filled], book) = IF n > 0 THEN n ELSE v.filled
  BY DEF Recalculated, DbRow
<1>9. Recalculated(d, book) = IF n > 0 THEN n ELSE d.amount
  BY DEF Recalculated
<1>10. exch[i].side = "entry" <=> e[i].side = "entry"
  BY DEF SameSides
<1> HIDE DEF kept, n
<1>11. ASSUME NEW l \in Lives, NEW a \in Nat
       PROVE  [life |-> l, amount |-> a, book |-> book] \in DbRow(e)
  BY <1>2 DEF DbRow
<1>12. CASE v.status = "open" \/ v.filled = 0
  <2>1. u = [life |-> d.life, amount |-> d.amount, book |-> book]
    BY <1>6, <1>7, <1>12
  <2> QED
    BY <1>1, <1>3, <1>11, <1>12, <2>1 DEF u
<1>13. CASE ~(v.status = "open" \/ v.filled = 0) /\ e[i].side = "entry"
  <2> DEFINE a == IF n > 0 THEN n ELSE v.filled
  <2>1. u = [life |-> d.life, amount |-> a, book |-> book]
    BY <1>6, <1>7, <1>8, <1>10, <1>13
  <2>2. a \in Nat /\ a > 0
    BY <1>4, <1>5, <1>13
  <2>3. u.life = d.life /\ u.amount = a /\ u.book = book /\ u \in DbRow(e)
    BY <1>1, <1>11, <2>1, <2>2
  <2> QED
    BY <1>3, <1>4, <1>13, <2>2, <2>3 DEF u
<1>14. CASE ~(v.status = "open" \/ v.filled = 0) /\ e[i].side # "entry" /\ Closes(d, v, again)
  <2>1. u = [life |-> "closed", amount |-> d.amount, book |-> book]
    BY <1>6, <1>7, <1>10, <1>14
  <2>2. u.life = "closed" /\ u.amount = d.amount /\ u.book = book /\ u \in DbRow(e)
    BY <1>1, <1>11, <2>1 DEF Lives
  <2> QED
    BY <1>3, <1>14, <2>2 DEF u
<1>15. CASE ~(v.status = "open" \/ v.filled = 0) /\ e[i].side # "entry" /\ ~Closes(d, v, again)
  <2> DEFINE a == IF n > 0 THEN n ELSE d.amount
  <2>1. u = [life |-> d.life, amount |-> a, book |-> book]
    BY <1>6, <1>7, <1>9, <1>10, <1>15
  <2>2. a \in Nat
    BY <1>1, <1>4
  <2>3. u.life = d.life /\ u.amount = a /\ u.book = book /\ u \in DbRow(e)
    BY <1>1, <1>11, <2>1, <2>2
  <2> QED
    BY <1>3, <1>4, <1>15, <2>3 DEF u
<1> QED
  BY <1>12, <1>13, <1>14, <1>15

(* What holds after each of the updates holds after all of them.           *)
LEMMA AllUpdatedIn ==
  ASSUME NEW L \in Nat, L = Len(exch), NEW D, NEW d \in D[0], NEW said, NEW again,
         \A n \in 1 .. L : \A x \in D[n - 1] :
           (IF n \in DOMAIN said THEN Updated(x, n, said[n], again) ELSE x) \in D[n]
  PROVE  AllUpdated(d, said, again) \in D[L]
<1> DEFINE Then(x, n) == IF n \in DOMAIN said THEN Updated(x, n, said[n], again) ELSE x
           Is(g, m) == g = [n \in 0 .. m |-> IF n = 0 THEN d ELSE Then(g[n - 1], n)]
           T == {m \in Nat : \E g : Is(g, m)}
           upTo == CHOOSE g : Is(g, L)
<1>1. AllUpdated(d, said, again) = upTo[L]
  <2>1. \A g : Is(g, L) <=>
          g = [n \in 0 .. Len(exch) |->
                 IF n = 0 THEN d
                 ELSE IF n \in DOMAIN said THEN Updated(g[n - 1], n, said[n], again) ELSE g[n - 1]]
    OBVIOUS
  <2> QED
    BY DEF AllUpdated
<1>2. \A n \in 1 .. L : \A x \in D[n - 1] : Then(x, n) \in D[n]
  OBVIOUS
<1> HIDE DEF Then
<1>3. 0 \in T
  <2>1. Is([n \in 0 .. 0 |-> d], 0)
    OBVIOUS
  <2> QED
    BY <2>1
<1>4. ASSUME NEW m \in Nat, m \in T PROVE m + 1 \in T
  <2>1. PICK g : Is(g, m)
    BY <1>4
  <2>2. /\ g = [n \in 0 .. m |-> g[n]] /\ g[0] = d
        /\ \A n \in 1 .. m : g[n] = Then(g[n - 1], n)
    BY <2>1
  <2> DEFINE h == [n \in 0 .. m + 1 |-> IF n = m + 1 THEN Then(g[m], m + 1) ELSE g[n]]
             k == [n \in 0 .. m + 1 |-> IF n = 0 THEN d ELSE Then(h[n - 1], n)]
  <2>3. ASSUME NEW n \in 0 .. m + 1 PROVE h[n] = k[n]
    <3>1. CASE n = 0
      BY <2>2, <3>1
    <3>2. CASE n = m + 1
      <4>1. m \in 0 .. m + 1 /\ m # m + 1 /\ n - 1 = m /\ n # 0
        BY <3>2
      <4>2. h[m] = g[m]
        BY <4>1
      <4>3. h[n] = Then(g[m], m + 1) /\ k[n] = Then(h[n - 1], n)
        BY <3>2, <4>1
      <4> QED
        BY <3>2, <4>1, <4>2, <4>3
    <3>3. CASE n \in 1 .. m
      <4>1. n - 1 \in 0 .. m + 1 /\ n - 1 # m + 1 /\ n # m + 1 /\ n # 0
        BY <3>3
      <4>2. h[n - 1] = g[n - 1] /\ h[n] = g[n] /\ k[n] = Then(h[n - 1], n)
        BY <4>1
      <4> QED
        BY <2>2, <3>3, <4>2
    <3> QED
      BY <3>1, <3>2, <3>3
  <2>4. h = k
    BY <2>3
  <2>5. Is(h, m + 1)
    BY <2>4
  <2> HIDE DEF h, Is
  <2> QED
    BY <2>5
<1>5. L \in T
  <2> HIDE DEF T
  <2> QED
    BY <1>3, <1>4, NumberInduction
<1>6. Is(upTo, L)
  <2>1. \E g : Is(g, L)
    BY <1>5
  <2> HIDE DEF Is
  <2> QED
    BY <2>1
<1> HIDE DEF upTo
<1>7. upTo[0] = d /\ \A n \in 1 .. L : upTo[n] = Then(upTo[n - 1], n)
  BY <1>6
<1> DEFINE N == {n \in Nat : n <= L => upTo[n] \in D[n]}
<1>8. 0 \in N
  BY <1>7
<1>9. ASSUME NEW n \in Nat, n \in N PROVE n + 1 \in N
  <2>1. SUFFICES ASSUME n + 1 <= L PROVE upTo[n + 1] \in D[n + 1]
    OBVIOUS
  <2>2. n + 1 \in 1 .. L /\ (n + 1) - 1 = n /\ n <= L
    BY <2>1
  <2>3. upTo[n + 1] = Then(upTo[n], n + 1) /\ upTo[n] \in D[(n + 1) - 1]
    BY <1>7, <1>9, <2>2
  <2> QED
    BY <1>2, <2>2, <2>3
<1>10. L \in N
  <2> HIDE DEF N
  <2> QED
    BY <1>8, <1>9, NumberInduction
<1> QED
  BY <1>1, <1>10

-----------------------------------------------------------------------------
(* The trade and its rows, whatever was lost.                              *)
Counted(e, d) == d.life = "open" /\ NetIn(e, d.book) > 0 => d.amount = NetIn(e, d.book)
Good(e, d) ==
  /\ d \in DbRow(e) /\ d.amount <= Size
  /\ RowsOK(e, d.book) /\ OneIn(e, DOMAIN d.book) /\ Counted(e, d)

LEMMA DbFacts ==
  ASSUME NEW e, NEW d \in DbRow(e)
  PROVE  d.life \in Lives /\ d.amount \in Nat /\ d.book \in Books(e) /\ DOMAIN d.book \subseteq DOMAIN e
BY BookFacts DEF DbRow

LEMMA SameWindow ==
  ASSUME NEW e \in Seq(OrderRow), NEW C, NEW D, C \subseteq D, D \subseteq WindowOf(e, C), OneIn(e, C)
  PROVE  OneIn(e, D) /\ WindowOf(e, D) = WindowOf(e, C)
<1>1. WindowOf(e, D) = WindowOf(e, C)
  <2>1. WindowOf(e, C) \subseteq DOMAIN e /\ WindowOf(e, D) \subseteq DOMAIN e /\ DOMAIN e \subseteq Nat
    BY OrderFacts DEF WindowOf
  <2>2. ASSUME NEW i \in WindowOf(e, D) PROVE i \in WindowOf(e, C)
    <3>1. PICK k \in D : k <= i
      BY DEF WindowOf
    <3>2. PICK c \in C : c <= k
      BY DEF WindowOf
    <3>3. i \in Nat /\ k \in Nat /\ c \in Nat /\ i \in DOMAIN e
      BY <2>1
    <3> QED
      BY <3>1, <3>2, <3>3 DEF WindowOf
  <2>3. ASSUME NEW i \in WindowOf(e, C) PROVE i \in WindowOf(e, D)
    BY DEF WindowOf
  <2> QED
    BY <2>2, <2>3
<1> QED
  BY <1>1 DEF OneIn

(* Rows that differ only in what adds nothing add up to the same.          *)
LEMMA SameNet ==
  ASSUME NEW e \in Seq(OrderRow), NEW f \in Seq(OrderRow), SameSides(e, f),
         NEW b \in Books(e), NEW c \in Books(f), DOMAIN b \subseteq DOMAIN c,
         \A i \in DOMAIN c :
           \/ i \in DOMAIN b /\ c[i] = b[i]
           \/ (i \in DOMAIN b => b[i].status = "open") /\ (c[i].status = "open" \/ c[i].filled = 0)
  PROVE  NetIn(f, c) = NetIn(e, b)
<1>1. IsFiniteSet(DOMAIN e) /\ DOMAIN f = DOMAIN e
  BY NetIsSum DEF SameSides
<1>2. ASSUME NEW i \in DOMAIN e PROVE Ledger(f, c)[i] = Ledger(e, b)[i]
  <2>1. i \in DOMAIN f
    BY <1>1
  <2>2. /\ Ledger(f, c)[i] = IF i \in DOMAIN c THEN Worth(f[i], c[i]) ELSE 0
        /\ Ledger(e, b)[i] = IF i \in DOMAIN b THEN Worth(e[i], b[i]) ELSE 0
    BY <2>1, LedgerIs
  <2>3. CASE i \notin DOMAIN c
    BY <2>2, <2>3
  <2>4. CASE i \in DOMAIN c /\ i \in DOMAIN b /\ c[i] = b[i]
    BY <2>2, <2>4 DEF Worth, SameSides
  <2>5. CASE /\ i \in DOMAIN c /\ (i \in DOMAIN b => b[i].status = "open")
             /\ c[i].status = "open" \/ c[i].filled = 0
    BY <2>2, <2>5 DEF Worth
  <2> QED
    BY <2>3, <2>4, <2>5
<1>3. SumFunctionOnSet(Ledger(f, c), DOMAIN e) = SumFunctionOnSet(Ledger(e, b), DOMAIN e)
  BY <1>1, <1>2, SumSame
<1> QED
  BY <1>1, <1>3, NetIsSum DEF NetSum

LEMMA GoodUpdated ==
  ASSUME exch \in Seq(OrderRow), NEW e \in Seq(OrderRow), SameSides(exch, e),
         NEW d, Good(e, d), NEW i \in DOMAIN e, NEW v \in Views, NEW again \in BOOLEAN,
         v.status # "open" => v = ViewOf(e, i),
         v.status = "open" /\ i \in DOMAIN d.book => d.book[i].status = "open",
         OneIn(e, DOMAIN d.book \cup {i})
  PROVE  Good(e, Updated(d, i, v, again))
<1> DEFINE u == Updated(d, i, v, again)
           net == NetIn(e, u.book)
<1>1. d \in DbRow(e) /\ d.amount <= Size /\ RowsOK(e, d.book) /\ d.amount \in Nat /\ d.book \in Books(e)
  BY DbFacts DEF Good
<1>2. /\ u \in DbRow(e) /\ u.life \in {d.life, "closed"}
      /\ DOMAIN u.book = DOMAIN d.book \cup {i}
      /\ \A j \in DOMAIN u.book : u.book[j] = IF j = i THEN v ELSE d.book[j]
      /\ v.status = "open" \/ v.filled = 0 => u.amount = d.amount /\ u.life = d.life
      /\ v.status # "open" /\ v.filled # 0 /\ e[i].side = "entry" =>
           u.life = d.life /\ u.amount = IF net > 0 THEN net ELSE v.filled
      /\ v.status # "open" /\ v.filled # 0 /\ e[i].side # "entry" =>
           \/ Closes(d, v, again) /\ u.life = "closed" /\ u.amount = d.amount
           \/ ~Closes(d, v, again) /\ u.life = d.life
              /\ u.amount = IF net > 0 THEN net ELSE d.amount
  BY <1>1, UpdatedFacts
<1> HIDE DEF u
<1>3. RowsOK(e, u.book)
  BY <1>1, <1>2 DEF RowsOK
<1>4. OneIn(e, DOMAIN u.book)
  BY <1>2
<1>5. u.book \in Books(e)
  BY <1>2, DbFacts
<1>6. net \in Int /\ net <= Size
  BY <1>3, <1>4, <1>5, NetIsSum, NetAtMostSize
<1>7. v.filled \in 0 .. Size
  BY DEF Views
<1>8. u.amount <= Size
  BY <1>1, <1>2, <1>6, <1>7, SizeAssumption
<1>9. Counted(e, u)
  <2>1. CASE v.status = "open" \/ v.filled = 0
    <3>1. SameSides(e, e)
      BY DEF SameSides
    <3>2. ASSUME NEW j \in DOMAIN u.book
          PROVE  \/ j \in DOMAIN d.book /\ u.book[j] = d.book[j]
                 \/ (j \in DOMAIN d.book => d.book[j].status = "open")
                    /\ (u.book[j].status = "open" \/ u.book[j].filled = 0)
      <4>1. CASE j # i
        BY <1>2, <4>1
      <4>2. CASE j = i /\ (i \in DOMAIN d.book => d.book[i].status = "open")
        BY <1>2, <2>1, <4>2
      <4>3. CASE j = i /\ i \in DOMAIN d.book /\ d.book[i].status # "open"
        BY <1>1, <1>2, <4>3 DEF RowsOK
      <4> QED
        BY <4>1, <4>2, <4>3
    <3>3. net = NetIn(e, d.book)
      BY <1>1, <1>2, <1>5, <3>1, <3>2, SameNet
    <3> QED
      BY <1>2, <2>1, <3>3 DEF Good, Counted
  <2>2. CASE v.status # "open" /\ v.filled # 0
    BY <1>2, <2>2 DEF Counted
  <2> QED
    BY <2>1, <2>2
<1> QED
  BY <1>2, <1>3, <1>4, <1>8, <1>9 DEF Good, u

LEMMA GoodAll ==
  ASSUME exch \in Seq(OrderRow), NEW e \in Seq(OrderRow), SameSides(exch, e), NEW d, Good(e, d),
         NEW again \in BOOLEAN, NEW said, NEW S, S = DOMAIN said, S \subseteq WindowOf(e, DOMAIN d.book),
         \A i \in S : said[i] = ViewOf(e, i)
  PROVE  LET u == AllUpdated(d, said, again)
         IN  /\ Good(e, u) /\ u.life \in {d.life, "closed"} /\ (S = {} => u = d)
             /\ DOMAIN u.book = DOMAIN d.book \cup S
             /\ \A i \in S : u.book[i] = said[i]
             /\ \A i \in DOMAIN d.book \ S : u.book[i] = d.book[i]
             /\ d.amount > 0 => u.amount > 0
<1> DEFINE L == Len(exch)
           B == DOMAIN d.book
           In(n, x) ==
             /\ Good(e, x) /\ x.life \in {d.life, "closed"} /\ (S = {} => x = d)
             /\ DOMAIN x.book = B \cup {i \in S : i <= n}
             /\ \A i \in S : i <= n => x.book[i] = said[i]
             /\ \A i \in B : i \notin S \/ i > n => x.book[i] = d.book[i]
             /\ d.amount > 0 => x.amount > 0
           D == [n \in 0 .. L |-> {x \in DbRow(e) : In(n, x)}]
<1>1. L \in Nat /\ DOMAIN e = 1 .. L /\ S \subseteq 1 .. L /\ B \subseteq 1 .. L
  BY DbFacts DEF WindowOf, Good, SameSides
<1>2. d \in D[0]
  <2>1. {i \in S : i <= 0} = {} /\ d \in DbRow(e)
    BY <1>1 DEF Good
  <2>2. In(0, d)
    BY <1>1, <2>1
  <2> HIDE DEF In
  <2> QED
    BY <1>1, <2>1, <2>2
<1>3. ASSUME NEW n \in 1 .. L, NEW x \in D[n - 1]
      PROVE  (IF n \in DOMAIN said THEN Updated(x, n, said[n], again) ELSE x) \in D[n]
  <2>1. x \in DbRow(e) /\ In(n - 1, x)
    <3> HIDE DEF In
    <3> QED
      BY <1>1
  <2>2. \A m \in 0 .. L : \A y \in DbRow(e) : In(m, y) => y \in D[m]
    <3> HIDE DEF In
    <3> QED
      OBVIOUS
  <2>3. n \in 0 .. L
    BY <1>1
  <2>4. CASE n \notin S
    <3>1. {i \in S : i <= n - 1} = {i \in S : i <= n}
      BY <1>1, <2>4
    <3>2. \A i \in S : i <= n => i <= n - 1
      BY <1>1, <2>4
    <3>3. \A i \in B : i \notin S \/ i > n => i \notin S \/ i > n - 1
      BY <1>1
    <3>4. In(n, x)
      BY <2>1, <3>1, <3>2, <3>3
    <3> HIDE DEF In, D
    <3> QED
      BY <2>1, <2>2, <2>3, <2>4, <3>4
  <2>5. CASE n \in S
    <3> DEFINE v == said[n]
               u == Updated(x, n, v, again)
    <3>1. v = ViewOf(e, n) /\ v \in Views /\ n \in DOMAIN e
      BY <1>1, <2>5, OrderFacts
    <3>2. Good(e, x) /\ x \in DbRow(e)
      BY <2>1
    <3>3. OneIn(e, DOMAIN x.book \cup {n})
      <4> DEFINE C == DOMAIN x.book \cup {n}
      <4>1. B \subseteq C /\ C \subseteq B \cup S
        BY <2>1, <2>5
      <4>2. B \subseteq WindowOf(e, B)
        BY <1>1 DEF WindowOf
      <4>3. OneIn(e, B)
        BY DEF Good
      <4> HIDE DEF B, C
      <4>4. C \subseteq WindowOf(e, B)
        BY <4>1, <4>2 DEF B
      <4>5. OneIn(e, C)
        BY <4>1, <4>3, <4>4, SameWindow
      <4> QED
        BY <4>5 DEF C
    <3>4. n \in DOMAIN x.book => x.book[n] = d.book[n] /\ n \in B
      BY <1>1, <2>1
    <3>5. v.status = "open" /\ n \in DOMAIN x.book => x.book[n].status = "open"
      <4>1. ASSUME v.status = "open", n \in DOMAIN x.book, x.book[n].status # "open" PROVE FALSE
        <5>1. x.book[n] = ViewOf(e, n)
          BY <3>2, <4>1 DEF Good, RowsOK
        <5> QED
          BY <3>1, <4>1, <5>1
      <4> QED
        BY <4>1
    <3> HIDE DEF v
    <3>6. Good(e, u)
      BY <3>1, <3>2, <3>3, <3>5, GoodUpdated DEF v
    <3>7. /\ u \in DbRow(e) /\ u.life \in {x.life, "closed"}
          /\ DOMAIN u.book = DOMAIN x.book \cup {n}
          /\ \A j \in DOMAIN u.book : u.book[j] = IF j = n THEN v ELSE x.book[j]
          /\ x.amount > 0 => u.amount > 0
      BY <3>1, <3>2, UpdatedFacts
    <3> HIDE DEF u
    <3>8. B \cup {i \in S : i <= n} = (B \cup {i \in S : i <= n - 1}) \cup {n}
      BY <1>1, <2>5
    <3>9. \A i \in S : i <= n => u.book[i] = said[i]
      <4>1. SUFFICES ASSUME NEW i \in S, i <= n PROVE u.book[i] = said[i]
        OBVIOUS
      <4>2. CASE i = n
        BY <3>7, <4>2 DEF v
      <4>3. CASE i # n
        <5>1. i <= n - 1 /\ i \in DOMAIN x.book
          BY <1>1, <2>1, <4>1, <4>3
        <5> QED
          BY <2>1, <3>7, <4>3, <5>1
      <4> QED
        BY <4>2, <4>3
    <3>10. \A i \in B : i \notin S \/ i > n => u.book[i] = d.book[i]
      <4>1. SUFFICES ASSUME NEW i \in B, i \notin S \/ i > n PROVE u.book[i] = d.book[i]
        OBVIOUS
      <4>2. i # n /\ (i \notin S \/ i > n - 1) /\ i \in DOMAIN x.book
        BY <1>1, <2>1, <2>5, <4>1
      <4> QED
        BY <2>1, <3>7, <4>2
    <3>11. u.life \in {d.life, "closed"} /\ S # {} /\ DOMAIN u.book = B \cup {i \in S : i <= n}
      BY <2>1, <2>5, <3>7, <3>8
    <3>12. In(n, u)
      BY <2>1, <3>6, <3>7, <3>9, <3>10, <3>11
    <3>13. u = Updated(x, n, said[n], again)
      BY DEF u, v
    <3> HIDE DEF In, D
    <3> QED
      BY <2>2, <2>3, <2>5, <3>7, <3>12, <3>13
  <2> QED
    BY <2>4, <2>5
<1>4. AllUpdated(d, said, again) \in D[L]
  <2> HIDE DEF D
  <2> QED
    BY <1>1, <1>2, <1>3, AllUpdatedIn
<1>5. In(L, AllUpdated(d, said, again))
  <2> HIDE DEF In
  <2> QED
    BY <1>1, <1>4
<1> HIDE DEF In, D
<1>6. \A i \in S : i <= L
  BY <1>1
<1>7. {i \in S : i <= L} = S
  BY <1>6
<1>8. \A i \in B \ S : i \notin S \/ i > L
  OBVIOUS
<1> QED
  BY <1>5, <1>6, <1>7, <1>8 DEF In

-----------------------------------------------------------------------------
(* What orders do at the exchange: they fill, or end, and what has ended   *)
(* stays; a stop that is read again may be kept as an exit.                *)
Moves(e, f) ==
  /\ DOMAIN f = DOMAIN e
  /\ \A i \in DOMAIN e :
       /\ f[i].amount = e[i].amount
       /\ f[i].side = e[i].side \/ (e[i].side = "stop" /\ f[i].side = "exit")
       /\ e[i].status # "open" => ViewOf(f, i) = ViewOf(e, i)

(* The invariant of the rows, the orders and the thread, of any values of  *)
(* theirs, so that a step can be taken apart: first the exchange, then the *)
(* rows, then the thread.                                                  *)
RowsIn(e, d, l) ==
  /\ l \subseteq DOMAIN e
  /\ d.life \notin Gone => DOMAIN e \subseteq DOMAIN d.book \cup l
  /\ d.life \in {"open", "closed"} <=> DOMAIN d.book # {}

DoingRow ==
  [at : {"idle", "startup", "empty", "again", "trail", "urgent", "limit", "place", "market", "sent"},
   id : Nat, amount : 0 .. Size, answer : Views]

(* A step under way fits the trade.  A trade that has an order that sells, *)
(* or a step towards one, has an amount.                                   *)
SentIn(e, d, l, g) ==
  /\ g.id = Len(e) /\ g.id \in l /\ g.id \notin DOMAIN d.book
  /\ g.answer.status # "open" => g.answer = ViewOf(e, g.id)
EmptyIn(e, d, g) == g.id \in DOMAIN d.book /\ e[g.id].side = "entry" /\ d.book[g.id] = NoFill
AgainIn(e, d) == \A i \in WindowOf(e, DOMAIN d.book) : e[i].side = "entry" => EmptyAt(e, i)
DoingIn(e, d, l, g) ==
  /\ g \in DoingRow /\ g.id <= Len(e)
  /\ d.life \in Gone => g.at \in {"idle", "startup"}
  /\ d.life = "none" => g.at \in {"idle", "startup", "sent"}
  /\ d.life = "closed" => g.at \notin {"again", "empty", "trail"}
  /\ g.at \in {"place", "market", "again"} => g.amount > 0
  /\ g.at = "idle" => g = Idle
  /\ g.at = "sent" => SentIn(e, d, l, g)
  /\ g.at = "empty" => EmptyIn(e, d, g)
  /\ g.at = "again" => AgainIn(e, d)
AmountIn(e, d, g) ==
  (\E i \in DOMAIN e : e[i].side \in Sells) \/ g.at \in {"trail", "urgent", "limit", "place", "market"} =>
    d.amount > 0

BaseAt(e, d, l, g) ==
  /\ e \in Seq(OrderRow) /\ Good(e, d) /\ RowsIn(e, d, l)
  /\ DoingIn(e, d, l, g) /\ AmountIn(e, d, g)
Base == BaseAt(exch, db, lost, doing) /\ crashes \in 0 .. MaxCrashes

LEMMA MovesFacts ==
  ASSUME NEW e \in Seq(OrderRow), NEW f \in Seq(OrderRow), Moves(e, f)
  PROVE  /\ SameSides(e, f) /\ SameSides(f, e) /\ Len(f) = Len(e) /\ DOMAIN f = DOMAIN e
         /\ \A D : WindowOf(f, D) = WindowOf(e, D)
         /\ \A i \in DOMAIN e : /\ EmptyAt(e, i) => EmptyAt(f, i)
                                /\ e[i].side = "entry" <=> f[i].side = "entry"
                                /\ e[i].side \in Sells <=> f[i].side \in Sells
                                /\ f[i].side = "stop" => e[i].side = "stop"
                                /\ f[i].status = "open" => e[i].status = "open"
<1>1. DOMAIN f = DOMAIN e /\ Len(f) = Len(e)
  <2>1. Len(e) \in Nat /\ Len(f) \in Nat /\ DOMAIN e = 1 .. Len(e) /\ DOMAIN f = 1 .. Len(f)
    OBVIOUS
  <2> QED
    BY <2>1 DEF Moves
<1>2. ASSUME NEW i \in DOMAIN e
      PROVE  /\ EmptyAt(e, i) => EmptyAt(f, i)
             /\ e[i].side = "entry" <=> f[i].side = "entry"
             /\ e[i].side \in Sells <=> f[i].side \in Sells
             /\ f[i].side = "stop" => e[i].side = "stop"
             /\ f[i].status = "open" => e[i].status = "open"
  <2>1. f[i].side = e[i].side \/ (e[i].side = "stop" /\ f[i].side = "exit")
    BY DEF Moves
  <2>2. e[i].status # "open" => f[i].status = e[i].status /\ f[i].filled = e[i].filled
    BY DEF Moves, ViewOf
  <2>3. EmptyAt(e, i) => e[i].status = "canceled" /\ e[i].filled = 0
    BY DEF EmptyAt, ViewOf, NoFill
  <2> QED
    BY <2>1, <2>2, <2>3 DEF Sells, EmptyAt, ViewOf, NoFill
<1>3. SameSides(e, f) /\ SameSides(f, e)
  BY <1>1, <1>2 DEF SameSides
<1> QED
  BY <1>1, <1>2, <1>3 DEF WindowOf

LEMMA GoodMoves ==
  ASSUME NEW e \in Seq(OrderRow), NEW f \in Seq(OrderRow), Moves(e, f), NEW d, Good(e, d)
  PROVE  Good(f, d)
<1>1. d.book \in Books(e) /\ DOMAIN d.book \subseteq DOMAIN e /\ d \in DbRow(e)
  BY DbFacts DEF Good
<1>2. NetIn(f, d.book) = NetIn(e, d.book)
  BY <1>1, MovesFacts, NetSameSides
<1>3. d \in DbRow(f)
  BY <1>1, MovesFacts DEF DbRow, Books
<1>4. RowsOK(f, d.book)
  <2>1. SUFFICES ASSUME NEW i \in DOMAIN d.book, d.book[i].status # "open" PROVE d.book[i] = ViewOf(f, i)
    BY DEF RowsOK
  <2>2. d.book[i] = ViewOf(e, i)
    BY <2>1 DEF Good, RowsOK
  <2>3. e[i].status # "open" /\ i \in DOMAIN e
    BY <1>1, <2>1, <2>2 DEF ViewOf
  <2> QED
    BY <2>2, <2>3 DEF Moves
<1>5. OneIn(f, DOMAIN d.book)
  <2>1. \A i \in WindowOf(e, DOMAIN d.book) : i \in DOMAIN e
    BY DEF WindowOf
  <2> QED
    BY <2>1, MovesFacts DEF Good, OneIn
<1> QED
  BY <1>2, <1>3, <1>4, <1>5 DEF Good, Counted

LEMMA MoveKeeps ==
  ASSUME NEW e, NEW f \in Seq(OrderRow), Moves(e, f), NEW d, NEW l, NEW g, BaseAt(e, d, l, g)
  PROVE  BaseAt(f, d, l, g)
<1>1. e \in Seq(OrderRow) /\ Good(f, d) /\ DOMAIN d.book \subseteq DOMAIN e
  BY GoodMoves, DbFacts DEF BaseAt, Good
<1>2. RowsIn(f, d, l)
  BY <1>1, MovesFacts DEF BaseAt, RowsIn
<1>3. DoingIn(f, d, l, g)
  <2>1. DoingIn(e, d, l, g) /\ Len(f) = Len(e)
    BY <1>1, MovesFacts DEF BaseAt
  <2>2. g.at = "sent" => SentIn(f, d, l, g)
    <3>1. SUFFICES ASSUME g.at = "sent" PROVE SentIn(f, d, l, g)
      OBVIOUS
    <3>2. SentIn(e, d, l, g) /\ g.id \in DOMAIN e
      BY <2>1, <3>1 DEF DoingIn, SentIn, BaseAt, RowsIn
    <3>3. g.answer.status # "open" => e[g.id].status # "open"
      BY <3>2 DEF SentIn, ViewOf
    <3> QED
      BY <2>1, <3>2, <3>3 DEF SentIn, Moves
  <2>3. g.at = "empty" => EmptyIn(f, d, g)
    BY <1>1, <2>1, MovesFacts DEF DoingIn, EmptyIn
  <2>4. g.at = "again" => AgainIn(f, d)
    <3>1. \A i \in WindowOf(e, DOMAIN d.book) : i \in DOMAIN e
      BY DEF WindowOf
    <3> QED
      BY <1>1, <2>1, <3>1, MovesFacts DEF DoingIn, AgainIn
  <2> QED
    BY <2>1, <2>2, <2>3, <2>4 DEF DoingIn
<1>4. AmountIn(f, d, g)
  BY <1>1, MovesFacts DEF BaseAt, AmountIn
<1> QED
  BY <1>1, <1>2, <1>3, <1>4 DEF BaseAt

(* What writing answers to the rows leaves true.                           *)
Follows(e, d, u) ==
  /\ Good(e, u) /\ u.life \in {d.life, "closed"} /\ DOMAIN d.book \subseteq DOMAIN u.book
  /\ d.amount > 0 => u.amount > 0

(* The rows are written, and the thread is done or goes on to an exit.     *)
LEMMA DbKeeps ==
  ASSUME NEW e, NEW d, NEW l, NEW g, BaseAt(e, d, l, g),
         NEW u, u = d \/ (d.life \in {"open", "closed"} /\ Follows(e, d, u)), NEW h,
         \/ h = Idle
         \/ /\ h \in DoingRow /\ h.at \in {"urgent", "limit"} /\ h.id = 0 /\ u.amount > 0
            /\ d.life \in {"open", "closed"}
         \/ h = g /\ g.at \in {"place", "market"}
  PROVE  BaseAt(e, u, l, h)
<1>1. /\ Good(e, u) /\ u.life \in {d.life, "closed"} /\ DOMAIN d.book \subseteq DOMAIN u.book
      /\ d.amount > 0 => u.amount > 0
      /\ u = d \/ d.life \in {"open", "closed"}
  BY DEF Follows, BaseAt
<1>2. /\ e \in Seq(OrderRow) /\ Good(e, d) /\ RowsIn(e, d, l) /\ DoingIn(e, d, l, g)
      /\ AmountIn(e, d, g) /\ Len(e) \in Nat
      /\ DOMAIN d.book \subseteq DOMAIN e /\ DOMAIN u.book \subseteq DOMAIN e
  BY <1>1, DbFacts DEF BaseAt, Good
<1>3. Idle \in DoingRow /\ Idle.at = "idle" /\ Idle.id = 0
  BY SizeAssumption DEF Idle, DoingRow, Unsent, Views
<1>4. RowsIn(e, u, l)
  BY <1>1, <1>2 DEF RowsIn, Gone
<1>5. h \in DoingRow /\ h.id <= Len(e)
  BY <1>2, <1>3 DEF DoingIn
<1>6. h = Idle \/ h.at \in {"urgent", "limit"} \/ (h = g /\ g.at \in {"place", "market"})
  OBVIOUS
<1>7. h.at \in {"urgent", "limit", "place", "market"} => u.life \in {"open", "closed"}
  <2>1. h.at # "idle" => d.life \in {"open", "closed"}
    BY <1>2, <1>3, <1>6 DEF DoingIn, Good, DbRow, Lives, Gone
  <2> QED
    BY <1>1, <2>1
<1>8. DoingIn(e, u, l, h)
  BY <1>1, <1>2, <1>3, <1>5, <1>6, <1>7 DEF DoingIn, Gone
<1>9. AmountIn(e, u, h)
  BY <1>1, <1>2, <1>3 DEF AmountIn
<1> QED
  BY <1>1, <1>2, <1>4, <1>8, <1>9 DEF BaseAt

(* What is written is the answer about an order that has a row.            *)
LEMMA WrittenIs ==
  ASSUME exch \in Seq(OrderRow), NEW e \in Seq(OrderRow), SameSides(exch, e), NEW d, Good(e, d),
         NEW i \in DOMAIN d.book, d.book[i].status = "open", NEW v, v = ViewOf(e, i),
         NEW again \in BOOLEAN
  PROVE  Follows(e, d, Updated(d, i, v, again))
<1> DEFINE u == Updated(d, i, v, again)
<1>1. i \in DOMAIN e /\ d \in DbRow(e)
  BY DbFacts DEF Good
<1>2. v \in Views
  BY <1>1, OrderFacts
<1>3. DOMAIN d.book \cup {i} = DOMAIN d.book
  OBVIOUS
<1>4. Good(e, u)
  BY <1>1, <1>2, <1>3, GoodUpdated DEF Good
<1>5. /\ u.life \in {d.life, "closed"} /\ DOMAIN u.book = DOMAIN d.book \cup {i}
      /\ \A j \in DOMAIN u.book : u.book[j] = IF j = i THEN v ELSE d.book[j]
      /\ v.status = "open" \/ v.filled = 0 => u.amount = d.amount /\ u.life = d.life
      /\ d.amount > 0 => u.amount > 0
  BY <1>1, <1>2, UpdatedFacts
<1> HIDE DEF u
<1> QED
  BY <1>3, <1>4, <1>5 DEF u, Follows

(* An order that ended without a fill changes nothing but its row.         *)
LEMMA EmptyWritten ==
  ASSUME NEW d, d = [life |-> d.life, amount |-> d.amount, book |-> d.book],
         NEW D, NEW V, d.book \in [D -> V], NEW i \in D, NEW again
  PROVE  LET u == Updated(d, i, NoFill, again)
         IN  u.life = d.life /\ u.amount = d.amount /\ u.book = [d.book EXCEPT ![i] = NoFill]
<1> DEFINE book == [j \in DOMAIN d.book \cup {i} |-> IF j = i THEN NoFill ELSE d.book[j]]
           u == Updated(d, i, NoFill, again)
<1>1. u = [d EXCEPT !.book = book]
  BY DEF Updated, NoFill
<1> HIDE DEF u
<1>2. u.life = d.life /\ u.amount = d.amount /\ u.book = book
  BY <1>1
<1>3. book = [d.book EXCEPT ![i] = NoFill]
  OBVIOUS
<1> QED
  BY <1>2, <1>3 DEF u

LEMMA EmptyRow ==
  ASSUME NEW e, NEW d \in DbRow(e), NEW i \in DOMAIN d.book, NEW again,
         NEW u, u = Updated(d, i, NoFill, again)
  PROVE  /\ u.life = d.life /\ u.amount = d.amount /\ DOMAIN u.book = DOMAIN d.book
         /\ \A j \in DOMAIN d.book : u.book[j] = IF j = i THEN NoFill ELSE d.book[j]
<1>1. d = [life |-> d.life, amount |-> d.amount, book |-> d.book]
  BY DEF DbRow
<1>2. PICK D : d.book \in [D -> Views] /\ i \in D
  BY DEF DbRow, Books
<1>3. u.life = d.life /\ u.amount = d.amount /\ u.book = [d.book EXCEPT ![i] = NoFill]
  BY <1>1, <1>2, EmptyWritten
<1> QED
  BY <1>3

LEMMA AllWrittenIs ==
  ASSUME exch \in Seq(OrderRow), NEW e \in Seq(OrderRow), SameSides(exch, e), NEW d, Good(e, d),
         NEW again \in BOOLEAN, NEW said, DOMAIN said \subseteq WindowOf(e, DOMAIN d.book),
         \A i \in DOMAIN said : said[i] = ViewOf(e, i)
  PROVE  LET u == AllUpdated(d, said, again)
         IN  Follows(e, d, u) /\ (DOMAIN said = {} => u = d)
BY GoodAll DEF Follows

(* The rows of the trade are gone.                                         *)
LEMMA GoneKeeps ==
  ASSUME NEW e, NEW d, NEW l, NEW g, BaseAt(e, d, l, g), NEW x \in Gone,
         NEW u, u = [life |-> x, amount |-> d.amount, book |-> <<>>]
  PROVE  BaseAt(e, u, l, Idle)
<1>1. /\ e \in Seq(OrderRow) /\ Good(e, d) /\ RowsIn(e, d, l) /\ AmountIn(e, d, g)
      /\ Len(e) \in Nat
  BY DEF BaseAt
<1>2. Idle \in DoingRow /\ Idle.at = "idle" /\ Idle.id = 0
  BY SizeAssumption DEF Idle, DoingRow, Unsent, Views
<1>3. DOMAIN u.book = {} /\ u.book \in [{} -> Views] /\ u.life = x /\ u.amount = d.amount
  OBVIOUS
<1>4. u.book \in Books(e)
  BY <1>3 DEF Books
<1>5. u \in DbRow(e)
  BY <1>1, <1>4 DEF Good, DbRow, Lives, Gone
<1>6. WindowOf(e, DOMAIN u.book) = {}
  BY <1>3 DEF WindowOf
<1>7. Good(e, u)
  BY <1>1, <1>3, <1>5, <1>6 DEF Good, RowsOK, OneIn, Counted, Gone
<1>8. RowsIn(e, u, l)
  BY <1>1, <1>3 DEF RowsIn, Gone
<1>9. DoingIn(e, u, l, Idle)
  BY <1>1, <1>2, <1>3 DEF DoingIn, Gone
<1>10. AmountIn(e, u, Idle)
  BY <1>1, <1>2, <1>3 DEF AmountIn
<1> QED
  BY <1>1, <1>7, <1>8, <1>9, <1>10 DEF BaseAt

(* A new order at the exchange.                                            *)
LEMMA CreateKeeps ==
  ASSUME NEW e, NEW d, NEW l, NEW g, BaseAt(e, d, l, g), d.life \notin Gone,
         NEW o \in OrderRow, NEW f, f = Append(e, o), NEW i, i = Len(e) + 1,
         NEW v, v = [status |-> o.status, filled |-> o.filled],
         NEW h, h = [at |-> "sent", id |-> i, amount |-> 0, answer |-> v],
         o.side = "entry" => AgainIn(e, d),
         o.side \in Sells => d.amount > 0
  PROVE  BaseAt(f, d, l \cup {i}, h)
<1>1. /\ e \in Seq(OrderRow) /\ Good(e, d) /\ RowsIn(e, d, l) /\ AmountIn(e, d, g) /\ DoingIn(e, d, l, g)
      /\ Len(e) \in Nat
      /\ DOMAIN e = 1 .. Len(e) /\ d \in DbRow(e) /\ DOMAIN d.book \subseteq DOMAIN e
  BY DbFacts DEF BaseAt, Good
<1>2. /\ f \in Seq(OrderRow) /\ Len(f) = i /\ DOMAIN f = DOMAIN e \cup {i} /\ i \notin DOMAIN e
      /\ f[i] = o /\ \A j \in DOMAIN e : f[j] = e[j]
  BY <1>1
<1>3. i \in DOMAIN f /\ ViewOf(f, i) = v /\ v \in Views
  BY <1>2, OrderFacts DEF ViewOf
<1>4. d \in DbRow(f)
  BY <1>1, <1>2 DEF DbRow, Books
<1>5. RowsOK(f, d.book)
  BY <1>1, <1>2 DEF Good, RowsOK, ViewOf
<1>6. NetIn(f, d.book) = NetIn(e, d.book)
  <2>1. \A j \in DOMAIN d.book : f[j] = e[j]
    BY <1>1, <1>2
  <2>2. \A s : DoneIn(f, d.book, s) = DoneIn(e, d.book, s)
    BY <2>1 DEF DoneIn
  <2> QED
    BY <2>2 DEF NetIn
<1>7. \A j \in WindowOf(f, DOMAIN d.book) : j = i \/ (j \in WindowOf(e, DOMAIN d.book) /\ j \in DOMAIN e)
  BY <1>2 DEF WindowOf
<1>8. OneIn(f, DOMAIN d.book)
  <2>1. SUFFICES ASSUME NEW j \in WindowOf(f, DOMAIN d.book), NEW k \in WindowOf(f, DOMAIN d.book),
                        f[j].side = "entry", f[k].side = "entry", j # k
                 PROVE  EmptyAt(f, j) \/ EmptyAt(f, k)
    BY DEF OneIn
  <2>2. OneIn(e, DOMAIN d.book)
    BY <1>1 DEF Good
  <2>3. CASE j # i /\ k # i
    BY <1>2, <1>7, <2>1, <2>2, <2>3 DEF OneIn, EmptyAt, ViewOf
  <2>4. CASE j = i \/ k = i
    BY <1>2, <1>7, <2>1, <2>4 DEF AgainIn, EmptyAt, ViewOf
  <2> QED
    BY <2>3, <2>4
<1>9. Good(f, d)
  BY <1>1, <1>4, <1>5, <1>6, <1>8 DEF Good, Counted
<1>10. RowsIn(f, d, l \cup {i})
  BY <1>1, <1>2 DEF RowsIn
<1>11. h \in DoingRow /\ h.at = "sent" /\ h.id = i /\ h.answer = v
  BY <1>1, <1>3, SizeAssumption DEF DoingRow
<1>12. DoingIn(f, d, l \cup {i}, h)
  BY <1>1, <1>2, <1>3, <1>11 DEF DoingIn, SentIn
<1>13. AmountIn(f, d, h)
  BY <1>1, <1>2, <1>11 DEF AmountIn
<1> QED
  BY <1>2, <1>9, <1>10, <1>12, <1>13 DEF BaseAt

LEMMA RowsAfter ==
  ASSUME exch \in Seq(OrderRow), NEW d \in DbRow(exch), NEW i \in DOMAIN exch, NEW v \in Views,
         NEW again \in BOOLEAN, NEW u, u = Updated(d, i, v, again)
  PROVE  /\ u.life \in {d.life, "closed"} /\ DOMAIN u.book = DOMAIN d.book \cup {i}
         /\ d.amount > 0 => u.amount > 0
<1>1. SameSides(exch, exch)
  BY DEF SameSides
<1>2. /\ u.life \in {d.life, "closed"} /\ DOMAIN u.book = DOMAIN d.book \cup {i}
      /\ \A j \in DOMAIN u.book : u.book[j] = IF j = i THEN v ELSE d.book[j]
      /\ d.amount > 0 => u.amount > 0
  BY <1>1, UpdatedFacts
<1> QED
  BY <1>2

(* The row of the order that was placed.                                   *)
LEMMA RecordKeeps ==
  ASSUME NEW d, NEW l, NEW g, BaseAt(exch, d, l, g), g.at = "sent",
         NEW c, c = [d EXCEPT !.life = IF @ = "none" THEN "open" ELSE @]
  PROVE  BaseAt(exch, Updated(c, g.id, g.answer, FALSE), l \ {g.id}, Idle)
<1> DEFINE v == g.answer
           i == g.id
           B == DOMAIN d.book
           u == Updated(c, i, v, FALSE)
<1>1. /\ exch \in Seq(OrderRow) /\ Good(exch, d) /\ RowsIn(exch, d, l) /\ AmountIn(exch, d, g)
      /\ DoingIn(exch, d, l, g) /\ Len(exch) \in Nat
      /\ DOMAIN exch = 1 .. Len(exch) /\ d \in DbRow(exch) /\ B \subseteq DOMAIN exch
      /\ d.life \in Lives /\ d.amount \in Nat /\ d.book \in Books(exch)
  BY DbFacts DEF BaseAt, Good
<1>2. /\ v \in Views /\ i = Len(exch) /\ i \in l /\ i \notin B /\ i \in DOMAIN exch
      /\ v.status # "open" => v = ViewOf(exch, i)
  BY <1>1 DEF DoingIn, SentIn, DoingRow, RowsIn
<1>3. d.life \in {"none", "open", "closed"} /\ (d.life = "none" => B = {})
  BY <1>1 DEF DoingIn, Lives, Gone, RowsIn
<1>4. /\ c.life = IF d.life = "none" THEN "open" ELSE d.life
      /\ c.amount = d.amount /\ c.book = d.book /\ c \in DbRow(exch)
  BY <1>1, <1>3 DEF DbRow, Lives
<1>5. Good(exch, c)
  <2>1. d.life = "none" => NetIn(exch, d.book) = 0
    <3>1. SUFFICES ASSUME B = {} PROVE NetIn(exch, d.book) = 0
      BY <1>3
    <3>2. \A s : DoneIn(exch, d.book, s) = {}
      BY <3>1 DEF DoneIn
    <3>3. SumFunctionOnSet(Filled(d.book), {}) = 0
      BY FS_EmptySet, SumFacts
    <3> QED
      BY <3>2, <3>3 DEF NetIn
  <2> QED
    BY <1>1, <1>4, <2>1 DEF Good, Counted
<1>6. OneIn(exch, B \cup {i})
  <2>1. CASE B = {}
    <3>1. \A j \in WindowOf(exch, B \cup {i}) : j = i
      BY <1>1, <1>2, <2>1 DEF WindowOf
    <3> QED
      BY <3>1 DEF OneIn
  <2>2. CASE B # {}
    <3>1. PICK k \in B : TRUE
      BY <2>2
    <3>2. i \in WindowOf(exch, B) /\ \A j \in B : j \in WindowOf(exch, B)
      BY <1>1, <1>2, <3>1 DEF WindowOf
    <3>3. OneIn(exch, B) /\ B \subseteq B \cup {i} /\ B \cup {i} \subseteq WindowOf(exch, B)
      BY <1>1, <3>2 DEF Good
    <3> HIDE DEF B
    <3> QED
      BY <1>1, <3>3, SameWindow
  <2> QED
    BY <2>1, <2>2
<1>7. SameSides(exch, exch)
  BY DEF SameSides
<1>8. Good(exch, u)
  BY <1>1, <1>2, <1>4, <1>5, <1>6, <1>7, GoodUpdated
<1>9. u.life \in {c.life, "closed"} /\ DOMAIN u.book = B \cup {i} /\ (c.amount > 0 => u.amount > 0)
  <2> HIDE DEF v, i
  <2>1. exch \in Seq(OrderRow) /\ c \in DbRow(exch) /\ i \in DOMAIN exch /\ v \in Views
    BY <1>1, <1>2, <1>4
  <2> DEFINE again == FALSE
  <2>2. again \in BOOLEAN /\ u = Updated(c, i, v, again)
    OBVIOUS
  <2> HIDE DEF u, again
  <2>3. ASSUME NEW x \in DbRow(exch), u = Updated(x, i, v, again)
        PROVE  /\ u.life \in {x.life, "closed"} /\ DOMAIN u.book = DOMAIN x.book \cup {i}
               /\ x.amount > 0 => u.amount > 0
    <3>1. exch \in Seq(OrderRow) /\ i \in DOMAIN exch /\ v \in Views /\ again \in BOOLEAN
      BY <2>1, <2>2
    <3>2. u.life \in {x.life, "closed"}
      BY <2>3, <3>1, RowsAfter
    <3>3. DOMAIN u.book = DOMAIN x.book \cup {i}
      BY <2>3, <3>1, RowsAfter
    <3>4. x.amount > 0 => u.amount > 0
      BY <2>3, <3>1, RowsAfter
    <3> QED
      BY <3>2, <3>3, <3>4
  <2> QED
    BY <1>4, <2>1, <2>2, <2>3
<1> HIDE DEF u
<1>10. RowsIn(exch, u, l \ {i})
  BY <1>1, <1>2, <1>3, <1>4, <1>9 DEF RowsIn, Gone
<1>11. Idle \in DoingRow /\ Idle.at = "idle" /\ Idle.id = 0
  BY SizeAssumption DEF Idle, DoingRow, Unsent, Views
<1>12. DoingIn(exch, u, l \ {i}, Idle)
  BY <1>1, <1>3, <1>4, <1>9, <1>11 DEF DoingIn, Gone
<1>13. AmountIn(exch, u, Idle)
  BY <1>1, <1>4, <1>9, <1>11 DEF AmountIn
<1> QED
  BY <1>1, <1>8, <1>10, <1>12, <1>13 DEF BaseAt, u

-----------------------------------------------------------------------------
(* The steps of the exchange.                                              *)
LEMMA OneMoves ==
  ASSUME NEW e \in Seq(OrderRow), NEW f, f = [i \in DOMAIN e |-> f[i]],
         \A i \in DOMAIN e :
           /\ f[i] \in OrderRow /\ f[i].amount = e[i].amount
           /\ f[i].side = e[i].side \/ (e[i].side = "stop" /\ f[i].side = "exit")
           /\ e[i].status = "open" \/ (f[i].status = e[i].status /\ f[i].filled = e[i].filled)
  PROVE  f \in Seq(OrderRow) /\ Moves(e, f)
<1>1. Len(e) \in Nat /\ DOMAIN e = 1 .. Len(e) /\ DOMAIN f = DOMAIN e
  OBVIOUS
<1>2. f \in [1 .. Len(e) -> OrderRow]
  BY <1>1
<1>3. f \in Seq(OrderRow)
  BY <1>1, <1>2
<1> QED
  BY <1>1, <1>3 DEF Moves, ViewOf

LEMMA CanceledRow ==
  ASSUME NEW o \in OrderRow, o.status = "open"
  PROVE  LET c == [o EXCEPT !.status = "canceled"]
         IN  /\ c \in OrderRow /\ c.amount = o.amount /\ c.side = o.side
             /\ c.filled = o.filled /\ c.status = "canceled"
BY DEF OrderRow, Ended

LEMMA KeptRow ==
  ASSUME NEW o \in OrderRow, o.side = "stop"
  PROVE  LET c == [o EXCEPT !.side = "exit"]
         IN  /\ c \in OrderRow /\ c.amount = o.amount /\ c.side = "exit"
             /\ c.filled = o.filled /\ c.status = o.status
BY DEF OrderRow, Sides

LEMMA FilledRow ==
  ASSUME NEW o \in OrderRow, o.status = "open", NEW n \in Nat, 1 <= n, n <= o.amount - o.filled
  PROVE  LET c == [o EXCEPT !.filled = @ + n, !.status = IF n = o.amount - o.filled THEN "closed" ELSE "open"]
         IN  /\ c \in OrderRow /\ c.amount = o.amount /\ c.side = o.side /\ c.filled = o.filled + n
             /\ c.status = IF n = o.amount - o.filled THEN "closed" ELSE "open"
<1> DEFINE c == [o EXCEPT !.filled = @ + n, !.status = IF n = o.amount - o.filled THEN "closed" ELSE "open"]
<1>1. o.filled \in Nat /\ o.amount \in 1 .. Size /\ o.status # "closed" /\ o.side \in Sides
      /\ o = [side |-> o.side, amount |-> o.amount, status |-> o.status, filled |-> o.filled]
  BY SizeAssumption DEF OrderRow
<1>2. c = [side |-> o.side, amount |-> o.amount,
           status |-> IF n = o.amount - o.filled THEN "closed" ELSE "open", filled |-> o.filled + n]
  <2> DEFINE m == o.filled + n
             s == IF n = o.amount - o.filled THEN "closed" ELSE "open"
             x == [o EXCEPT !.filled = m]
             w == [x EXCEPT !.status = s]
  <2>1. c = w
    OBVIOUS
  <2> HIDE DEF m, s
  <2>2. x = [side |-> o.side, amount |-> o.amount, status |-> o.status, filled |-> m]
    BY <1>1
  <2> HIDE DEF x
  <2>3. w = [side |-> o.side, amount |-> o.amount, status |-> s, filled |-> m]
    BY <2>2
  <2> HIDE DEF c, w
  <2>4. c = [side |-> o.side, amount |-> o.amount, status |-> s, filled |-> m]
    BY <2>1, <2>3
  <2> QED
    BY <2>4 DEF m, s
<1> HIDE DEF c
<1>3. /\ c.amount = o.amount /\ c.side = o.side /\ c.filled = o.filled + n
      /\ c.status = IF n = o.amount - o.filled THEN "closed" ELSE "open"
  BY <1>2
<1>4. c \in [side : Sides, amount : 1 .. Size, status : {"open"} \cup Ended, filled : 0 .. Size]
  <2>1. o.filled + n \in 0 .. Size
    BY <1>1, SizeAssumption
  <2>2. (IF n = o.amount - o.filled THEN "closed" ELSE "open") \in {"open"} \cup Ended
    BY DEF Ended
  <2> QED
    BY <1>1, <1>2, <2>1, <2>2
<1>5. c \in OrderRow
  BY <1>1, <1>3, <1>4 DEF OrderRow
<1> QED
  BY <1>3, <1>5 DEF c

LEMMA FillMoves ==
  ASSUME exch \in Seq(OrderRow), NEW i \in DOMAIN exch, Fill(i)
  PROVE  /\ exch' \in Seq(OrderRow) /\ Moves(exch, exch')
         /\ exch'[i].side = exch[i].side /\ exch'[i].filled > exch[i].filled
         /\ \A j \in DOMAIN exch \ {i} : exch'[j] = exch[j]
<1>1. PICK n \in 1 .. Left(i) :
        exch' = [exch EXCEPT ![i].filled = @ + n,
                             ![i].status = IF n = Left(i) THEN "closed" ELSE "open"]
  BY DEF Fill
<1> DEFINE o == exch[i]
           c == [o EXCEPT !.filled = @ + n, !.status = IF n = o.amount - o.filled THEN "closed" ELSE "open"]
<1>2. /\ o \in OrderRow /\ o.status = "open" /\ o.filled \in Nat /\ o.amount \in Nat
      /\ o.filled <= o.amount /\ o.filled # o.amount
  BY OrderFacts, SizeAssumption DEF Fill
<1>3. n \in Nat /\ 1 <= n /\ n <= o.amount - o.filled
  <2> HIDE DEF o
  <2> QED
    BY <1>2 DEF Left, o
<1>4. c \in OrderRow /\ c.amount = o.amount /\ c.side = o.side /\ c.filled > o.filled
  <2> HIDE DEF o
  <2>1. c \in OrderRow /\ c.amount = o.amount /\ c.side = o.side /\ c.filled = o.filled + n
    BY <1>2, <1>3, FilledRow
  <2> HIDE DEF c
  <2> QED
    BY <1>2, <1>3, <2>1
<1>5. exch' = [exch EXCEPT ![i] = c]
  BY <1>1 DEF Left
<1> HIDE DEF c
<1>6. exch' = [j \in DOMAIN exch |-> exch'[j]]
  BY <1>5
<1>7. \A j \in DOMAIN exch : exch'[j] = IF j = i THEN c ELSE exch[j]
  BY <1>5
<1>8. \A j \in DOMAIN exch : exch[j] \in OrderRow
  BY OrderFacts
<1> QED
  BY <1>2, <1>4, <1>6, <1>7, <1>8, OneMoves

(* Orders that are canceled where they are open.                           *)
LEMMA CancelMoves ==
  ASSUME NEW e \in Seq(OrderRow), NEW S, NEW f,
         f = [i \in DOMAIN e |-> IF i \in S THEN [e[i] EXCEPT !.status = "canceled"] ELSE e[i]],
         \A i \in S : i \in DOMAIN e => e[i].status = "open"
  PROVE  /\ f \in Seq(OrderRow) /\ Moves(e, f)
         /\ \A i \in DOMAIN e : f[i].side = e[i].side /\ f[i].filled = e[i].filled
              /\ f[i].status = IF i \in S THEN "canceled" ELSE e[i].status
<1>1. f = [i \in DOMAIN e |-> f[i]]
  OBVIOUS
<1>2. ASSUME NEW i \in DOMAIN e
      PROVE  /\ f[i] \in OrderRow /\ f[i].amount = e[i].amount /\ f[i].side = e[i].side
             /\ f[i].filled = e[i].filled /\ f[i].status = IF i \in S THEN "canceled" ELSE e[i].status
  <2>1. e[i] \in OrderRow
    BY OrderFacts
  <2>2. CASE i \in S
    BY <2>1, <2>2, CanceledRow
  <2>3. CASE i \notin S
    BY <2>1, <2>3
  <2> QED
    BY <2>2, <2>3
<1>3. \A i \in DOMAIN e : e[i].status = "open" \/ i \notin S
  OBVIOUS
<1>4. f \in Seq(OrderRow) /\ Moves(e, f)
  <2>1. ASSUME NEW i \in DOMAIN e
        PROVE  /\ f[i] \in OrderRow /\ f[i].amount = e[i].amount
               /\ f[i].side = e[i].side \/ (e[i].side = "stop" /\ f[i].side = "exit")
               /\ e[i].status = "open" \/ (f[i].status = e[i].status /\ f[i].filled = e[i].filled)
    BY <1>2, <1>3
  <2> QED
    BY <1>1, <2>1, OneMoves
<1> QED
  BY <1>2, <1>4

LEMMA OneCanceled ==
  ASSUME exch \in Seq(OrderRow), NEW i \in DOMAIN exch,
         NEW done, CancelAt(i, done)
  PROVE  /\ exch' \in Seq(OrderRow) /\ Moves(exch, exch') /\ Answer(i, done) = ViewOf(exch', i)
         /\ \A j \in DOMAIN exch : j # i \/ exch[i].status # "open" \/ ~done => exch'[j] = exch[j]
         /\ Answer(i, done).status = "open" => exch' = exch
<1> DEFINE S == IF exch[i].status = "open" /\ done THEN {i} ELSE {}
           f == [j \in DOMAIN exch |-> IF j \in S THEN [exch[j] EXCEPT !.status = "canceled"] ELSE exch[j]]
<1>1. exch' = f
  BY DEF CancelAt
<1>2. /\ f \in Seq(OrderRow) /\ Moves(exch, f)
      /\ \A j \in DOMAIN exch : f[j].side = exch[j].side /\ f[j].filled = exch[j].filled
           /\ f[j].status = IF j \in S THEN "canceled" ELSE exch[j].status
  <2>1. \A j \in S : j \in DOMAIN exch => exch[j].status = "open"
    OBVIOUS
  <2> HIDE DEF S
  <2> QED
    BY <2>1, CancelMoves
<1>3. \A j \in DOMAIN exch : j # i \/ exch[i].status # "open" \/ ~done => f[j] = exch[j]
  OBVIOUS
<1>4. Answer(i, done) = [status |-> f[i].status, filled |-> f[i].filled]
  BY <1>2 DEF Answer, View
<1>5. Answer(i, done).status = "open" => exch' = exch
  <2>1. SUFFICES ASSUME Answer(i, done).status = "open" PROVE exch' = exch
    OBVIOUS
  <2>2. ~(exch[i].status = "open" /\ done)
    BY <2>1 DEF Answer
  <2> QED
    BY <2>2 DEF CancelAt
<1> QED
  BY <1>1, <1>2, <1>3, <1>4, <1>5 DEF ViewOf

-----------------------------------------------------------------------------
(* What a step of the bot does to the rows.                                *)
LEMMA GoneRecord ==
  ASSUME NEW e, NEW d \in DbRow(e), NEW x
  PROVE  [d EXCEPT !.life = x, !.book = <<>>] = [life |-> x, amount |-> d.amount, book |-> <<>>]
<1> DEFINE y == [d EXCEPT !.life = x]
           z == [y EXCEPT !.book = <<>>]
<1>1. d = [life |-> d.life, amount |-> d.amount, book |-> d.book]
  BY DEF DbRow
<1>2. y = [life |-> x, amount |-> d.amount, book |-> d.book]
  BY <1>1
<1> HIDE DEF y
<1>3. z = [life |-> x, amount |-> d.amount, book |-> <<>>]
  BY <1>2
<1> QED
  BY <1>3 DEF y

LEMMA GoneRecords ==
  ASSUME NEW e, db \in DbRow(e)
  PROVE  /\ Dropped = [life |-> "dropped", amount |-> db.amount, book |-> <<>>]
         /\ Unreplaced = [life |-> "unreplaced", amount |-> db.amount, book |-> <<>>]
<1>1. Dropped = [life |-> "dropped", amount |-> db.amount, book |-> <<>>]
  BY GoneRecord DEF Dropped
<1>2. Unreplaced = [life |-> "unreplaced", amount |-> db.amount, book |-> <<>>]
  BY <1>1 DEF Unreplaced
<1> QED
  BY <1>1, <1>2

LEMMA StillOpen ==
  ASSUME NEW e, NEW d, Good(e, d), NEW i \in DOMAIN d.book, e[i].status = "open"
  PROVE  d.book[i].status = "open"
<1>1. SUFFICES ASSUME d.book[i].status # "open" PROVE FALSE
  OBVIOUS
<1>2. d.book[i] = ViewOf(e, i)
  BY <1>1 DEF Good, RowsOK
<1>3. ViewOf(e, i).status = e[i].status
  BY DEF ViewOf
<1> QED
  BY <1>1, <1>2, <1>3

LEMMA IdleFacts ==
  /\ Idle \in DoingRow /\ Idle.at = "idle" /\ Idle.id = 0
  /\ Idle = [at |-> "idle", id |-> 0, amount |-> 0, answer |-> Unsent] /\ Unsent \in Views
BY SizeAssumption DEF Idle, DoingRow, Unsent, Views

LEMMA EntryKeeps ==
  ASSUME exch \in Seq(OrderRow), NEW e \in Seq(OrderRow), SameSides(exch, e),
         NEW g, BaseAt(e, db, lost, g), db.life \in {"open", "closed"},
         NEW i \in Recorded, db.book[i].status = "open", NEW v, v = ViewOf(e, i),
         NEW replacing \in BOOLEAN, NEW h,
         h = Idle \/ (replacing /\ h = g /\ g.at \in {"place", "market"})
  PROVE  BaseAt(e, EntryCanceled(i, v, replacing), lost, h)
<1> DEFINE u == Updated(db, i, v, FALSE)
           k == EntryCanceled(i, v, replacing)
<1>1. i \in DOMAIN db.book /\ Good(e, db) /\ db \in DbRow(e)
  BY DEF Recorded, BaseAt, Good
<1>2. CASE k = db
  BY <1>1, <1>2, DbKeeps
<1>3. CASE k = Dropped /\ h = Idle
  BY <1>1, <1>3, GoneRecords, GoneKeeps DEF Gone
<1>4. CASE k = u
  <2>1. Follows(e, db, u)
    BY <1>1, WrittenIs
  <2> HIDE DEF u, k
  <2>2. BaseAt(e, u, lost, h)
    BY <2>1, DbKeeps
  <2> QED
    BY <1>4, <2>2 DEF k
<1>5. k = db \/ (k = Dropped /\ h = Idle) \/ k = u
  BY DEF EntryCanceled
<1> QED
  BY <1>2, <1>3, <1>4, <1>5

LEMMA LiveStopsFacts ==
  ASSUME BaseAt(exch, db, lost, doing)
  PROVE  \A i \in LiveStops : /\ i \in DOMAIN exch /\ i \in DOMAIN db.book /\ db.book[i].status = "open"
                              /\ exch[i].side = "stop" /\ exch[i].status = "open"
<1>1. exch \in Seq(OrderRow) /\ DOMAIN db.book \subseteq DOMAIN exch
  BY DbFacts DEF BaseAt, Good
<1> QED
  BY <1>1 DEF LiveStops, OpenStops, OpenRows, Recorded

(* What is said of orders the trade has rows of is written to those rows.  *)
LEMMA AllRows ==
  ASSUME exch \in Seq(OrderRow), NEW e \in Seq(OrderRow), SameSides(exch, e), NEW d, Good(e, d),
         NEW again \in BOOLEAN, NEW said, DOMAIN said \subseteq DOMAIN d.book,
         \A i \in DOMAIN said : said[i] = ViewOf(e, i)
  PROVE  LET u == AllUpdated(d, said, again)
         IN  /\ Follows(e, d, u) /\ (DOMAIN said = {} => u = d)
             /\ DOMAIN u.book = DOMAIN d.book
             /\ \A i \in DOMAIN d.book : u.book[i] = IF i \in DOMAIN said THEN ViewOf(e, i) ELSE d.book[i]
<1> DEFINE u == AllUpdated(d, said, again)
<1>1. DOMAIN d.book \subseteq DOMAIN e /\ DOMAIN e \subseteq Nat
  BY DbFacts, OrderFacts DEF Good
<1>2. DOMAIN said \subseteq WindowOf(e, DOMAIN d.book)
  BY <1>1 DEF WindowOf
<1>3. /\ Good(e, u) /\ u.life \in {d.life, "closed"} /\ (DOMAIN said = {} => u = d)
      /\ DOMAIN u.book = DOMAIN d.book \cup DOMAIN said
      /\ \A i \in DOMAIN said : u.book[i] = said[i]
      /\ \A i \in DOMAIN d.book \ DOMAIN said : u.book[i] = d.book[i]
      /\ d.amount > 0 => u.amount > 0
  BY <1>2, GoodAll
<1> HIDE DEF u
<1>4. DOMAIN u.book = DOMAIN d.book
  BY <1>3
<1> QED
  BY <1>3, <1>4 DEF u, Follows

(* The exchange cancels some of the stops, and the answers are written.    *)
LEMMA StopsAt ==
  ASSUME BaseAt(exch, db, lost, doing), NEW S \in SUBSET LiveStops, StopsCanceled(S)
  PROVE  /\ exch' \in Seq(OrderRow) /\ Moves(exch, exch')
         /\ \A i \in DOMAIN exch : exch'[i].side = exch[i].side /\ exch'[i].filled = exch[i].filled
              /\ exch'[i].status = IF i \in S THEN "canceled" ELSE exch[i].status
         /\ DOMAIN StopAnswers(S) = LiveStops
         /\ \A i \in LiveStops : StopAnswers(S)[i] = ViewOf(exch', i)
<1>1. exch \in Seq(OrderRow)
  BY DEF BaseAt
<1>2. \A i \in LiveStops : i \in DOMAIN exch /\ exch[i].status = "open"
  BY LiveStopsFacts
<1>3. exch' = [i \in DOMAIN exch |-> IF i \in S THEN [exch[i] EXCEPT !.status = "canceled"] ELSE exch[i]]
  BY DEF StopsCanceled
<1>4. \A i \in S : i \in DOMAIN exch => exch[i].status = "open"
  BY <1>2
<1>5. /\ exch' \in Seq(OrderRow) /\ Moves(exch, exch')
      /\ \A i \in DOMAIN exch : exch'[i].side = exch[i].side /\ exch'[i].filled = exch[i].filled
           /\ exch'[i].status = IF i \in S THEN "canceled" ELSE exch[i].status
  BY <1>1, <1>3, <1>4, CancelMoves
<1>6. ASSUME NEW i \in LiveStops PROVE StopAnswers(S)[i] = ViewOf(exch', i)
  BY <1>2, <1>5, <1>6 DEF StopAnswers, Answer, View, ViewOf
<1>7. DOMAIN StopAnswers(S) = LiveStops
  BY DEF StopAnswers
<1> QED
  BY <1>5, <1>6, <1>7

LEMMA StopsGone ==
  ASSUME BaseAt(exch, db, lost, doing), db.life \in {"open", "closed"},
         NEW S \in SUBSET LiveStops, StopsCanceled(S)
  PROVE  /\ BaseAt(exch', db', lost, Idle) /\ Follows(exch', db, db')
         /\ DOMAIN db'.book = DOMAIN db.book
         /\ \A i \in DOMAIN db.book : db'.book[i] = IF i \in LiveStops THEN ViewOf(exch', i) ELSE db.book[i]
<1> DEFINE said == StopAnswers(S)
           e == exch'
<1>1. /\ exch \in Seq(OrderRow) /\ e \in Seq(OrderRow) /\ Moves(exch, e)
      /\ DOMAIN said = LiveStops /\ \A i \in LiveStops : said[i] = ViewOf(e, i)
  BY StopsAt DEF BaseAt
<1>2. db' = AllUpdated(db, said, FALSE)
  BY DEF StopsCanceled
<1>3. \A i \in LiveStops : i \in DOMAIN db.book
  BY LiveStopsFacts
<1> HIDE DEF said, e
<1>4. BaseAt(e, db, lost, doing) /\ Good(e, db) /\ SameSides(exch, e)
  BY <1>1, MoveKeeps, MovesFacts DEF BaseAt
<1> DEFINE u == AllUpdated(db, said, FALSE)
<1>5. /\ Follows(e, db, u) /\ DOMAIN u.book = DOMAIN db.book
      /\ \A i \in DOMAIN db.book : u.book[i] = IF i \in DOMAIN said THEN ViewOf(e, i) ELSE db.book[i]
  <2>1. DOMAIN said \subseteq DOMAIN db.book /\ \A i \in DOMAIN said : said[i] = ViewOf(e, i)
    BY <1>1, <1>3
  <2> DEFINE again == FALSE
  <2>2. again \in BOOLEAN /\ u = AllUpdated(db, said, again)
    OBVIOUS
  <2> HIDE DEF again, u
  <2> QED
    BY <1>1, <1>4, <2>1, <2>2, AllRows
<1> HIDE DEF u
<1>6. BaseAt(e, u, lost, Idle)
  BY <1>4, <1>5, DbKeeps
<1> QED
  BY <1>1, <1>2, <1>5, <1>6 DEF u, e

(* What is asked of rows that are there is written to them.                *)
LEMMA SeenRows ==
  ASSUME BaseAt(exch, db, lost, doing), NEW S \in SUBSET DOMAIN db.book
  PROVE  LET u == AllUpdated(db, Seen(S), FALSE)
         IN  /\ Follows(exch, db, u) /\ (S = {} => u = db) /\ DOMAIN u.book = DOMAIN db.book
             /\ \A i \in DOMAIN db.book : u.book[i] = IF i \in S THEN ViewOf(exch, i) ELSE db.book[i]
<1> DEFINE said == Seen(S)
<1>1. DOMAIN said = S /\ \A i \in S : said[i] = ViewOf(exch, i)
  BY DEF Seen, View, ViewOf
<1> HIDE DEF said
<1>2. exch \in Seq(OrderRow) /\ SameSides(exch, exch) /\ Good(exch, db)
  BY DEF BaseAt, SameSides
<1> DEFINE u == AllUpdated(db, said, FALSE)
<1>3. /\ Follows(exch, db, u) /\ (DOMAIN said = {} => u = db) /\ DOMAIN u.book = DOMAIN db.book
      /\ \A i \in DOMAIN db.book : u.book[i] = IF i \in DOMAIN said THEN ViewOf(exch, i) ELSE db.book[i]
  <2>1. DOMAIN said \subseteq DOMAIN db.book /\ \A i \in DOMAIN said : said[i] = ViewOf(exch, i)
    BY <1>1
  <2> DEFINE again == FALSE
  <2>2. again \in BOOLEAN /\ u = AllUpdated(db, said, again)
    OBVIOUS
  <2> HIDE DEF again, u
  <2> QED
    BY <1>2, <2>1, <2>2, AllRows
<1> QED
  BY <1>1, <1>3 DEF said

LEMMA RefusedKeeps ==
  ASSUME BaseAt(exch, db, lost, doing), Refused
  PROVE  BaseAt(exch', db', lost', doing')
<1> DEFINE u == AllUpdated(db, Seen(OpenStops), FALSE)
<1>1. db' = u /\ doing' = Idle /\ exch' = exch /\ lost' = lost
  BY DEF Refused
<1>2. OpenStops \in SUBSET DOMAIN db.book
  BY DEF OpenStops, OpenRows, Recorded
<1>3. Follows(exch, db, u) /\ (OpenStops = {} => u = db)
  BY <1>2, SeenRows
<1>4. DOMAIN db.book # {} => db.life \in {"open", "closed"}
  BY DEF BaseAt, RowsIn
<1> HIDE DEF u
<1>5. BaseAt(exch, u, lost, Idle)
  BY <1>2, <1>3, <1>4, DbKeeps
<1> QED
  BY <1>1, <1>5

(* The thread goes on.                                                     *)
LEMMA NowDoing ==
  ASSUME NEW e, NEW d, NEW l, NEW g, BaseAt(e, d, l, g), NEW h,
         DoingIn(e, d, l, h), AmountIn(e, d, h)
  PROVE  BaseAt(e, d, l, h)
BY DEF BaseAt

LEMMA ExitKeeps ==
  ASSUME BaseAt(exch, db, lost, doing), db.life \in {"open", "closed"}, NEW S \in SUBSET LiveStops,
         NEW sub, NEW at \in {"place", "market"}, Exit(S, sub, at), db.amount > 0, sub \in 0 .. Size
  PROVE  BaseAt(exch', db', lost', doing') /\ lost' = lost
<1> DEFINE a == IF sub = 0 THEN db'.amount ELSE sub
           h == [at |-> at, id |-> 0, amount |-> a, answer |-> Unsent]
<1>1. StopsCanceled(S) /\ lost' = lost /\ (doing' = Idle \/ doing' = h)
  BY DEF Exit, Idle
<1>2. BaseAt(exch', db', lost, Idle) /\ Follows(exch', db, db')
  BY <1>1, StopsGone
<1>3. a \in 1 .. Size
  BY <1>2, SizeAssumption DEF Follows, Good, DbRow
<1>4. h \in DoingRow /\ h.at = at /\ h.amount = a /\ h.id = 0
  BY <1>3, IdleFacts DEF DoingRow
<1> HIDE DEF h, a
<1>5. DoingIn(exch', db', lost, h)
  <2>1. Len(exch') \in Nat
    BY <1>2 DEF BaseAt
  <2> QED
    BY <1>2, <1>3, <1>4, <2>1 DEF DoingIn, Gone, Follows
<1>6. AmountIn(exch', db', h)
  BY <1>2 DEF AmountIn, Follows
<1>7. BaseAt(exch', db', lost, h)
  BY <1>2, <1>5, <1>6, NowDoing
<1> QED
  BY <1>1, <1>2, <1>7

-----------------------------------------------------------------------------
(* Each operation keeps the invariant.                                     *)
LEMMA AnswerRow ==
  ASSUME NEW a \in 1 .. Size, NEW side \in Sides, NEW market \in BOOLEAN, NEW v \in Answers(side, a, market),
         NEW o, o = [side |-> side, amount |-> a, status |-> v.status, filled |-> v.filled]
  PROVE  /\ o \in OrderRow /\ v = [status |-> o.status, filled |-> o.filled]
         /\ o.side = side /\ o.status = v.status /\ o.filled = v.filled /\ o.amount = a
         /\ v.status \in {"open", "canceled"} => v.filled < a
<1>1. \/ v = [status |-> "open", filled |-> 0]
      \/ v = [status |-> "closed", filled |-> a] /\ (side = "stop" => market)
      \/ side = "entry" /\ v.status = "canceled" /\ v.filled \in 1 .. a - 1
         /\ v = [status |-> v.status, filled |-> v.filled]
  BY DEF Answers
<1>2. a \in Nat /\ a >= 1 /\ a <= Size /\ Size \in Nat
  BY SizeAssumption
<1>3. /\ v.status \in {"open", "closed", "canceled"} /\ v.filled \in 0 .. a
      /\ v.status = "closed" <=> v.filled = a
      /\ v = [status |-> v.status, filled |-> v.filled]
  BY <1>1, <1>2
<1>4. o.side = side /\ o.amount = a /\ o.status = v.status /\ o.filled = v.filled
  OBVIOUS
<1>5. o \in [side : Sides, amount : 1 .. Size, status : {"open"} \cup Ended, filled : 0 .. Size]
  <2>1. v.status \in {"open"} \cup Ended /\ v.filled \in 0 .. Size
    BY <1>2, <1>3 DEF Ended
  <2> QED
    BY <2>1
<1>6. o \in OrderRow
  BY <1>2, <1>3, <1>4, <1>5 DEF OrderRow
<1> QED
  BY <1>2, <1>3, <1>4, <1>6

LEMMA CreateStep ==
  ASSUME BaseAt(exch, db, lost, doing), db.life \notin Gone,
         NEW a \in 1 .. Size, NEW side \in Sides, NEW market \in BOOLEAN, Create(side, a, market),
         side = "entry" => AgainIn(exch, db),
         side # "entry" => db.amount > 0
  PROVE  BaseAt(exch', db, lost', doing')
<1>1. PICK v \in Answers(side, a, market) :
        /\ exch' = Append(exch, [side |-> side, amount |-> a, status |-> v.status, filled |-> v.filled])
        /\ doing' = [at |-> "sent", id |-> Len(exch) + 1, amount |-> 0, answer |-> v]
  BY DEF Create
<1> DEFINE o == [side |-> side, amount |-> a, status |-> v.status, filled |-> v.filled]
           i == Len(exch) + 1
<1>2. o \in OrderRow /\ v = [status |-> o.status, filled |-> o.filled] /\ o.side = side
  BY AnswerRow
<1>3. lost' = lost \cup {i} /\ exch' = Append(exch, o)
  BY <1>1 DEF Create
<1> HIDE DEF o
<1>4. o.side = "entry" => AgainIn(exch, db)
  BY <1>2
<1>5. o.side \in Sells => db.amount > 0
  BY <1>2 DEF Sells
<1>6. i = Len(exch) + 1 /\ doing' = [at |-> "sent", id |-> i, amount |-> 0, answer |-> v]
  BY <1>1
<1> HIDE DEF i
<1> QED
  BY <1>2, <1>3, <1>4, <1>5, <1>6, CreateKeeps

LEMMA EnterBase ==
  ASSUME Base, Enter PROVE Base'
<1>1. BaseAt(exch, db, lost, doing) /\ db.life = "none" /\ Create("entry", Size, FALSE)
      /\ db' = db /\ crashes' = crashes
  BY DEF Base, Enter
<1>2. AgainIn(exch, db)
  <2>1. DOMAIN db.book = {}
    BY <1>1 DEF BaseAt, RowsIn
  <2> QED
    BY <2>1 DEF AgainIn, WindowOf
<1>3. Size \in 1 .. Size /\ "entry" \in Sides /\ FALSE \in BOOLEAN /\ db.life \notin Gone
  BY <1>1, SizeAssumption DEF Sides, Gone
<1>4. BaseAt(exch', db, lost', doing')
  BY <1>1, <1>2, <1>3, CreateStep
<1> QED
  BY <1>1, <1>4 DEF Base

LEMMA PlaceStopBase ==
  ASSUME Base, PlaceStop PROVE Base'
<1>1. BaseAt(exch, db, lost, doing) /\ crashes' = crashes /\ StopDue
  BY DEF Base, PlaceStop
<1>2. db.life = "open" /\ db.amount > 0
  BY <1>1 DEF StopDue, BaseAt, DoingIn, AmountIn, Good, DbRow, Lives, Gone
<1>3. CASE Create("stop", db.amount, FALSE) /\ db' = db
  <2>1. db.amount \in 1 .. Size /\ "stop" \in Sides /\ FALSE \in BOOLEAN /\ db.life \notin Gone
    BY <1>1, <1>2, SizeAssumption DEF Sides, Gone, BaseAt, Good, DbRow
  <2>2. BaseAt(exch', db, lost', doing')
    BY <1>1, <1>2, <1>3, <2>1, CreateStep
  <2> QED
    BY <1>1, <1>3, <2>2 DEF Base
<1>4. CASE Refused
  BY <1>1, <1>4, RefusedKeeps DEF Base
<1>5. CASE doing' = [Idle EXCEPT !.at = "urgent"] /\ exch' = exch /\ db' = db /\ lost' = lost
  <2> DEFINE h == [at |-> "urgent", id |-> 0, amount |-> 0, answer |-> Unsent]
  <2>1. doing' = h /\ h \in DoingRow /\ h.at = "urgent" /\ h.id = 0
    BY <1>5, IdleFacts, SizeAssumption DEF DoingRow
  <2> HIDE DEF h
  <2>2. BaseAt(exch, db, lost, h)
    BY <1>1, <1>2, <2>1, DbKeeps
  <2> QED
    BY <1>1, <1>5, <2>1, <2>2 DEF Base
<1> QED
  BY <1>3, <1>4, <1>5 DEF PlaceStop

LEMMA AskedBase ==
  ASSUME Base, NEW i, Asked(i, OpenOrders \cup OpenStops) PROVE Base'
<1> DEFINE u == Updated(db, i, View(i), FALSE)
<1>1. /\ BaseAt(exch, db, lost, doing) /\ exch \in Seq(OrderRow) /\ db.life = "open"
      /\ exch' = exch /\ lost' = lost /\ crashes' = crashes /\ db' = u
      /\ Good(exch, db) /\ db \in DbRow(exch) /\ SameSides(exch, exch)
  BY DEF Base, Asked, BaseAt, Good, SameSides
<1>2. i \in DOMAIN db.book /\ db.book[i].status = "open" /\ View(i) = ViewOf(exch, i)
  BY DEF Asked, OpenOrders, OpenStops, OpenRows, Recorded, View, ViewOf
<1>3. Follows(exch, db, u)
  BY <1>1, <1>2, WrittenIs
<1>4. CASE doing' = Idle
  <2> HIDE DEF u
  <2>1. BaseAt(exch, u, lost, Idle)
    BY <1>1, <1>3, DbKeeps
  <2> QED
    BY <1>1, <1>4, <2>1 DEF Base
<1>5. CASE /\ exch[i].side = "entry" /\ View(i) = NoFill
           /\ doing' = [Idle EXCEPT !.at = "empty", !.id = i]
  <2> DEFINE h == [at |-> "empty", id |-> i, amount |-> 0, answer |-> Unsent]
  <2> DEFINE again == FALSE
  <2>1. u = Updated(db, i, NoFill, again)
    BY <1>5
  <2> HIDE DEF u, again
  <2>2. u.life = "open" /\ i \in DOMAIN u.book /\ u.book[i] = NoFill
    <3>1. /\ u.life = db.life /\ DOMAIN u.book = DOMAIN db.book
          /\ \A j \in DOMAIN db.book : u.book[j] = IF j = i THEN NoFill ELSE db.book[j]
      BY <1>1, <1>2, <2>1, EmptyRow
    <3> QED
      BY <1>1, <1>2, <3>1
  <2>3. BaseAt(exch, u, lost, Idle)
    BY <1>1, <1>3, DbKeeps
  <2>4. i \in Nat /\ i <= Len(exch)
    BY <1>1, <1>2, DbFacts
  <2>5. h \in DoingRow /\ h.at = "empty" /\ h.id = i
    BY <2>4, IdleFacts, SizeAssumption DEF DoingRow
  <2>6. doing' = h
    BY <1>5 DEF Idle
  <2> HIDE DEF h
  <2>7. DoingIn(exch, u, lost, h)
    BY <1>5, <2>2, <2>4, <2>5 DEF DoingIn, EmptyIn, Gone
  <2>8. AmountIn(exch, u, h)
    BY <2>3, <2>5 DEF BaseAt, AmountIn
  <2>9. BaseAt(exch, u, lost, h)
    BY <2>3, <2>7, <2>8, NowDoing
  <2> QED
    BY <1>1, <2>6, <2>9 DEF Base
<1> QED
  BY <1>4, <1>5 DEF Asked, NoFill

LEMMA HandleEmptyBase ==
  ASSUME Base, HandleEmpty PROVE Base'
<1>1. /\ BaseAt(exch, db, lost, doing) /\ db \in DbRow(exch)
      /\ exch' = exch /\ lost' = lost /\ crashes' = crashes /\ doing' = Idle
      /\ db' = db \/ db' = Dropped
  BY DEF Base, HandleEmpty, BaseAt, Good
<1>2. BaseAt(exch, db, lost, Idle)
  BY <1>1, DbKeeps
<1>3. BaseAt(exch, Dropped, lost, Idle)
  BY <1>1, GoneRecords, GoneKeeps DEF Gone
<1> QED
  BY <1>1, <1>2, <1>3 DEF Base

LEMMA ExchangeMoves ==
  ASSUME exch \in Seq(OrderRow), NEW i \in DOMAIN exch, Fill(i) \/ Withdraw(i)
  PROVE  exch' \in Seq(OrderRow) /\ Moves(exch, exch')
<1>1. CASE Fill(i)
  BY <1>1, FillMoves
<1>2. CASE Withdraw(i)
  <2> DEFINE S == {i}
             f == [j \in DOMAIN exch |-> IF j \in S THEN [exch[j] EXCEPT !.status = "canceled"] ELSE exch[j]]
  <2>1. exch' = f /\ \A j \in S : j \in DOMAIN exch => exch[j].status = "open"
    BY <1>2 DEF Withdraw
  <2> HIDE DEF S
  <2> QED
    BY <2>1, CancelMoves
<1> QED
  BY <1>1, <1>2

LEMMA ExchangeBase ==
  ASSUME Base, NEW i \in DOMAIN exch, Fill(i) \/ Withdraw(i) PROVE Base'
<1>1. /\ BaseAt(exch, db, lost, doing) /\ exch \in Seq(OrderRow) /\ db' = db /\ doing' = doing
      /\ lost' = lost /\ crashes' = crashes
  BY DEF Base, BaseAt, Fill, Withdraw
<1>2. exch' \in Seq(OrderRow) /\ Moves(exch, exch')
  BY <1>1, ExchangeMoves
<1>3. BaseAt(exch', db, lost, doing)
  BY <1>1, <1>2, MoveKeeps
<1> QED
  BY <1>1, <1>3 DEF Base

(* A cancellation, before its answer is written.                           *)
LEMMA AfterCancel ==
  ASSUME BaseAt(exch, db, lost, doing), NEW i \in OpenOrders, NEW done, CancelAt(i, done)
  PROVE  /\ BaseAt(exch', db, lost, doing) /\ exch' \in Seq(OrderRow) /\ SameSides(exch, exch')
         /\ i \in DOMAIN db.book /\ i \in Recorded /\ i \in DOMAIN exch /\ db.book[i].status = "open"
         /\ exch[i].side \in {"entry", "exit"} /\ Answer(i, done) = ViewOf(exch', i)
<1>1. /\ i \in DOMAIN db.book /\ i \in Recorded /\ db.book[i].status = "open"
      /\ exch[i].side \in {"entry", "exit"}
  BY DEF OpenOrders, OpenRows, Recorded
<1>2. exch \in Seq(OrderRow) /\ i \in DOMAIN exch
  BY <1>1, DbFacts DEF BaseAt, Good
<1>3. exch' \in Seq(OrderRow) /\ Moves(exch, exch') /\ Answer(i, done) = ViewOf(exch', i)
  BY <1>2, OneCanceled
<1>4. SameSides(exch, exch') /\ BaseAt(exch', db, lost, doing)
  BY <1>2, <1>3, MovesFacts, MoveKeeps
<1> QED
  BY <1>1, <1>2, <1>3, <1>4

(* An exit is canceled, and another may follow.                            *)
LEMMA ExitCanceledKeeps ==
  ASSUME BaseAt(exch, db, lost, doing), db.life = "open", NEW i \in OpenOrders, exch[i].side = "exit",
         NEW done, ExitCanceled(i, done), NEW at \in {"urgent", "limit"},
         NEW h, h = Idle \/ h = [Idle EXCEPT !.at = at, !.amount = Remaining(i, done)]
  PROVE  BaseAt(exch', db', lost, h)
<1> DEFINE v == Answer(i, done)
           u == Updated(db, i, v, FALSE)
           g == [at |-> at, id |-> 0, amount |-> exch[i].amount - v.filled, answer |-> Unsent]
<1>1. CancelAt(i, done) /\ db' = u
  BY DEF ExitCanceled
<1>2. /\ BaseAt(exch', db, lost, doing) /\ exch' \in Seq(OrderRow) /\ SameSides(exch, exch')
      /\ i \in DOMAIN db.book /\ i \in Recorded /\ i \in DOMAIN exch /\ db.book[i].status = "open"
      /\ exch[i].side \in {"entry", "exit"} /\ v = ViewOf(exch', i)
  BY <1>1, AfterCancel
<1>3. exch \in Seq(OrderRow) /\ Good(exch', db)
  BY <1>2 DEF BaseAt
<1>4. Follows(exch', db, u)
  <2> HIDE DEF v
  <2> QED
    BY <1>2, <1>3, WrittenIs
<1>5. db.amount > 0 /\ u.amount > 0
  <2>1. db.amount > 0
    BY <1>2 DEF BaseAt, AmountIn, Sells
  <2> QED
    BY <1>4, <2>1 DEF Follows
<1>6. exch[i].amount - v.filled \in 0 .. Size
  <2>1. /\ exch[i].amount \in 1 .. Size /\ exch[i].filled \in 0 .. Size
        /\ exch[i].filled <= exch[i].amount /\ v.filled = exch[i].filled
    BY <1>2, <1>3, OrderFacts DEF Answer, View
  <2> HIDE DEF v
  <2> QED
    BY <2>1, SizeAssumption
<1>7. g \in DoingRow /\ g.at \in {"urgent", "limit"} /\ g.id = 0
  BY <1>6, IdleFacts DEF DoingRow
<1>8. h = Idle \/ h = g
  BY DEF Idle, Remaining
<1> HIDE DEF g, u
<1>9. BaseAt(exch', u, lost, Idle)
  BY <1>2, <1>4, DbKeeps
<1>10. BaseAt(exch', u, lost, g)
  BY <1>2, <1>4, <1>5, <1>7, DbKeeps
<1> QED
  BY <1>1, <1>8, <1>9, <1>10

LEMMA CancelBase ==
  ASSUME Base, NEW i, NEW done, Cancel(i, done) PROVE Base'
<1> DEFINE v == Answer(i, done)
<1>1. /\ BaseAt(exch, db, lost, doing) /\ db.life = "open" /\ i \in OpenOrders
      /\ lost' = lost /\ crashes' = crashes /\ crashes \in 0 .. MaxCrashes
  BY DEF Base, Cancel
<1>2. CASE CancelAt(i, done) /\ db' = EntryCanceled(i, v, FALSE) /\ doing' = Idle
  <2>1. /\ BaseAt(exch', db, lost, doing) /\ exch' \in Seq(OrderRow) /\ SameSides(exch, exch')
        /\ i \in Recorded /\ db.book[i].status = "open" /\ v = ViewOf(exch', i)
    BY <1>1, <1>2, AfterCancel
  <2>2. exch \in Seq(OrderRow)
    BY <1>1 DEF BaseAt
  <2>3. BaseAt(exch', EntryCanceled(i, v, FALSE), lost, Idle)
    <3> HIDE DEF v
    <3> QED
      BY <1>1, <2>1, <2>2, EntryKeeps
  <2> QED
    BY <1>1, <1>2, <2>3 DEF Base
<1>3. CASE /\ exch[i].side # "entry" /\ ExitCanceled(i, done)
           /\ doing' = Idle \/ doing' = [Idle EXCEPT !.at = "urgent", !.amount = Remaining(i, done)]
  <2>1. exch[i].side = "exit"
    BY <1>1, <1>3 DEF OpenOrders, OpenRows
  <2>2. PICK h : h = doing'
    OBVIOUS
  <2>3. BaseAt(exch', db', lost, h)
    BY <1>1, <1>3, <2>1, <2>2, ExitCanceledKeeps
  <2> QED
    BY <1>1, <2>2, <2>3 DEF Base
<1> QED
  BY <1>2, <1>3 DEF Cancel

LEMMA ReplaceExitBase ==
  ASSUME Base, NEW i, NEW done, ReplaceExit(i, done) PROVE Base'
<1>1. /\ BaseAt(exch, db, lost, doing) /\ db.life = "open" /\ i \in OpenRows({"exit"})
      /\ lost' = lost /\ crashes' = crashes /\ crashes \in 0 .. MaxCrashes /\ ExitCanceled(i, done)
      /\ doing' = [Idle EXCEPT !.at = "limit", !.amount = Remaining(i, done)]
  BY DEF Base, ReplaceExit
<1>2. i \in OpenOrders /\ exch[i].side = "exit"
  BY <1>1 DEF OpenOrders, OpenRows
<1>3. PICK h : h = doing'
  OBVIOUS
<1>4. BaseAt(exch', db', lost, h)
  BY <1>1, <1>2, <1>3, ExitCanceledKeeps
<1> QED
  BY <1>1, <1>3, <1>4 DEF Base

LEMMA ExitBase ==
  ASSUME Base, NEW S \in SUBSET LiveStops, ExitSignal(S) \/ ForcePart(S) \/ NextExit(S) PROVE Base'
<1>1. BaseAt(exch, db, lost, doing) /\ crashes \in 0 .. MaxCrashes /\ db.amount \in Nat /\ db.amount <= Size
  BY DbFacts DEF Base, BaseAt, Good
<1>2. SUFFICES ASSUME NEW sub \in 0 .. Size, NEW at \in {"place", "market"}, Exit(S, sub, at),
                      db.life \in {"open", "closed"}, db.amount > 0
               PROVE  Base'
  <2>1. CASE ExitSignal(S)
    BY <1>2, <2>1, SizeAssumption DEF ExitSignal
  <2>2. CASE ForcePart(S)
    <3>1. PICK a \in 1 .. db.amount - 1 : Exit(S, a, "place")
      BY <2>2 DEF ForcePart
    <3>2. db.life = "open" /\ db.amount > 0 /\ a \in 0 .. Size
      BY <1>1, <2>2, <3>1, SizeAssumption DEF ForcePart
    <3> QED
      BY <1>2, <3>1, <3>2
  <2>3. CASE NextExit(S)
    <3>1. doing.at \in {"urgent", "limit"} /\ \E at \in {"place", "market"} : Exit(S, doing.amount, at)
      BY <2>3 DEF NextExit
    <3>2. db.life \in {"open", "closed"} /\ db.amount > 0 /\ doing.amount \in 0 .. Size
      BY <1>1, <3>1 DEF BaseAt, DoingIn, DoingRow, AmountIn, Good, DbRow, Lives, Gone
    <3> QED
      BY <1>2, <3>1, <3>2
  <2> QED
    BY <2>1, <2>2, <2>3
<1>3. BaseAt(exch', db', lost', doing')
  BY <1>1, <1>2, ExitKeeps
<1> QED
  BY <1>1, <1>2, <1>3 DEF Base, Exit

LEMMA SimilarBase ==
  ASSUME Base, NEW i, NEW done, Similar(i, done) PROVE Base'
<1> DEFINE v == Answer(i, done)
           u == Updated(db, i, v, FALSE)
<1>1. /\ BaseAt(exch, db, lost, doing) /\ i \in OpenOrders /\ doing.at \in {"place", "market"}
      /\ lost' = lost /\ crashes' = crashes /\ crashes \in 0 .. MaxCrashes
  BY DEF Base, Similar
<1>2. db.life \in {"open", "closed"}
  BY <1>1 DEF BaseAt, DoingIn, Good, DbRow, Lives, Gone
<1>3. CASE exch' = exch /\ db' = db /\ doing' = Idle
  <2>1. BaseAt(exch, db, lost, Idle)
    BY <1>1, DbKeeps
  <2> QED
    BY <1>1, <1>3, <2>1 DEF Base
<1>4. CASE /\ CancelAt(i, done)
           /\ db' = IF exch[i].side = "entry" THEN EntryCanceled(i, v, TRUE) ELSE u
           /\ doing' = Idle \/ doing' = doing
  <2>1. /\ BaseAt(exch', db, lost, doing) /\ exch' \in Seq(OrderRow) /\ SameSides(exch, exch')
        /\ i \in DOMAIN db.book /\ i \in Recorded /\ db.book[i].status = "open" /\ v = ViewOf(exch', i)
    BY <1>1, <1>4, AfterCancel
  <2>2. exch \in Seq(OrderRow) /\ Good(exch', db)
    BY <1>1, <2>1 DEF BaseAt
  <2>3. PICK h : h = doing' /\ (h = Idle \/ h = doing)
    BY <1>4
  <2> HIDE DEF v
  <2>4. BaseAt(exch', EntryCanceled(i, v, TRUE), lost, h)
    BY <1>1, <1>2, <2>1, <2>2, <2>3, EntryKeeps
  <2>5. Follows(exch', db, u)
    BY <2>1, <2>2, WrittenIs
  <2> HIDE DEF u
  <2>6. BaseAt(exch', u, lost, h)
    BY <1>1, <1>2, <2>1, <2>3, <2>5, DbKeeps
  <2> QED
    BY <1>1, <1>4, <2>3, <2>4, <2>6 DEF Base
<1> QED
  BY <1>3, <1>4 DEF Similar

LEMMA PlaceExitBase ==
  ASSUME Base, PlaceExit PROVE Base'
<1>1. /\ BaseAt(exch, db, lost, doing) /\ doing.at \in {"place", "market"}
      /\ crashes' = crashes /\ crashes \in 0 .. MaxCrashes
  BY DEF Base, PlaceExit
<1>2. db.life \in {"open", "closed"} /\ doing.amount \in 1 .. Size /\ db.amount > 0
  BY <1>1, SizeAssumption DEF BaseAt, DoingIn, DoingRow, AmountIn, Good, DbRow, Lives, Gone
<1>3. CASE Create("exit", doing.amount, doing.at = "market") /\ db' = db
  <2>1. PICK market \in BOOLEAN : Create("exit", doing.amount, market)
    BY <1>3
  <2>2. "exit" \in Sides /\ "exit" # "entry" /\ db.life \notin Gone
    BY <1>2 DEF Sides, Gone
  <2>3. BaseAt(exch', db, lost', doing')
    BY <1>1, <1>2, <2>1, <2>2, CreateStep
  <2> QED
    BY <1>1, <1>3, <2>3 DEF Base
<1>4. CASE Refused
  BY <1>1, <1>4, RefusedKeeps DEF Base
<1> QED
  BY <1>3, <1>4 DEF PlaceExit

LEMMA TrailStopBase ==
  ASSUME Base, NEW S \in SUBSET LiveStops, TrailStop(S) PROVE Base'
<1> DEFINE h == [at |-> "trail", id |-> 0, amount |-> 0, answer |-> Unsent]
<1>1. /\ BaseAt(exch, db, lost, doing) /\ db.life \in {"open", "closed"} /\ StopsCanceled(S)
      /\ doing' = Idle \/ (doing' = h /\ db'.life = "open")
      /\ lost' = lost /\ crashes' = crashes /\ crashes \in 0 .. MaxCrashes
  BY DEF Base, TrailStop, Idle
<1>2. BaseAt(exch', db', lost, Idle) /\ Follows(exch', db, db')
  BY <1>1, StopsGone
<1>3. db.amount > 0
  <2>1. PICK i \in LiveStops : TRUE
    BY DEF TrailStop
  <2> QED
    BY <1>1, <2>1, LiveStopsFacts DEF BaseAt, AmountIn, Sells
<1>4. h \in DoingRow /\ h.at = "trail" /\ h.id = 0
  BY IdleFacts, SizeAssumption DEF DoingRow
<1> HIDE DEF h
<1>5. ASSUME db'.life = "open" PROVE BaseAt(exch', db', lost, h)
  <2>1. DoingIn(exch', db', lost, h)
    BY <1>2, <1>4, <1>5 DEF DoingIn, Gone, BaseAt
  <2>2. AmountIn(exch', db', h)
    BY <1>2, <1>3 DEF AmountIn, Follows
  <2> QED
    BY <1>2, <2>1, <2>2, NowDoing
<1> QED
  BY <1>1, <1>2, <1>5 DEF Base

LEMMA ReplaceBase ==
  ASSUME Base, NEW i, NEW done, Replace(i, done) PROVE Base'
<1> DEFINE v == Answer(i, done)
           k == EntryCanceled(i, v, TRUE)
           h == [at |-> "again", id |-> 0, amount |-> exch[i].amount, answer |-> Unsent]
<1>1. /\ BaseAt(exch, db, lost, doing) /\ db.life = "open" /\ i \in OpenOrders /\ CancelAt(i, done)
      /\ lost' = lost /\ crashes' = crashes /\ crashes \in 0 .. MaxCrashes
      /\ exch[i].side = "entry" /\ exch[i].status = "open"
  BY DEF Base, Replace, OpenOrders, OpenRows
<1>2. /\ BaseAt(exch', db, lost, doing) /\ exch' \in Seq(OrderRow) /\ SameSides(exch, exch')
      /\ i \in DOMAIN db.book /\ i \in Recorded /\ i \in DOMAIN exch /\ db.book[i].status = "open"
      /\ v = ViewOf(exch', i)
  BY <1>1, AfterCancel
<1>3. /\ exch \in Seq(OrderRow) /\ Good(exch', db) /\ Good(exch, db) /\ db \in DbRow(exch') /\ db \in DbRow(exch)
      /\ db.book \in Books(exch)
  BY <1>1, <1>2, DbFacts DEF BaseAt, Good
<1>4. BaseAt(exch', k, lost, Idle)
  <2> HIDE DEF v
  <2> QED
    BY <1>1, <1>2, <1>3, EntryKeeps
<1>5. BaseAt(exch', Unreplaced, lost, Idle)
  BY <1>2, <1>3, GoneRecords, GoneKeeps DEF Gone
<1>6. ASSUME v = NoFill PROVE BaseAt(exch', k, lost, h)
  <2> DEFINE again == FALSE
  <2>1. k = Updated(db, i, NoFill, again)
    BY <1>6 DEF EntryCanceled, NoFill
  <2> HIDE DEF k, again
  <2>2. db \in DbRow(exch) /\ i \in DOMAIN db.book
    BY <1>2, <1>3
  <2>4. k.life = db.life /\ DOMAIN k.book = DOMAIN db.book
    BY <2>1, <2>2, EmptyRow
  <2>6. DOMAIN k.book = DOMAIN db.book /\ k.life = "open"
    BY <1>1, <2>4
  <2>7. AgainIn(exch', k)
    <3>1. Moves(exch, exch') /\ ~EmptyAt(exch, i)
      BY <1>1, <1>2, <1>3, OneCanceled DEF EmptyAt, ViewOf, NoFill
    <3>2. WindowOf(exch', DOMAIN k.book) = WindowOf(exch, DOMAIN db.book)
      BY <1>2, <1>3, <2>6, <3>1, MovesFacts
    <3>3. i \in WindowOf(exch, DOMAIN db.book)
      BY <1>2, <1>3, OrderFacts DEF WindowOf
    <3>4. SUFFICES ASSUME NEW j \in WindowOf(exch, DOMAIN db.book), exch'[j].side = "entry"
                   PROVE  EmptyAt(exch', j)
      BY <3>2 DEF AgainIn
    <3>5. j \in DOMAIN exch
      BY DEF WindowOf
    <3>6. CASE j = i
      BY <1>2, <1>6, <3>6 DEF EmptyAt
    <3>7. CASE j # i
      <4>1. exch[j].side = "entry" /\ exch[i].side = "entry"
        BY <1>1, <1>2, <3>4, <3>5 DEF SameSides
      <4>2. EmptyAt(exch, j)
        BY <1>3, <3>1, <3>3, <3>7, <4>1 DEF Good, OneIn
      <4> QED
        BY <1>2, <1>3, <3>1, <3>5, <4>2, MovesFacts
    <3> QED
      BY <3>6, <3>7
  <2>8. exch[i].amount \in 1 .. Size /\ Size \in Nat
    BY <1>2, <1>3, OrderFacts, SizeAssumption
  <2>9. h \in DoingRow /\ h.at = "again" /\ h.id = 0 /\ h.amount > 0
    BY <2>8, IdleFacts DEF DoingRow
  <2> HIDE DEF h
  <2>10. Len(exch') \in Nat
    BY <1>2
  <2>11. DoingIn(exch', k, lost, h)
    BY <2>6, <2>7, <2>9, <2>10 DEF DoingIn, Gone
  <2>12. AmountIn(exch', k, h)
    BY <1>4, <2>9 DEF BaseAt, AmountIn
  <2> QED
    BY <1>4, <2>11, <2>12, NowDoing
<1>7. /\ db' = k \/ (v.status = "open" /\ db' = Unreplaced)
      /\ doing' = IF v = NoFill THEN h ELSE Idle
  <2>1. [Idle EXCEPT !.at = "again", !.amount = exch[i].amount] = h
    <3> HIDE DEF v, k
    <3>1. ASSUME NEW a, NEW x, x = [Idle EXCEPT !.at = "again", !.amount = a]
          PROVE  x = [at |-> "again", id |-> 0, amount |-> a, answer |-> Unsent]
      BY <3>1 DEF Idle
    <3> QED
      BY <3>1
  <2>2. db' = IF v.status = "open" /\ Entered = {} THEN Unreplaced ELSE k
    BY DEF Replace
  <2>3. doing' = IF v = NoFill THEN [Idle EXCEPT !.at = "again", !.amount = exch[i].amount] ELSE Idle
    BY DEF Replace, NoFill
  <2> HIDE DEF v, k, h
  <2> QED
    BY <2>1, <2>2, <2>3
<1>8. v = NoFill => v.status # "open"
  <2> HIDE DEF v
  <2> QED
    BY DEF NoFill
<1> HIDE DEF v, k, h
<1> QED
  BY <1>1, <1>4, <1>5, <1>6, <1>7, <1>8 DEF Base

LEMMA ReplaceWithBase ==
  ASSUME Base, ReplaceWith PROVE Base'
<1>1. /\ BaseAt(exch, db, lost, doing) /\ doing.at = "again" /\ crashes' = crashes
      /\ crashes \in 0 .. MaxCrashes /\ db \in DbRow(exch)
  BY DEF Base, ReplaceWith, BaseAt, Good
<1>2. CASE Create("entry", doing.amount, FALSE) /\ db' = db
  <2>1. AgainIn(exch, db) /\ doing.amount \in 1 .. Size /\ db.life \notin Gone
    BY <1>1, SizeAssumption DEF BaseAt, DoingIn, DoingRow
  <2>2. "entry" \in Sides /\ FALSE \in BOOLEAN
    BY DEF Sides
  <2>3. BaseAt(exch', db, lost', doing')
    BY <1>1, <1>2, <2>1, <2>2, CreateStep
  <2> QED
    BY <1>1, <1>2, <2>3 DEF Base
<1>3. CASE db' = Unreplaced /\ doing' = Idle /\ exch' = exch /\ lost' = lost
  <2>1. BaseAt(exch, Unreplaced, lost, Idle)
    BY <1>1, GoneRecords, GoneKeeps DEF Gone
  <2> QED
    BY <1>1, <1>3, <2>1 DEF Base
<1> QED
  BY <1>2, <1>3 DEF ReplaceWith

LEMMA RecordBase ==
  ASSUME Base, Record PROVE Base'
<1>1. /\ BaseAt(exch, db, lost, doing) /\ doing.at = "sent" /\ crashes' = crashes
      /\ crashes \in 0 .. MaxCrashes /\ exch' = exch /\ lost' = lost \ {doing.id} /\ doing' = Idle
  BY DEF Base, Record
<1> DEFINE c == [db EXCEPT !.life = IF @ = "none" THEN "open" ELSE @]
<1>2. db' = Updated(c, doing.id, doing.answer, FALSE)
  BY DEF Record
<1> HIDE DEF c
<1>3. c = [db EXCEPT !.life = IF @ = "none" THEN "open" ELSE @]
  BY DEF c
<1>4. BaseAt(exch, Updated(c, doing.id, doing.answer, FALSE), lost \ {doing.id}, Idle)
  BY <1>1, <1>3, RecordKeeps
<1> QED
  BY <1>1, <1>2, <1>4 DEF Base

(* The orders are read again: the trade is dropped, or its rows are        *)
(* written and stops that were unknown become exits.                       *)
LEMMA RecoverIs ==
  ASSUME BaseAt(exch, db, lost, doing), Recover
  PROVE  LET r == AllUpdated(db, Seen(Since), TRUE)
         IN  /\ Follows(exch, db, r) /\ DOMAIN r.book = DOMAIN db.book \cup Since
             /\ \A i \in Since : r.book[i] = ViewOf(exch, i)
             /\ Recorded \subseteq Since /\ Since \subseteq WindowOf(exch, DOMAIN db.book)
             /\ \/ /\ r.life = "open" /\ NothingBought(r) /\ exch' = exch
                   /\ db' = [life |-> "dropped", amount |-> r.amount, book |-> <<>>]
                \/ /\ db' = r /\ exch' \in Seq(OrderRow) /\ Moves(exch, exch')
                   /\ \A i \in DOMAIN exch : exch'[i].status = exch[i].status /\ exch'[i].filled = exch[i].filled
<1> DEFINE B == DOMAIN db.book
           said == Seen(Since)
           r == AllUpdated(db, said, TRUE)
<1>1. /\ exch \in Seq(OrderRow) /\ Good(exch, db) /\ B \subseteq DOMAIN exch
      /\ B # {} /\ DOMAIN exch \subseteq Nat /\ SameSides(exch, exch)
  <2>1. exch \in Seq(OrderRow) /\ Good(exch, db) /\ B \subseteq DOMAIN exch /\ B # {}
    BY DbFacts DEF Recover, BaseAt, Good, RowsIn
  <2> QED
    BY <2>1, OrderFacts DEF SameSides
<1>2. B \subseteq Since /\ Since \subseteq WindowOf(exch, B) /\ Recorded \subseteq Since
  <2>1. Min(B) \in B /\ \A i \in B : Min(B) <= i
    BY <1>1, MinIsLeast
  <2>2. B = Recorded
    BY DEF Recorded
  <2> HIDE DEF B
  <2>3. Since = {i \in DOMAIN exch : i >= Min(B)}
    BY <2>2 DEF Since
  <2> QED
    BY <1>1, <2>1, <2>2, <2>3 DEF WindowOf
<1>3. DOMAIN said = Since /\ \A i \in Since : said[i] = ViewOf(exch, i)
  BY DEF Seen, View, ViewOf
<1> HIDE DEF said, B
<1>4. /\ Follows(exch, db, r) /\ Good(exch, r) /\ DOMAIN r.book = B \cup Since
      /\ \A i \in Since : r.book[i] = ViewOf(exch, i)
  <2>1. /\ Good(exch, r) /\ r.life \in {db.life, "closed"} /\ DOMAIN r.book = B \cup DOMAIN said
        /\ \A i \in DOMAIN said : r.book[i] = said[i]
        /\ db.amount > 0 => r.amount > 0
    <3>1. DOMAIN said \subseteq WindowOf(exch, DOMAIN db.book) /\ \A i \in DOMAIN said : said[i] = ViewOf(exch, i)
      BY <1>2, <1>3 DEF B
    <3> DEFINE again == TRUE
    <3>2. again \in BOOLEAN /\ r = AllUpdated(db, said, again)
      OBVIOUS
    <3> HIDE DEF again, r
    <3> QED
      BY <1>1, <3>1, <3>2, GoodAll DEF B
  <2> HIDE DEF r
  <2> QED
    BY <1>2, <1>3, <2>1 DEF Follows, B
<1>5. OnExchange(said) /\ db.life = "open"
  BY DEF Recover, said
<1> HIDE DEF r
<1>6. CASE /\ r.life = "open" /\ NothingBought(r) /\ exch' = exch
           /\ db' = [r EXCEPT !.life = "dropped", !.book = <<>>]
  <2>1. db' = [life |-> "dropped", amount |-> r.amount, book |-> <<>>]
    BY <1>4, <1>6, GoneRecord DEF Good
  <2> QED
    BY <1>2, <1>4, <1>6, <2>1 DEF r, said, B
<1>7. CASE Reread(r, said)
  <2>1. LiveStops = {}
    BY DEF Recover, LiveStops
  <2> DEFINE stops == IF r.life = "open" /\ r.amount = db.amount THEN {} ELSE LiveStops
  <2>2. stops = {}
    BY <2>1
  <2>3. PICK S \in SUBSET stops :
          /\ exch' = [i \in DOMAIN exch |->
                   CASE i \in S -> [exch[i] EXCEPT !.status = "canceled"]
                     [] i \in DOMAIN said \ Recorded /\ exch[i].side = "stop" -> [exch[i] EXCEPT !.side = "exit"]
                     [] OTHER -> exch[i]]
          /\ db' = AllUpdated(r, [i \in stops |-> Answer(i, i \in S)], FALSE)
    BY <1>7 DEF Reread
  <2>4. db' = r
    <3> DEFINE none == [i \in stops |-> Answer(i, i \in S)]
    <3>1. DOMAIN none = {} /\ \A i \in DOMAIN none : none[i] = ViewOf(exch, i)
      BY <2>2
    <3> HIDE DEF none
    <3>2. AllUpdated(r, none, FALSE) = r
      BY <1>1, <1>4, <3>1, AllWrittenIs
    <3> QED
      BY <2>3, <3>2 DEF none
  <2>5. /\ exch' = [i \in DOMAIN exch |-> exch'[i]]
        /\ \A i \in DOMAIN exch :
             \/ exch'[i] = exch[i]
             \/ exch[i].side = "stop" /\ exch'[i] = [exch[i] EXCEPT !.side = "exit"]
    <3>1. S = {}
      BY <2>2
    <3> QED
      BY <2>3, <3>1
  <2>6. ASSUME NEW i \in DOMAIN exch
        PROVE  /\ exch'[i] \in OrderRow /\ exch'[i].amount = exch[i].amount
               /\ exch'[i].side = exch[i].side \/ (exch[i].side = "stop" /\ exch'[i].side = "exit")
               /\ exch'[i].status = exch[i].status /\ exch'[i].filled = exch[i].filled
    <3>1. exch[i] \in OrderRow
      BY <1>1, OrderFacts
    <3>2. CASE exch'[i] = exch[i]
      BY <3>1, <3>2
    <3>3. CASE exch[i].side = "stop" /\ exch'[i] = [exch[i] EXCEPT !.side = "exit"]
      BY <3>1, <3>3, KeptRow
    <3> QED
      BY <2>5, <3>2, <3>3
  <2>7. exch' \in Seq(OrderRow) /\ Moves(exch, exch')
    BY <1>1, <2>5, <2>6, OneMoves
  <2> QED
    BY <1>2, <1>4, <2>4, <2>6, <2>7 DEF r, said, B
<1> QED
  <2>1. PICK x \in {r} :
          \/ /\ x.life = "open" /\ NothingBought(x) /\ exch' = exch
             /\ db' = [x EXCEPT !.life = "dropped", !.book = <<>>]
          \/ Reread(x, said)
    <3>1. \E x \in {AllUpdated(db, said, TRUE)} :
            IF x.life = "open" /\ NothingBought(x)
            THEN db' = [x EXCEPT !.life = "dropped", !.book = <<>>] /\ UNCHANGED exch
            ELSE Reread(x, said)
      BY <1>5 DEF OnExchange
    <3> QED
      BY <3>1 DEF r
  <2>2. x = r
    BY <2>1
  <2> QED
    BY <1>6, <1>7, <2>1, <2>2

LEMMA RecoverBase ==
  ASSUME Base, Recover PROVE Base'
<1> DEFINE r == AllUpdated(db, Seen(Since), TRUE)
<1>1. /\ BaseAt(exch, db, lost, doing) /\ db.life = "open" /\ doing = Idle
      /\ doing' = doing /\ lost' = lost /\ crashes' = crashes /\ crashes \in 0 .. MaxCrashes
  BY DEF Base, Recover
<1>2. /\ Follows(exch, db, r)
      /\ \/ exch' = exch /\ db' = [life |-> "dropped", amount |-> r.amount, book |-> <<>>]
         \/ db' = r /\ exch' \in Seq(OrderRow) /\ Moves(exch, exch')
  BY <1>1, RecoverIs
<1> HIDE DEF r
<1>3. BaseAt(exch, r, lost, Idle)
  BY <1>1, <1>2, DbKeeps
<1>4. BaseAt(exch', db', lost, Idle)
  <2>1. CASE exch' = exch /\ db' = [life |-> "dropped", amount |-> r.amount, book |-> <<>>]
    BY <1>3, <2>1, GoneKeeps DEF Gone
  <2>2. CASE db' = r /\ exch' \in Seq(OrderRow) /\ Moves(exch, exch')
    BY <1>3, <2>2, MoveKeeps
  <2> QED
    BY <1>2, <2>1, <2>2
<1> QED
  BY <1>1, <1>4 DEF Base

LEMMA DeleteMoves ==
  ASSUME exch \in Seq(OrderRow), Delete PROVE exch' \in Seq(OrderRow) /\ Moves(exch, exch')
<1>1. PICK S :
        exch' = [i \in DOMAIN exch |->
          IF i \in S /\ exch[i].status = "open" THEN [exch[i] EXCEPT !.status = "canceled"] ELSE exch[i]]
  BY DEF Delete
<1> DEFINE C == {i \in S : exch[i].status = "open"}
           f == [i \in DOMAIN exch |-> IF i \in C THEN [exch[i] EXCEPT !.status = "canceled"] ELSE exch[i]]
<1>2. exch' = f /\ \A i \in C : i \in DOMAIN exch => exch[i].status = "open"
  BY <1>1
<1> HIDE DEF C
<1> QED
  BY <1>2, CancelMoves

LEMMA DeleteBase ==
  ASSUME Base, Delete PROVE Base'
<1>1. /\ BaseAt(exch, db, lost, doing) /\ doing = Idle /\ doing' = doing /\ lost' = lost /\ crashes' = crashes
      /\ crashes \in 0 .. MaxCrashes /\ exch \in Seq(OrderRow) /\ db \in DbRow(exch)
      /\ db' = [db EXCEPT !.life = "deleted", !.book = <<>>]
  BY DEF Base, Delete, BaseAt, Good
<1>2. exch' \in Seq(OrderRow) /\ Moves(exch, exch')
  BY <1>1, DeleteMoves
<1>3. BaseAt(exch', db, lost, doing)
  BY <1>1, <1>2, MoveKeeps
<1>4. db' = [life |-> "deleted", amount |-> db.amount, book |-> <<>>]
  BY <1>1, GoneRecord
<1>5. BaseAt(exch', db', lost, Idle)
  BY <1>3, <1>4, GoneKeeps DEF Gone
<1> QED
  BY <1>1, <1>5 DEF Base

LEMMA CrashBase ==
  ASSUME Base, Crash PROVE Base'
<1> DEFINE h == [at |-> "startup", id |-> 0, amount |-> 0, answer |-> Unsent]
<1>1. /\ BaseAt(exch, db, lost, doing) /\ crashes' \in 0 .. MaxCrashes
      /\ exch' = exch /\ db' = db /\ lost' = lost /\ doing' = h
  BY BoundsAssumption DEF Base, Crash, Idle
<1>2. h \in DoingRow /\ h.at = "startup" /\ h.id = 0
  BY IdleFacts, SizeAssumption DEF DoingRow
<1> HIDE DEF h
<1>3. DoingIn(exch, db, lost, h) /\ AmountIn(exch, db, h)
  <2>1. exch \in Seq(OrderRow) /\ Len(exch) \in Nat /\ AmountIn(exch, db, doing)
    BY <1>1 DEF BaseAt
  <2>2. DoingIn(exch, db, lost, h)
    BY <1>2, <2>1 DEF DoingIn
  <2> QED
    BY <1>2, <2>1, <2>2 DEF AmountIn
<1>4. BaseAt(exch, db, lost, h)
  BY <1>1, <1>3, NowDoing
<1> QED
  BY <1>1, <1>4 DEF Base

LEMMA StartupBase ==
  ASSUME Base, Startup PROVE Base'
<1>1. /\ BaseAt(exch, db, lost, doing) /\ crashes' = crashes /\ crashes \in 0 .. MaxCrashes
      /\ exch' = exch /\ lost' = lost /\ doing' = Idle
  BY DEF Base, Startup
<1>2. PICK S \in SUBSET (OpenOrders \cup OpenStops) : db' = AllUpdated(db, Seen(S), FALSE)
  BY DEF Startup
<1> DEFINE u == AllUpdated(db, Seen(S), FALSE)
<1>3. S \in SUBSET DOMAIN db.book
  BY DEF OpenOrders, OpenStops, OpenRows, Recorded
<1>4. Follows(exch, db, u) /\ (S = {} => u = db)
  BY <1>1, <1>3, SeenRows
<1> HIDE DEF u
<1>5. S # {} => db.life \in {"open", "closed"}
  BY <1>1, <1>3 DEF BaseAt, RowsIn
<1>6. BaseAt(exch, u, lost, Idle)
  BY <1>1, <1>4, <1>5, DbKeeps
<1> QED
  BY <1>1, <1>2, <1>6 DEF Base, u

-----------------------------------------------------------------------------
LEMMA BaseInit ==
  ASSUME Init PROVE Base
<1>1. exch = <<>> /\ lost = {} /\ doing = Idle /\ crashes = 0
      /\ db = [life |-> "none", amount |-> 0, book |-> <<>>]
  BY DEF Init
<1>2. exch \in Seq(OrderRow) /\ Len(exch) = 0 /\ DOMAIN exch = {} /\ DOMAIN db.book = {}
      /\ db.life = "none" /\ db.amount = 0 /\ db.book = <<>>
  BY <1>1
<1>3. db.book \in Books(exch)
  <2>1. <<>> \in [{} -> Views]
    OBVIOUS
  <2> QED
    BY <1>2, <2>1 DEF Books
<1>4. db \in DbRow(exch)
  BY <1>1, <1>2, <1>3 DEF DbRow, Lives
<1>5. Good(exch, db)
  BY <1>2, <1>4, SizeAssumption DEF Good, RowsOK, OneIn, WindowOf, Counted
<1>6. RowsIn(exch, db, lost)
  BY <1>1, <1>2 DEF RowsIn
<1>7. DoingIn(exch, db, lost, doing)
  BY <1>1, <1>2, IdleFacts DEF DoingIn, Gone
<1>8. AmountIn(exch, db, doing)
  BY <1>1, <1>2, IdleFacts DEF AmountIn
<1> QED
  BY <1>1, <1>2, <1>5, <1>6, <1>7, <1>8, BoundsAssumption DEF Base, BaseAt

LEMMA BaseStep ==
  ASSUME Base, [Next]_vars PROVE Base'
<1>1. ASSUME NEW i \in DOMAIN exch, Fill(i) \/ Withdraw(i) PROVE Base'
  BY <1>1, ExchangeBase
<1>2. ASSUME NEW i \in DOMAIN exch, Step(i) PROVE Base'
  <2>1. CASE Poll(i)
    BY <2>1, AskedBase DEF Poll
  <2>2. CASE \E done \in BOOLEAN : Cancel(i, done) \/ ReplaceExit(i, done) \/ Replace(i, done) \/ Similar(i, done)
    BY <2>2, CancelBase, ReplaceExitBase, ReplaceBase, SimilarBase
  <2> QED
    BY <1>2, <2>1, <2>2 DEF Step
<1>3. ASSUME NEW S \in SUBSET LiveStops, ExitSignal(S) \/ ForcePart(S) \/ NextExit(S) PROVE Base'
  BY <1>3, ExitBase
<1>4. ASSUME NEW S \in SUBSET LiveStops, TrailStop(S) PROVE Base'
  BY <1>4, TrailStopBase
<1>5. CASE HandleEmpty
  BY <1>5, HandleEmptyBase
<1>6. CASE PlaceExit
  BY <1>6, PlaceExitBase
<1>7. CASE Enter
  BY <1>7, EnterBase
<1>8. CASE ReplaceWith
  BY <1>8, ReplaceWithBase
<1>9. CASE PlaceStop
  BY <1>9, PlaceStopBase
<1>10. CASE Record
  BY <1>10, RecordBase
<1>11. CASE Recover
  BY <1>11, RecoverBase
<1>12. CASE Delete
  BY <1>12, DeleteBase
<1>13. CASE Crash
  BY <1>13, CrashBase
<1>14. CASE Startup
  BY <1>14, StartupBase
<1>15. CASE UNCHANGED vars
  BY <1>15 DEF vars, Base
<1> QED
  BY <1>1, <1>2, <1>3, <1>4, <1>5, <1>6, <1>7, <1>8, <1>9, <1>10, <1>11, <1>12, <1>13, <1>14, <1>15
     DEF Next

LEMMA BaseType ==
  ASSUME Base PROVE TypeOK
<1>1. /\ exch \in Seq(OrderRow) /\ Good(exch, db) /\ RowsIn(exch, db, lost) /\ DoingIn(exch, db, lost, doing)
      /\ crashes \in 0 .. MaxCrashes /\ DOMAIN db.book \subseteq DOMAIN exch /\ Len(exch) \in Nat
      /\ db.life \in Lives /\ db.amount \in Nat /\ db.book \in Books(exch)
  BY DbFacts DEF Base, BaseAt, Good
<1>2. ASSUME NEW i \in DOMAIN exch
      PROVE  /\ exch[i].side \in Sides /\ exch[i].amount \in 1 .. Size
             /\ View(i) \in Views /\ exch[i].filled <= exch[i].amount
             /\ exch[i].status = "closed" <=> exch[i].filled = exch[i].amount
  BY <1>1, OrderFacts DEF View, ViewOf, Sides
<1>3. db.amount \in 0 .. Size
  BY <1>1, SizeAssumption DEF Good
<1>4. \A i \in Recorded : db.book[i] \in Views
  BY <1>1, BookFacts DEF Recorded
<1>5. doing.at \in {"idle", "startup", "empty", "again", "trail", "urgent", "limit", "place", "market", "sent"}
      /\ doing.id \in 0 .. Len(exch) /\ doing.amount \in 0 .. Size
  BY <1>1 DEF DoingIn, DoingRow
<1>6. Recorded \cup lost \subseteq DOMAIN exch
  BY <1>1 DEF RowsIn, Recorded
<1> QED
  BY <1>1, <1>2, <1>3, <1>4, <1>5, <1>6 DEF TypeOK, Lives

(* The states of the model are what the handlers can meet: an order is     *)
(* closed exactly when it is filled, every row is of an order of the       *)
(* exchange, and what the bot holds is at most what it buys.               *)
THEOREM TypeCorrect == Spec => []TypeOK
<1>1. Init => Base
  BY BaseInit
<1>2. Base /\ [Next]_vars => Base'
  BY BaseStep
<1>3. Base => TypeOK
  BY BaseType
<1> QED
  BY <1>1, <1>2, <1>3, PTL DEF Spec

LEMMA BaseAmount ==
  ASSUME Base PROVE AmountAgrees
<1> SUFFICES ASSUME db.life = "open", lost = {}, Current, InPart = {}, Held > 0 PROVE db.amount = Held
  BY DEF AmountAgrees
<1> DEFINE S == DOMAIN exch
           b == db.book
           h == Ledger(exch, b)
           f == Filled(exch)
           P == On({"entry"})
           M == On({"exit", "stop"})
<1>1. /\ exch \in Seq(OrderRow) /\ Good(exch, db) /\ b \in Books(exch) /\ DOMAIN b = S
      /\ \A i \in S : b[i] = View(i)
  BY DbFacts DEF Base, BaseAt, Good, RowsIn, Gone, Current, Recorded
<1>2. NetIn(exch, b) = SumFunctionOnSet(h, S) /\ IsFiniteSet(S)
  BY <1>1, NetIsSum DEF NetSum
<1>3. \A i \in S : /\ f[i] = exch[i].filled /\ f[i] \in Int
                   /\ exch[i].side \in {"entry", "exit", "stop"}
  BY <1>1, OrderFacts, SizeAssumption DEF Filled
<1>4. P \in SUBSET S /\ M \in SUBSET S /\ P \cap M = {} /\ S = P \cup M
  BY <1>3 DEF On
<1>5. ASSUME NEW i \in S PROVE h[i] = IF exch[i].side = "entry" THEN f[i] ELSE 0 - f[i]
  <2>1. h[i] = Worth(exch[i], b[i]) /\ b[i].status = exch[i].status /\ b[i].filled = exch[i].filled
    <3>1. h[i] = Worth(exch[i], b[i])
      BY <1>1 DEF Ledger
    <3>2. b[i] = [status |-> exch[i].status, filled |-> exch[i].filled]
      BY <1>1 DEF View
    <3> QED
      BY <3>1, <3>2
  <2>2. CASE exch[i].status # "open"
    BY <1>3, <2>1, <2>2 DEF Worth
  <2>3. CASE exch[i].status = "open"
    <3>1. exch[i].filled = 0
      <4>1. ~(b[i].status = "open" /\ b[i].filled > 0)
        BY <1>1 DEF InPart, Recorded
      <4>2. exch[i].filled \in Nat
        BY <1>1, OrderFacts, SizeAssumption
      <4> QED
        BY <2>1, <2>3, <4>1, <4>2
    <3> QED
      BY <1>3, <2>1, <2>3, <3>1 DEF Worth
  <2> QED
    BY <2>2, <2>3
<1>6. \A i \in P : h[i] = f[i]
  BY <1>4, <1>5 DEF On
<1>7. \A i \in M : h[i] = 0 - f[i]
  BY <1>4, <1>5 DEF On
<1>8. SumFunctionOnSet(h, S) = SumFunctionOnSet(f, P) - SumFunctionOnSet(f, M)
  <2> HIDE DEF h, f, P, M, S
  <2>1. \A i \in S \ (P \cup M) : h[i] = 0
    BY <1>4
  <2>2. \A i \in P \cup M : f[i] \in Int
    BY <1>3, <1>4
  <2> QED
    BY <1>2, <1>4, <1>6, <1>7, <2>1, <2>2, SumSplit
<1>9. Held = NetIn(exch, b)
  BY <1>2, <1>8 DEF Held, Total
<1> QED
  BY <1>1, <1>9 DEF Good, Counted

(* When every row of an open trade is up to date and none is lost, the     *)
(* amount the bot believes it holds is what its orders bought less what    *)
(* they sold: no partial fill, cancellation, replacement, stop or restart  *)
(* is counted twice or not at all.                                         *)
THEOREM AmountsAgree == Spec => []AmountAgrees
<1>1. Init => Base
  BY BaseInit
<1>2. Base /\ [Next]_vars => Base'
  BY BaseStep
<1>3. Base => AmountAgrees
  BY BaseAmount
<1> QED
  BY <1>1, <1>2, <1>3, PTL DEF Spec

-----------------------------------------------------------------------------
(* While no order was lost, more is true: the amount is exactly what the   *)
(* rows add up to, and each order that can still sell fits it.             *)
SoldIn(e) == {i \in DOMAIN e : e[i].side \in Sells}
OpenIn(e, d) == {i \in DOMAIN e : i \in DOMAIN d.book => d.book[i].status = "open"}
EnteredIn(e, d) ==
  {i \in DOMAIN d.book : e[i].side = "entry" /\ d.book[i].status # "open" /\ d.book[i].filled > 0}
Flow(e) == [i \in DOMAIN e |-> IF e[i].side = "entry" THEN e[i].filled ELSE 0 - e[i].filled]
HeldIn(e) == SumFunctionOnSet(Flow(e), DOMAIN e)
Flat(e) == HeldIn(e) = 0 /\ \A i \in DOMAIN e : e[i].status # "open"

(* What an order that sells lays claim to: all it asks for while it is     *)
(* open, and what it sold when it has ended.                               *)
Claim(o) == IF o.status = "open" THEN o.amount ELSE o.filled
Claims(e, d) == [i \in DOMAIN e |-> IF i \in OpenIn(e, d) \cap SoldIn(e) THEN Claim(e[i]) ELSE 0]
ClaimedIn(e, d) == SumFunctionOnSet(Claims(e, d), DOMAIN e)

(* An open trade: the orders that sell and whose end the bot has not seen  *)
(* claim no more than the trade holds, an open stop all of it.             *)
ExactOpen(e, d) ==
  /\ d.amount = NetIn(e, d.book)
  /\ ClaimedIn(e, d) <= d.amount
  /\ \A i \in OpenIn(e, d) \cap SoldIn(e) :
       e[i].side = "stop" /\ e[i].status = "open" => e[i].amount = d.amount

(* No two orders that sell are open at the exchange.                       *)
OneLive(e) == \A i, j \in SoldIn(e) : i # j => e[i].status # "open" \/ e[j].status # "open"

(* Nothing is sold before something was bought, nor while an entry is open.*)
ExactEntered(e, d) ==
  /\ EnteredIn(e, d) = {} => SoldIn(e) = {}
  /\ EnteredIn(e, d) # {} => d.amount > 0
  /\ SoldIn(e) # {} => \A i \in OpenIn(e, d) : e[i].side # "entry"

ExactClosed(e, d) == d.amount > 0 /\ \A i \in OpenIn(e, d) : EmptyAt(e, i)
Exact(e, d) ==
  /\ OneLive(e)
  /\ d.life = "none" => SoldIn(e) = {} /\ d.amount = 0
  /\ d.life = "open" => ExactOpen(e, d)
  /\ d.life \in {"open", "closed"} => ExactEntered(e, d)
  /\ d.life = "closed" => ExactClosed(e, d)
  /\ d.life \in {"closed", "dropped"} => Flat(e)

ExactDoing(e, d, g) ==
  /\ g.at \in {"again", "empty"} => SoldIn(e) = {}
  /\ g.at = "trail" => SoldIn(e) # {}
  /\ g.at = "sent" => d.life # "closed" /\ (g.answer.status = "open" \/ g.answer.filled > 0)
Known(l, g) == l = IF g.at = "sent" THEN {g.id} ELSE {}
ExactAt(e, d, l, g) == Known(l, g) => Exact(e, d) /\ ExactDoing(e, d, g)

(* What the orders of some sides bought or sold.                           *)
SumOf(e, sides) == SumFunctionOnSet(Filled(e), {i \in DOMAIN e : e[i].side \in sides})
BoughtIn(e) == SumOf(e, {"entry"})
SoldBy(e) == SumOf(e, {"exit", "stop"})

LEMMA SumOfFacts ==
  ASSUME NEW e \in Seq(OrderRow), NEW sides
  PROVE  /\ SumOf(e, sides) \in Nat
         /\ IsFiniteSet({i \in DOMAIN e : e[i].side \in sides})
         /\ \A i \in DOMAIN e : /\ Filled(e)[i] = e[i].filled /\ Filled(e)[i] \in Nat
                                /\ e[i].side \in sides => e[i].filled <= SumOf(e, sides)
<1> DEFINE S == {i \in DOMAIN e : e[i].side \in sides}
           f == Filled(e)
<1>1. \A i \in DOMAIN e : f[i] = e[i].filled /\ f[i] \in Nat
  BY OrderFacts, SizeAssumption DEF Filled
<1>2. IsFiniteSet(S) /\ \A i \in S : i \in DOMAIN e /\ f[i] \in Nat
  <2> DEFINE n == Len(e)
  <2>1. n \in Nat /\ DOMAIN e = 1 .. n /\ S \subseteq DOMAIN e
    OBVIOUS
  <2> HIDE DEF n, S
  <2>2. IsFiniteSet(1 .. n)
    BY <2>1, FS_Interval
  <2>3. IsFiniteSet(S)
    BY <2>1, <2>2, FS_Subset
  <2> QED
    BY <1>1, <2>1, <2>3
<1>3. \A i \in DOMAIN e : e[i].side \in sides => i \in S
  OBVIOUS
<1> HIDE DEF S, f
<1>4. SumFunctionOnSet(f, S) \in Nat /\ \A i \in S : f[i] <= SumFunctionOnSet(f, S)
  BY <1>2, SumNatural
<1> QED
  BY <1>1, <1>2, <1>3, <1>4 DEF SumOf, S, f

LEMMA HeldParts ==
  ASSUME NEW e \in Seq(OrderRow)
  PROVE  /\ HeldIn(e) = BoughtIn(e) - SoldBy(e) /\ HeldIn(e) \in Int
         /\ BoughtIn(e) \in Nat /\ SoldBy(e) \in Nat
<1> DEFINE S == DOMAIN e
           h == Flow(e)
           f == Filled(e)
           P == {i \in DOMAIN e : e[i].side \in {"entry"}}
           M == {i \in DOMAIN e : e[i].side \in {"exit", "stop"}}
<1>1. \A i \in S : /\ f[i] = e[i].filled /\ f[i] \in Int
                   /\ e[i].side \in {"entry", "exit", "stop"}
  BY OrderFacts, SizeAssumption DEF Filled
<1>2. P \in SUBSET S /\ M \in SUBSET S /\ P \cap M = {} /\ S = P \cup M
  BY <1>1
<1>3. \A i \in S : h[i] = IF e[i].side = "entry" THEN f[i] ELSE 0 - f[i]
  BY <1>1 DEF Flow
<1>4. \A i \in P : h[i] = f[i]
  BY <1>2, <1>3
<1>5. \A i \in M : h[i] = 0 - f[i]
  BY <1>2, <1>3
<1>6. IsFiniteSet(S)
  <2>1. Len(e) \in Nat /\ S = 1 .. Len(e)
    OBVIOUS
  <2> QED
    BY <2>1, FS_Interval
<1>7. /\ SumFunctionOnSet(h, S) = SumFunctionOnSet(f, P) - SumFunctionOnSet(f, M)
      /\ SumFunctionOnSet(h, S) \in Int
  <2> HIDE DEF h, f, P, M, S
  <2>1. \A i \in S \ (P \cup M) : h[i] = 0
    BY <1>2
  <2>2. \A i \in P \cup M : f[i] \in Int
    BY <1>1, <1>2
  <2>3. \A i \in S : h[i] \in Int
    BY <1>1, <1>3
  <2> QED
    BY <1>2, <1>4, <1>5, <1>6, <2>1, <2>2, <2>3, SumSplit, SumFacts
<1>8. BoughtIn(e) \in Nat /\ SoldBy(e) \in Nat
  BY SumOfFacts DEF BoughtIn, SoldBy
<1> HIDE DEF h, f, P, M, S
<1> QED
  BY <1>7, <1>8 DEF HeldIn, BoughtIn, SoldBy, SumOf, h, f, P, M, S

LEMMA TotalIs == Total(On({"entry"})) = BoughtIn(exch) /\ Total(On({"exit", "stop"})) = SoldBy(exch)
BY DEF Total, On, BoughtIn, SoldBy, SumOf

LEMMA HeldIs ==
  ASSUME exch \in Seq(OrderRow)
  PROVE  Held = HeldIn(exch) /\ HeldIn(exch) \in Int
BY TotalIs, HeldParts DEF Held

(* The rows and the exchange differ by the orders that are open in the     *)
(* rows.                                                                   *)
LEMMA FlowFacts ==
  ASSUME NEW e \in Seq(OrderRow), NEW d, Good(e, d), NEW i \in DOMAIN e
  PROVE  /\ Flow(e)[i] = IF e[i].side = "entry" THEN e[i].filled ELSE 0 - e[i].filled
         /\ Flow(e)[i] \in Int /\ (e[i].filled = 0 => Flow(e)[i] = 0)
         /\ i \notin OpenIn(e, d) => Flow(e)[i] = Ledger(e, d.book)[i] /\ e[i].status # "open"
         /\ i \in OpenIn(e, d) => Ledger(e, d.book)[i] = 0
<1>1. Flow(e)[i] = IF e[i].side = "entry" THEN e[i].filled ELSE 0 - e[i].filled
  BY DEF Flow
<1>2. e[i].filled \in Int
  BY OrderFacts, SizeAssumption
<1>3. d.book \in Books(e)
  BY DbFacts DEF Good
<1>4. ASSUME i \notin OpenIn(e, d) PROVE Flow(e)[i] = Ledger(e, d.book)[i] /\ e[i].status # "open"
  <2>1. i \in DOMAIN d.book /\ d.book[i].status # "open"
    BY <1>4 DEF OpenIn
  <2>2. d.book[i] = ViewOf(e, i)
    BY <2>1 DEF Good, RowsOK
  <2>3. d.book[i].status = e[i].status /\ d.book[i].filled = e[i].filled
    BY <2>2 DEF ViewOf
  <2>4. Ledger(e, d.book)[i] = Worth(e[i], d.book[i])
    BY <2>1 DEF Ledger
  <2> QED
    BY <1>1, <2>1, <2>3, <2>4 DEF Worth
<1>5. ASSUME i \in OpenIn(e, d) PROVE Ledger(e, d.book)[i] = 0
  <2>1. CASE i \in DOMAIN d.book
    <3>1. Ledger(e, d.book)[i] = Worth(e[i], d.book[i]) /\ d.book[i].status = "open"
      BY <1>5, <2>1 DEF Ledger, OpenIn
    <3> QED
      BY <3>1 DEF Worth
  <2>2. CASE i \notin DOMAIN d.book
    BY <2>2 DEF Ledger
  <2> QED
    BY <2>1, <2>2
<1> QED
  BY <1>1, <1>2, <1>4, <1>5

LEMMA HeldIsNet ==
  ASSUME NEW e \in Seq(OrderRow), NEW d, Good(e, d), \A i \in OpenIn(e, d) : e[i].filled = 0
  PROVE  HeldIn(e) = NetIn(e, d.book) /\ NetIn(e, d.book) \in Int
<1>1. d.book \in Books(e)
  BY DbFacts DEF Good
<1>2. IsFiniteSet(DOMAIN e) /\ NetIn(e, d.book) = NetSum(e, d.book) /\ NetSum(e, d.book) \in Int
  BY <1>1, NetIsSum
<1>3. \A i \in DOMAIN e : Flow(e)[i] = Ledger(e, d.book)[i]
  BY FlowFacts
<1>4. SumFunctionOnSet(Flow(e), DOMAIN e) = SumFunctionOnSet(Ledger(e, d.book), DOMAIN e)
  BY <1>2, <1>3, SumSame
<1> QED
  BY <1>2, <1>4 DEF HeldIn, NetSum

LEMMA HeldIsNetWith ==
  ASSUME NEW e \in Seq(OrderRow), NEW d, Good(e, d), NEW x \in OpenIn(e, d),
         \A i \in OpenIn(e, d) \ {x} : e[i].filled = 0
  PROVE  HeldIn(e) = NetIn(e, d.book) + Flow(e)[x] /\ NetIn(e, d.book) \in Int /\ Flow(e)[x] \in Int
<1> DEFINE f == Flow(e)
           h == Ledger(e, d.book)
           S == DOMAIN e
<1>1. d.book \in Books(e) /\ x \in S
  BY DbFacts DEF Good, OpenIn
<1>2. /\ IsFiniteSet(S) /\ NetIn(e, d.book) = SumFunctionOnSet(h, S) /\ NetIn(e, d.book) \in Int
      /\ \A i \in S : h[i] \in Int
  BY <1>1, NetIsSum DEF NetSum
<1>3. /\ \A i \in S : f[i] \in Int
      /\ \A i \in S \ {x} : f[i] = h[i]
      /\ h[x] = 0
  BY <1>1, FlowFacts
<1> HIDE DEF f, h, S
<1>4. SumFunctionOnSet(f, S) = SumFunctionOnSet(h, S) - h[x] + f[x]
  BY <1>1, <1>2, <1>3, SumChanged
<1> QED
  BY <1>1, <1>2, <1>3, <1>4 DEF HeldIn, f, S

LEMMA NetWritten ==
  ASSUME NEW e \in Seq(OrderRow), NEW b \in Books(e), NEW c \in Books(e), NEW i \in DOMAIN e,
         i \in DOMAIN b => b[i].status = "open",
         DOMAIN c = DOMAIN b \cup {i}, \A j \in DOMAIN b \ {i} : c[j] = b[j]
  PROVE  /\ NetIn(e, c) = NetIn(e, b) + Worth(e[i], c[i])
         /\ NetIn(e, b) \in Int /\ Worth(e[i], c[i]) \in Int
<1> DEFINE f == Ledger(e, b)
           g == Ledger(e, c)
           S == DOMAIN e
<1>1. /\ IsFiniteSet(S) /\ NetIn(e, b) = SumFunctionOnSet(f, S) /\ NetIn(e, c) = SumFunctionOnSet(g, S)
      /\ \A j \in S : f[j] \in Int /\ g[j] \in Int
      /\ NetIn(e, b) \in Int
  BY NetIsSum DEF NetSum
<1>2. f[i] = 0 /\ g[i] = Worth(e[i], c[i])
  <2>1. CASE i \in DOMAIN b
    BY <2>1 DEF Ledger, Worth
  <2>2. CASE i \notin DOMAIN b
    BY <2>2 DEF Ledger
  <2> QED
    BY <2>1, <2>2
<1>3. \A j \in S \ {i} : g[j] = f[j]
  BY DEF Ledger
<1> HIDE DEF f, g, S
<1>4. SumFunctionOnSet(g, S) = SumFunctionOnSet(f, S) - f[i] + g[i]
  BY <1>1, <1>3, SumChanged DEF S
<1>5. SumFunctionOnSet(f, S) \in Int /\ g[i] \in Int
  BY <1>1 DEF S
<1> QED
  BY <1>1, <1>2, <1>4, <1>5

(* What is claimed of the trade.                                           *)
LEMMA ClaimFacts ==
  ASSUME NEW e \in Seq(OrderRow), NEW d
  PROVE  /\ IsFiniteSet(DOMAIN e) /\ ClaimedIn(e, d) \in Nat
         /\ \A i \in DOMAIN e : /\ Claims(e, d)[i] \in Nat /\ Claims(e, d)[i] <= ClaimedIn(e, d)
                                /\ Claim(e[i]) \in Nat /\ Claim(e[i]) <= e[i].amount
                                /\ e[i].status = "open" => Claim(e[i]) = e[i].amount
                                /\ e[i].status # "open" => Claim(e[i]) = e[i].filled
                                /\ Claim(e[i]) = 0 => EmptyAt(e, i)
         /\ \A i \in OpenIn(e, d) \cap SoldIn(e) : i \in DOMAIN e /\ Claims(e, d)[i] = Claim(e[i])
         /\ \A i \in DOMAIN e : i \notin OpenIn(e, d) \cap SoldIn(e) => Claims(e, d)[i] = 0
<1> DEFINE S == DOMAIN e
           f == Claims(e, d)
<1>1. IsFiniteSet(S)
  <2>1. Len(e) \in Nat /\ S = 1 .. Len(e)
    OBVIOUS
  <2> QED
    BY <2>1, FS_Interval
<1>2. ASSUME NEW i \in S
      PROVE  /\ Claim(e[i]) \in Nat /\ Claim(e[i]) <= e[i].amount
             /\ e[i].status = "open" => Claim(e[i]) = e[i].amount
             /\ e[i].status # "open" => Claim(e[i]) = e[i].filled
             /\ Claim(e[i]) = 0 => EmptyAt(e, i)
  <2>1. /\ e[i].status \in {"open", "closed", "canceled"} /\ e[i].filled \in 0 .. Size
        /\ e[i].amount \in 1 .. Size /\ e[i].filled <= e[i].amount
        /\ e[i].status = "closed" <=> e[i].filled = e[i].amount
    BY OrderFacts
  <2>2. e[i].status = "open" => Claim(e[i]) = e[i].amount
    BY DEF Claim
  <2>3. e[i].status # "open" => Claim(e[i]) = e[i].filled
    BY DEF Claim
  <2>4. Claim(e[i]) \in Nat /\ Claim(e[i]) <= e[i].amount
    BY <2>1, <2>2, <2>3, SizeAssumption
  <2>5. ASSUME Claim(e[i]) = 0 PROVE EmptyAt(e, i)
    <3>1. e[i].status # "open" /\ e[i].filled = 0
      BY <2>1, <2>2, <2>3, <2>5, SizeAssumption
    <3>2. e[i].status = "canceled"
      BY <2>1, <3>1, SizeAssumption
    <3> QED
      BY <3>1, <3>2 DEF EmptyAt, ViewOf, NoFill
  <2> QED
    BY <2>2, <2>3, <2>4, <2>5
<1>3. \A i \in OpenIn(e, d) \cap SoldIn(e) : i \in S /\ f[i] = Claim(e[i])
  BY DEF Claims, SoldIn
<1>4. \A i \in S : i \notin OpenIn(e, d) \cap SoldIn(e) => f[i] = 0
  BY DEF Claims
<1>5. \A i \in S : f[i] \in Nat
  BY <1>2, <1>3, <1>4
<1> HIDE DEF S, f
<1>6. SumFunctionOnSet(f, S) \in Nat /\ \A i \in S : f[i] <= SumFunctionOnSet(f, S)
  BY <1>1, <1>5, SumNatural
<1> QED
  BY <1>1, <1>2, <1>3, <1>4, <1>5, <1>6 DEF ClaimedIn, S, f

LEMMA TwoClaims ==
  ASSUME NEW e \in Seq(OrderRow), NEW d, NEW i \in DOMAIN e, NEW j \in DOMAIN e, i # j
  PROVE  Claims(e, d)[i] + Claims(e, d)[j] <= ClaimedIn(e, d)
<1> DEFINE S == DOMAIN e
           R == S \ {i}
           f == Claims(e, d)
<1>1. IsFiniteSet(S) /\ IsFiniteSet(R) /\ i \in S /\ j \in R /\ R \subseteq S
      /\ (\A k \in S : f[k] \in Nat /\ f[k] \in Int)
  BY ClaimFacts, FS_RemoveElement
<1>2. R = S \ {i}
  OBVIOUS
<1> HIDE DEF S, R, f
<1>3. SumFunctionOnSet(f, S) = SumFunctionOnSet(f, R) + f[i]
  BY <1>1, <1>2, SumFacts
<1>4. SumFunctionOnSet(f, R) \in Nat /\ f[j] <= SumFunctionOnSet(f, R)
  BY <1>1, SumNatural
<1> QED
  BY <1>1, <1>3, <1>4 DEF ClaimedIn, S, f

LEMMA NoClaims ==
  ASSUME NEW e \in Seq(OrderRow), NEW d, SoldIn(e) = {}
  PROVE  ClaimedIn(e, d) = 0
<1> DEFINE S == DOMAIN e
           f == Claims(e, d)
<1>1. IsFiniteSet(S) /\ (\A i \in S : f[i] \in Int /\ f[i] <= 0) /\ SumFunctionOnSet(f, S) \in Nat
  BY ClaimFacts DEF ClaimedIn
<1> HIDE DEF S, f
<1>2. SumFunctionOnSet(f, S) <= 0
  BY <1>1, SumNotPositive
<1> QED
  BY <1>1, <1>2 DEF ClaimedIn, S, f

(* A claim that is not there any more.                                     *)
LEMMA LessClaimed ==
  ASSUME NEW e \in Seq(OrderRow), NEW f \in Seq(OrderRow), DOMAIN f = DOMAIN e, NEW d, NEW u,
         \A i \in DOMAIN e : Claims(f, u)[i] <= Claims(e, d)[i]
  PROVE  ClaimedIn(f, u) <= ClaimedIn(e, d)
<1> DEFINE S == DOMAIN e
           h == Claims(f, u)
           k == Claims(e, d)
<1>1. IsFiniteSet(S) /\ \A i \in S : h[i] \in Int /\ k[i] \in Int /\ h[i] <= k[i]
  BY ClaimFacts
<1> HIDE DEF S, h, k
<1>2. SumFunctionOnSet(h, S) <= SumFunctionOnSet(k, S)
  BY <1>1, SumLess
<1> QED
  BY <1>2 DEF ClaimedIn, S, h, k

LEMMA OneSettled ==
  ASSUME NEW e \in Seq(OrderRow), NEW d, NEW u, NEW i \in OpenIn(e, d) \cap SoldIn(e),
         OpenIn(e, u) = OpenIn(e, d) \ {i}
  PROVE  ClaimedIn(e, u) = ClaimedIn(e, d) - Claim(e[i])
<1> DEFINE S == DOMAIN e
           h == Claims(e, u)
           k == Claims(e, d)
<1>1. /\ IsFiniteSet(S) /\ i \in S /\ (\A j \in S : k[j] \in Int /\ h[j] \in Int)
      /\ k[i] = Claim(e[i]) /\ h[i] = 0 /\ k[i] \in Int /\ SumFunctionOnSet(k, S) \in Int
  BY ClaimFacts DEF ClaimedIn
<1>2. \A j \in S \ {i} : h[j] = k[j]
  BY DEF Claims
<1> HIDE DEF S, h, k
<1>3. SumFunctionOnSet(h, S) = SumFunctionOnSet(k, S) - k[i] + h[i]
  BY <1>1, <1>2, SumChanged
<1> QED
  BY <1>1, <1>3 DEF ClaimedIn, S, h, k

(* A row that is not written, or says that an order ended unfilled.        *)
LEMMA ExactSame ==
  ASSUME NEW e \in Seq(OrderRow), NEW d, d.amount \in Nat, Exact(e, d),
         NEW u, u.life = d.life, u.amount = d.amount,
         OpenIn(e, u) \subseteq OpenIn(e, d), EnteredIn(e, u) = EnteredIn(e, d),
         NetIn(e, u.book) = NetIn(e, d.book)
  PROVE  Exact(e, u)
<1>1. ExactOpen(e, d) => ExactOpen(e, u)
  <2>1. \A i \in DOMAIN e : Claims(e, u)[i] <= Claims(e, d)[i]
    <3>1. SUFFICES ASSUME NEW i \in DOMAIN e PROVE Claims(e, u)[i] <= Claims(e, d)[i]
      OBVIOUS
    <3>2. CASE i \in OpenIn(e, u) \cap SoldIn(e)
      <4>1. Claims(e, u)[i] = Claims(e, d)[i]
        BY <3>2 DEF Claims
      <4> QED
        BY <4>1, ClaimFacts
    <3>3. CASE i \notin OpenIn(e, u) \cap SoldIn(e)
      BY <3>3, ClaimFacts
    <3> QED
      BY <3>2, <3>3
  <2>2. ClaimedIn(e, u) <= ClaimedIn(e, d) /\ ClaimedIn(e, u) \in Nat /\ ClaimedIn(e, d) \in Nat
    BY <2>1, LessClaimed, ClaimFacts
  <2> QED
    BY <2>2 DEF ExactOpen
<1>2. ExactEntered(e, d) => ExactEntered(e, u)
  BY DEF ExactEntered
<1>3. ExactClosed(e, d) => ExactClosed(e, u)
  BY DEF ExactClosed
<1> QED
  BY <1>1, <1>2, <1>3 DEF Exact

(* What orders do at the exchange.  When the trade is flat they do nothing.*)
LEMMA ExactMoves ==
  ASSUME NEW e \in Seq(OrderRow), NEW f \in Seq(OrderRow), Moves(e, f), NEW d, Good(e, d), Exact(e, d)
  PROVE  Exact(f, d) /\ SoldIn(f) = SoldIn(e)
<1>1. /\ DOMAIN f = DOMAIN e /\ SameSides(e, f)
      /\ \A i \in DOMAIN e : /\ EmptyAt(e, i) => EmptyAt(f, i)
                             /\ e[i].side = "entry" <=> f[i].side = "entry"
                             /\ e[i].side \in Sells <=> f[i].side \in Sells
                             /\ f[i].side = "stop" => e[i].side = "stop"
                             /\ f[i].status = "open" => e[i].status = "open"
                             /\ f[i].amount = e[i].amount
  BY MovesFacts DEF Moves
<1>2. d.book \in Books(e) /\ DOMAIN d.book \subseteq DOMAIN e
  BY DbFacts DEF Good
<1>3. NetIn(f, d.book) = NetIn(e, d.book)
  BY <1>1, <1>2, NetSameSides
<1>4. SoldIn(f) = SoldIn(e)
  BY <1>1 DEF SoldIn
<1>5. OpenIn(f, d) = OpenIn(e, d)
  BY <1>1 DEF OpenIn
<1>6. EnteredIn(f, d) = EnteredIn(e, d)
  BY <1>1, <1>2 DEF EnteredIn
<1>7. \A i \in OpenIn(e, d) : i \in DOMAIN e
  BY DEF OpenIn
<1>8. ExactOpen(e, d) => ExactOpen(f, d)
  <2>1. \A i \in DOMAIN e : Claims(f, d)[i] <= Claims(e, d)[i]
    <3>1. SUFFICES ASSUME NEW i \in DOMAIN e PROVE Claims(f, d)[i] <= Claims(e, d)[i]
      OBVIOUS
    <3>2. CASE i \in OpenIn(e, d) \cap SoldIn(e)
      <4>1. Claims(f, d)[i] = Claim(f[i]) /\ Claims(e, d)[i] = Claim(e[i])
        BY <1>4, <1>5, <3>2, ClaimFacts
      <4>2. CASE e[i].status = "open"
        BY <1>1, <3>1, <4>1, <4>2, ClaimFacts
      <4>3. CASE e[i].status # "open"
        <5>1. f[i].status = e[i].status /\ f[i].filled = e[i].filled
          BY <3>1, <4>3 DEF Moves, ViewOf
        <5>2. Claim(f[i]) = Claim(e[i])
          BY <5>1, <4>3 DEF Claim
        <5> QED
          BY <3>1, <4>1, <5>2, ClaimFacts
      <4> QED
        BY <4>2, <4>3
    <3>3. CASE i \notin OpenIn(e, d) \cap SoldIn(e)
      BY <1>1, <1>4, <1>5, <3>3, ClaimFacts
    <3> QED
      BY <3>2, <3>3
  <2>2. /\ ClaimedIn(f, d) <= ClaimedIn(e, d) /\ ClaimedIn(f, d) \in Nat /\ ClaimedIn(e, d) \in Nat
        /\ d.amount \in Nat
    BY <1>1, <2>1, LessClaimed, ClaimFacts, DbFacts DEF Good
  <2> QED
    BY <1>1, <1>3, <1>4, <1>5, <1>7, <2>2 DEF ExactOpen
<1>9. ExactEntered(e, d) => ExactEntered(f, d)
  BY <1>1, <1>4, <1>5, <1>6, <1>7 DEF ExactEntered
<1>10. ExactClosed(e, d) => ExactClosed(f, d)
  BY <1>1, <1>5, <1>7 DEF ExactClosed
<1>11. Flat(e) => Flat(f)
  <2>1. SUFFICES ASSUME Flat(e) PROVE Flat(f)
    OBVIOUS
  <2>2. \A i \in DOMAIN e : f[i].filled = e[i].filled
    BY <2>1 DEF Flat, Moves, ViewOf
  <2>3. \A i \in DOMAIN e : Flow(f)[i] = Flow(e)[i]
    BY <1>1, <2>2 DEF Flow
  <2>4. IsFiniteSet(DOMAIN e)
    BY <1>2, NetIsSum
  <2>5. HeldIn(f) = HeldIn(e)
    BY <1>1, <2>3, <2>4, SumSame DEF HeldIn
  <2> QED
    BY <1>1, <2>1, <2>5 DEF Flat
<1>12. OneLive(e) => OneLive(f)
  <2>1. \A i \in SoldIn(e) : i \in DOMAIN e
    BY DEF SoldIn
  <2> QED
    BY <1>1, <1>4, <2>1 DEF OneLive
<1> QED
  BY <1>4, <1>8, <1>9, <1>10, <1>11, <1>12 DEF Exact

LEMMA ExactMoveKeeps ==
  ASSUME NEW e \in Seq(OrderRow), NEW f \in Seq(OrderRow), Moves(e, f), NEW d, Good(e, d), NEW l, NEW g,
         ExactAt(e, d, l, g)
  PROVE  ExactAt(f, d, l, g)
BY ExactMoves DEF ExactAt, ExactDoing

(* The answer about an order whose end was not known.  If it bought, no    *)
(* order sells yet; if it sold, it sold part of what the trade holds, or   *)
(* all of it, and then the trade is closed and nothing is left.            *)
LEMMA ExactWritten ==
  ASSUME exch \in Seq(OrderRow), NEW e \in Seq(OrderRow), SameSides(exch, e),
         NEW d, Good(e, d), d.life \in {"open", "closed"}, Exact(e, d),
         NEW i \in OpenIn(e, d), NEW v \in Views, v.status # "open" => v = ViewOf(e, i),
         NEW again, again = FALSE
  PROVE  Exact(e, Updated(d, i, v, again))
<1> DEFINE u == Updated(d, i, v, again)
           net == NetIn(e, u.book)
           before == NetIn(e, d.book)
<1>1. /\ i \in DOMAIN e /\ d \in DbRow(e) /\ again \in BOOLEAN /\ d.book \in Books(e) /\ d.amount \in Nat
      /\ DOMAIN d.book \subseteq DOMAIN e
      /\ i \in DOMAIN d.book => d.book[i].status = "open"
  BY DbFacts DEF Good, OpenIn
<1>2. /\ u \in DbRow(e) /\ u.life \in {d.life, "closed"}
      /\ DOMAIN u.book = DOMAIN d.book \cup {i}
      /\ \A j \in DOMAIN u.book : u.book[j] = IF j = i THEN v ELSE d.book[j]
      /\ v.status = "open" \/ v.filled = 0 => u.amount = d.amount /\ u.life = d.life
      /\ v.status # "open" /\ v.filled # 0 /\ e[i].side = "entry" =>
           u.life = d.life /\ u.amount = IF net > 0 THEN net ELSE v.filled
      /\ v.status # "open" /\ v.filled # 0 /\ e[i].side # "entry" =>
           \/ Closes(d, v, again) /\ u.life = "closed" /\ u.amount = d.amount
           \/ ~Closes(d, v, again) /\ u.life = d.life
              /\ u.amount = IF net > 0 THEN net ELSE d.amount
      /\ d.amount > 0 => u.amount > 0
  BY <1>1, UpdatedFacts
<1> HIDE DEF u
<1>3. u.book \in Books(e) /\ u.book[i] = v /\ \A j \in DOMAIN d.book \ {i} : u.book[j] = d.book[j]
  BY <1>2, DbFacts
<1>4. net = before + Worth(e[i], v) /\ before \in Int /\ Worth(e[i], v) \in Int
  BY <1>1, <1>2, <1>3, NetWritten
<1>5. v.filled \in Nat /\ v.status \in {"open", "closed", "canceled"}
  BY SizeAssumption DEF Views
<1>6. /\ OpenIn(e, u) \subseteq OpenIn(e, d) /\ (v.status # "open" => i \notin OpenIn(e, u))
      /\ \A j \in OpenIn(e, d) : j = i \/ j \in OpenIn(e, u)
      /\ \A j \in DOMAIN e : j \in OpenIn(e, u) \/ j \in OpenIn(e, d) \/ j \notin OpenIn(e, d)
  BY <1>1, <1>2, <1>3 DEF OpenIn
<1>7. /\ \A j \in EnteredIn(e, d) : j \in EnteredIn(e, u)
      /\ \A j \in EnteredIn(e, u) : j \in EnteredIn(e, d) \/ j = i
      /\ i \in EnteredIn(e, u) => e[i].side = "entry" /\ v.status # "open" /\ v.filled > 0
      /\ e[i].side = "entry" /\ v.status # "open" /\ v.filled > 0 => i \in EnteredIn(e, u)
      /\ i \notin EnteredIn(e, d)
  BY <1>1, <1>2, <1>3 DEF EnteredIn
<1>8. CASE v.status = "open" \/ v.filled = 0
  <2>1. EnteredIn(e, u) = EnteredIn(e, d)
    <3>1. i \notin EnteredIn(e, u)
      BY <1>5, <1>7, <1>8
    <3> HIDE DEF net, before
    <3> QED
      BY <1>7, <3>1
  <2>2. Worth(e[i], v) = 0
    BY <1>8 DEF Worth
  <2>3. net = before
    BY <1>4, <2>2
  <2> HIDE DEF net, before
  <2>4. NetIn(e, u.book) = NetIn(e, d.book)
    BY <2>3 DEF net, before
  <2>5. Exact(e, u)
    BY <1>1, <1>2, <1>6, <1>8, <2>1, <2>4, ExactSame
  <2> QED
    BY <2>5 DEF u
<1>9. CASE v.status # "open" /\ v.filled # 0
  <2>1. v = ViewOf(e, i) /\ e[i].status # "open" /\ v.filled = e[i].filled /\ v.filled <= e[i].amount
        /\ e[i].amount \in Nat /\ ~EmptyAt(e, i) /\ e[i].side \in {"entry", "exit", "stop"}
    BY <1>1, <1>9, OrderFacts DEF EmptyAt, NoFill
  <2>2. d.life = "open" /\ ExactOpen(e, d) /\ ExactEntered(e, d) /\ OneLive(e)
    BY <2>1 DEF Exact, ExactClosed
  <2>3. d.amount = before
    BY <2>2 DEF ExactOpen
  <2>4. CASE e[i].side = "entry"
    <3>1. SoldIn(e) = {}
      BY <2>2, <2>4 DEF ExactEntered
    <3>2. Worth(e[i], v) = v.filled
      BY <1>9, <2>4 DEF Worth
    <3>3. net > 0
      BY <1>1, <1>4, <1>5, <1>9, <2>3, <3>2
    <3>4. u.life = "open" /\ u.amount = net
      BY <1>2, <1>9, <2>2, <2>4, <3>3
    <3>5. ExactOpen(e, u)
      <4>1. ClaimedIn(e, u) <= u.amount
        BY <1>4, <3>1, <3>3, <3>4, NoClaims
      <4> QED
        BY <3>1, <3>4, <4>1 DEF ExactOpen
    <3>6. ExactEntered(e, u)
      BY <3>1, <3>3, <3>4 DEF ExactEntered
    <3>7. Exact(e, u)
      BY <2>2, <3>4, <3>5, <3>6 DEF Exact
    <3> QED
      BY <3>7 DEF u
  <2>5. CASE e[i].side # "entry"
    <3>1. i \in SoldIn(e) /\ i \in OpenIn(e, d) \cap SoldIn(e)
      BY <1>1, <2>1, <2>5 DEF SoldIn, Sells
    <3>2. /\ Claim(e[i]) = v.filled /\ Claims(e, d)[i] = v.filled /\ ClaimedIn(e, d) <= d.amount
          /\ ClaimedIn(e, d) \in Nat /\ v.filled <= d.amount
      <4>1. Claim(e[i]) = v.filled /\ Claims(e, d)[i] = v.filled
        BY <2>1, <3>1, ClaimFacts
      <4>2. ClaimedIn(e, d) \in Nat /\ Claims(e, d)[i] <= ClaimedIn(e, d) /\ ClaimedIn(e, d) <= d.amount
        BY <1>1, <2>2, ClaimFacts DEF ExactOpen
      <4> QED
        BY <1>1, <1>5, <4>1, <4>2
    <3>3. \A j \in OpenIn(e, d) \ {i} : j \in OpenIn(e, d) \cap SoldIn(e) /\ j \in DOMAIN e /\ j # i
                                     /\ Claims(e, d)[j] = Claim(e[j]) /\ Claim(e[j]) \in Nat
                                     /\ v.filled + Claim(e[j]) <= d.amount
      <4>1. SUFFICES ASSUME NEW j \in OpenIn(e, d) \ {i}
                     PROVE  /\ j \in OpenIn(e, d) \cap SoldIn(e) /\ j \in DOMAIN e
                            /\ Claims(e, d)[j] = Claim(e[j]) /\ Claim(e[j]) \in Nat
                            /\ v.filled + Claim(e[j]) <= d.amount
        OBVIOUS
      <4>2. j \in DOMAIN e /\ e[j].side # "entry"
        BY <2>2, <3>1 DEF ExactEntered, OpenIn
      <4>3. j \in SoldIn(e)
        BY <4>2, OrderFacts DEF SoldIn, Sells
      <4>4. Claims(e, d)[j] = Claim(e[j]) /\ Claim(e[j]) \in Nat
        BY <4>2, <4>3, ClaimFacts
      <4>5. Claims(e, d)[i] + Claims(e, d)[j] <= ClaimedIn(e, d)
        BY <1>1, <4>2, TwoClaims
      <4> QED
        BY <1>1, <1>5, <3>2, <4>2, <4>3, <4>4, <4>5
    <3>4. \A j \in OpenIn(e, u) : j \in OpenIn(e, d) \ {i}
      BY <1>6, <1>9
    <3>5. EnteredIn(e, d) # {} /\ EnteredIn(e, u) # {} /\ d.amount > 0
      BY <1>7, <2>2, <3>1 DEF ExactEntered
    <3>6. u.amount > 0
      BY <1>2, <3>5
    <3>7. ExactEntered(e, u)
      BY <2>2, <3>1, <3>4, <3>5, <3>6 DEF ExactEntered
    <3>8. Worth(e[i], v) = 0 - v.filled
      BY <1>9, <2>5 DEF Worth
    <3>9. CASE v.filled = d.amount
      <4>1. Closes(d, v, again)
        BY <3>9 DEF Closes
      <4>2. u.life = "closed" /\ u.amount = d.amount
        BY <1>2, <1>9, <2>5, <4>1
      <4>7. \A j \in OpenIn(e, d) \ {i} : EmptyAt(e, j)
        <5>1. \A j \in OpenIn(e, d) \ {i} : Claim(e[j]) = 0 /\ j \in DOMAIN e
          BY <1>1, <1>5, <3>3, <3>9
        <5> QED
          BY <5>1, ClaimFacts
      <4>3. HeldIn(e) = 0
        <5>1. \A j \in OpenIn(e, d) \ {i} : e[j].filled = 0
          BY <4>7 DEF EmptyAt, ViewOf, NoFill
        <5>2. HeldIn(e) = before + Flow(e)[i]
          BY <5>1, HeldIsNetWith
        <5>3. Flow(e)[i] = 0 - v.filled
          BY <1>1, <2>1, <2>5, FlowFacts
        <5> HIDE DEF before
        <5> QED
          BY <1>1, <1>4, <1>5, <2>3, <3>9, <5>2, <5>3
      <4>4. \A j \in DOMAIN e : e[j].status # "open"
        <5>1. SUFFICES ASSUME NEW j \in DOMAIN e PROVE e[j].status # "open"
          OBVIOUS
        <5>2. CASE j = i
          BY <2>1, <5>2
        <5>3. CASE j \in OpenIn(e, d) /\ j # i
          <6>1. EmptyAt(e, j)
            BY <4>7, <5>3
          <6> QED
            BY <6>1 DEF EmptyAt, ViewOf, NoFill
        <5>4. CASE j \notin OpenIn(e, d)
          BY <5>4, FlowFacts
        <5> QED
          BY <5>2, <5>3, <5>4
      <4>5. ExactClosed(e, u)
        BY <3>4, <3>6, <4>7 DEF ExactClosed
      <4>6. Exact(e, u)
        BY <2>2, <3>7, <4>2, <4>3, <4>4, <4>5 DEF Exact, Flat
      <4> QED
        BY <4>6 DEF u
    <3>10. CASE v.filled # d.amount
      <4>1. ~Closes(d, v, again)
        BY <1>1, <1>5, <3>2, <3>10 DEF Closes
      <4>2. net = d.amount - v.filled /\ net > 0
        <5> HIDE DEF net, before
        <5> QED
          BY <1>1, <1>4, <1>5, <2>3, <3>2, <3>8, <3>10
      <4>3. u.life = "open" /\ u.amount = net
        BY <1>2, <1>9, <2>2, <2>5, <4>1, <4>2
      <4>4. ExactOpen(e, u)
        <5>1. OpenIn(e, u) = OpenIn(e, d) \ {i}
          BY <1>6, <3>4
        <5>2. ClaimedIn(e, u) = ClaimedIn(e, d) - Claim(e[i])
          BY <3>1, <5>1, OneSettled
        <5>3. ClaimedIn(e, u) <= d.amount - v.filled
          BY <1>1, <1>5, <3>2, <5>2
        <5>4. ASSUME NEW j \in OpenIn(e, u) \cap SoldIn(e), e[j].side = "stop", e[j].status = "open"
              PROVE  FALSE
          <6>1. j \in OpenIn(e, d) \cap SoldIn(e) /\ j \in OpenIn(e, d) \ {i} /\ j \in DOMAIN e
            BY <3>3, <3>4
          <6>2. e[j].amount = d.amount
            BY <2>2, <5>4, <6>1 DEF ExactOpen
          <6>3. Claim(e[j]) = d.amount /\ v.filled + Claim(e[j]) <= d.amount
            BY <3>3, <5>4, <6>1, <6>2, ClaimFacts
          <6> QED
            BY <1>1, <1>5, <1>9, <6>3
        <5> HIDE DEF net
        <5> QED
          BY <4>2, <4>3, <5>3, <5>4 DEF ExactOpen, net
      <4>5. Exact(e, u)
        BY <2>2, <3>7, <4>3, <4>4 DEF Exact
      <4> QED
        BY <4>5 DEF u
    <3> QED
      BY <3>9, <3>10
  <2> QED
    BY <2>4, <2>5
<1> QED
  BY <1>8, <1>9

LEMMA ExactAll ==
  ASSUME exch \in Seq(OrderRow), NEW e \in Seq(OrderRow), SameSides(exch, e),
         NEW d, Good(e, d), d.life \in {"open", "closed"}, Exact(e, d),
         NEW said, NEW S, S = DOMAIN said, NEW again, again = FALSE,
         \A i \in S : i \in DOMAIN d.book /\ d.book[i].status = "open" /\ said[i] = ViewOf(e, i)
  PROVE  Exact(e, AllUpdated(d, said, again))
<1> DEFINE L == Len(exch)
           B == DOMAIN d.book
           In(n, x) ==
             /\ Good(e, x) /\ x.life \in {"open", "closed"} /\ Exact(e, x)
             /\ DOMAIN x.book = B /\ \A i \in B : i > n => x.book[i] = d.book[i]
           D == [n \in 0 .. L |-> {x \in DbRow(e) : In(n, x)}]
<1>1. /\ L \in Nat /\ DOMAIN exch = 1 .. L /\ DOMAIN e = 1 .. L /\ B \subseteq 1 .. L /\ d \in DbRow(e)
      /\ again \in BOOLEAN
  <2>1. L \in Nat /\ DOMAIN exch = 1 .. L /\ DOMAIN e = DOMAIN exch
    BY DEF SameSides
  <2>2. d \in DbRow(e) /\ B \subseteq DOMAIN e
    BY DbFacts DEF Good
  <2> QED
    BY <2>1, <2>2
<1>2. d \in D[0]
  <2>1. In(0, d)
    OBVIOUS
  <2> HIDE DEF In
  <2> QED
    BY <1>1, <2>1
<1>3. ASSUME NEW n \in 1 .. L, NEW x \in D[n - 1]
      PROVE  (IF n \in DOMAIN said THEN Updated(x, n, said[n], again) ELSE x) \in D[n]
  <2>1. x \in DbRow(e) /\ In(n - 1, x)
    <3> HIDE DEF In
    <3> QED
      BY <1>1
  <2>2. \A m \in 0 .. L : \A y \in DbRow(e) : In(m, y) => y \in D[m]
    <3> HIDE DEF In
    <3> QED
      OBVIOUS
  <2>3. n \in 0 .. L
    BY <1>1
  <2>4. CASE n \notin S
    <3>1. \A i \in B : i > n => i > n - 1
      BY <1>1
    <3>2. In(n, x)
      BY <2>1, <3>1
    <3> HIDE DEF In, D
    <3> QED
      BY <2>1, <2>2, <2>3, <2>4, <3>2
  <2>5. CASE n \in S
    <3> DEFINE v == said[n]
               u == Updated(x, n, v, again)
    <3>1. v = ViewOf(e, n) /\ v \in Views /\ n \in DOMAIN e
      BY <1>1, <2>5, OrderFacts
    <3>2. Good(e, x) /\ x.life \in {"open", "closed"} /\ Exact(e, x)
      BY <2>1
    <3>3. n \in DOMAIN x.book /\ x.book[n].status = "open" /\ n \in OpenIn(e, x)
      <4>1. n \in B /\ n > n - 1 /\ d.book[n].status = "open"
        BY <2>5
      <4> QED
        BY <2>1, <3>1, <4>1 DEF OpenIn
    <3> HIDE DEF v
    <3>4. Follows(e, x, u)
      BY <1>1, <3>1, <3>2, <3>3, WrittenIs DEF v
    <3>5. Exact(e, u)
      BY <3>1, <3>2, <3>3, ExactWritten DEF v
    <3>6. /\ DOMAIN u.book = DOMAIN x.book \cup {n}
          /\ \A j \in DOMAIN u.book : u.book[j] = IF j = n THEN v ELSE x.book[j]
      BY <1>1, <2>1, <3>1, <3>2, UpdatedFacts
    <3> HIDE DEF u
    <3>7. u \in DbRow(e) /\ Good(e, u) /\ u.life \in {"open", "closed"}
      BY <3>2, <3>4 DEF Follows, Good
    <3>8. \A i \in B : i > n => u.book[i] = d.book[i]
      <4>1. SUFFICES ASSUME NEW i \in B, i > n PROVE u.book[i] = d.book[i]
        OBVIOUS
      <4>2. i # n /\ i > n - 1 /\ i \in DOMAIN u.book
        BY <1>1, <2>1, <3>6, <4>1
      <4> QED
        BY <2>1, <3>6, <4>2
    <3>9. DOMAIN u.book = B
      BY <2>1, <3>3, <3>6
    <3>10. In(n, u)
      BY <3>5, <3>7, <3>8, <3>9
    <3>11. u = Updated(x, n, said[n], again)
      BY DEF u, v
    <3> HIDE DEF In, D
    <3> QED
      BY <2>2, <2>3, <2>5, <3>7, <3>10, <3>11
  <2> QED
    BY <2>4, <2>5
<1>4. AllUpdated(d, said, again) \in D[L]
  <2> HIDE DEF D
  <2> QED
    BY <1>1, <1>2, <1>3, AllUpdatedIn
<1> DEFINE u == AllUpdated(d, said, again)
<1>5. u \in {x \in DbRow(e) : In(L, x)}
  <2> HIDE DEF In, u
  <2>1. D[L] = {x \in DbRow(e) : In(L, x)}
    BY <1>1
  <2>2. u \in D[L]
    BY <1>4 DEF u
  <2> HIDE DEF D
  <2> QED
    BY <2>1, <2>2
<1> HIDE DEF u
<1>6. In(L, u)
  BY <1>5
<1> QED
  BY <1>6 DEF u

(* Where the trade can still go on: it has coins, an order, or a step      *)
(* towards an entry.                                                       *)
OrdersIn(e, d) == {i \in DOMAIN d.book : d.book[i].status = "open" /\ e[i].side \in {"entry", "exit"}}
Busy(e, d) == d.life = "open" => d.amount > 0 \/ OrdersIn(e, d) # {}
GoesOn(e, d, g) ==
  Busy(e, d) \/ g.at \in {"empty", "again"} \/ (g.at = "sent" /\ e[g.id].side = "entry")

(* What a state in which no order is lost promises, and what a step keeps. *)
SureAt(e, d, l, g) == BaseAt(e, d, l, g) /\ Known(l, g) /\ Exact(e, d) /\ ExactDoing(e, d, g)
Sure == SureAt(exch, db, lost, doing)
LastsAt(e, d, g, f, u, h) ==
  /\ Exact(f, u) /\ ExactDoing(f, u, h)
  /\ g.at # "startup" /\ h.at # "startup" /\ GoesOn(e, d, g) => GoesOn(f, u, h)
Lasts == LastsAt(exch, db, doing, exch', db', doing')

LEMMA OpenIs == OpenOrders = OrdersIn(exch, db) /\ Entered = EnteredIn(exch, db)
BY DEF OpenOrders, OpenRows, Recorded, OrdersIn, Entered, EnteredIn

LEMMA BaseParts ==
  ASSUME Base
  PROVE  /\ exch \in Seq(OrderRow) /\ Good(exch, db) /\ db \in DbRow(exch) /\ DOMAIN db.book \subseteq DOMAIN exch
         /\ db.book \in Books(exch) /\ db.amount \in Nat /\ db.amount <= Size /\ SameSides(exch, exch)
         /\ RowsIn(exch, db, lost) /\ DoingIn(exch, db, lost, doing)
         /\ AmountIn(exch, db, doing) /\ BaseAt(exch, db, lost, doing)
         /\ db = [life |-> db.life, amount |-> db.amount, book |-> db.book]
BY DbFacts DEF Base, BaseAt, Good, SameSides, DbRow

(* A trade that bought nothing and has no other order is flat.             *)
LEMMA DropIsFlat ==
  ASSUME exch \in Seq(OrderRow), NEW e \in Seq(OrderRow), SameSides(exch, e), Good(e, db), Exact(e, db),
         db.life \in {"open", "closed"}, DOMAIN e \subseteq DOMAIN db.book, NEW i, DropsTrade(i),
         i \in DOMAIN e => e[i].filled = 0 /\ e[i].status # "open"
  PROVE  Flat(e)
<1>1. DOMAIN e = DOMAIN exch /\ db.book \in Books(e) /\ IsFiniteSet(DOMAIN e)
      /\ DOMAIN db.book \subseteq DOMAIN e
  BY DbFacts, NetIsSum DEF Good, SameSides
<1>2. EnteredIn(e, db) = {} /\ SoldIn(e) = {}
  <2>1. EnteredIn(e, db) = EnteredIn(exch, db)
    BY <1>1 DEF EnteredIn, SameSides
  <2> QED
    BY <2>1, OpenIs DEF DropsTrade, Exact, ExactEntered
<1>3. ASSUME NEW j \in DOMAIN e PROVE e[j].filled = 0 /\ e[j].status # "open"
  <2>1. CASE j = i
    BY <2>1
  <2>2. CASE j # i
    <3>1. e[j].side = "entry" /\ exch[j].side = "entry"
      <4>1. e[j].side \in {"entry", "exit", "stop"} /\ e[j].side \notin Sells
        BY <1>2, OrderFacts DEF SoldIn
      <4> QED
        BY <1>1, <4>1 DEF SameSides, Sells
    <3>2. db.book[j].status # "open"
      BY <2>2, <3>1, OpenIs DEF DropsTrade, OrdersIn
    <3>3. db.book[j] = ViewOf(e, j) /\ db.book[j].status = e[j].status /\ db.book[j].filled = e[j].filled
      <4>1. db.book[j] = ViewOf(e, j)
        BY <3>2 DEF Good, RowsOK
      <4> QED
        BY <4>1 DEF ViewOf
    <3>4. ~(db.book[j].filled > 0)
      BY <1>2, <3>1, <3>2 DEF EnteredIn
    <3>5. e[j].filled \in Nat
      BY OrderFacts, SizeAssumption
    <3> QED
      BY <3>2, <3>3, <3>4, <3>5
  <2> QED
    BY <2>1, <2>2
<1>4. \A j \in DOMAIN e : Flow(e)[j] = 0
  BY <1>3 DEF Flow
<1>5. HeldIn(e) = 0
  <2> DEFINE f == Flow(e)
             S == DOMAIN e
  <2>1. IsFiniteSet(S) /\ (\A j \in S : f[j] \in Int) /\ {} \in SUBSET S /\ \A j \in S \ {} : f[j] = 0
    BY <1>1, <1>4
  <2> HIDE DEF f, S
  <2>2. SumFunctionOnSet(f, S) = SumFunctionOnSet(f, {})
    BY <2>1, SumRestricted
  <2>3. SumFunctionOnSet(f, {}) = 0
    BY FS_EmptySet, SumFacts
  <2> QED
    BY <2>2, <2>3 DEF HeldIn, f, S
<1> QED
  BY <1>3, <1>5 DEF Flat

LEMMA OrdersMove ==
  ASSUME NEW e \in Seq(OrderRow), NEW f \in Seq(OrderRow), Moves(e, f), NEW d, Good(e, d)
  PROVE  OrdersIn(e, d) \subseteq OrdersIn(f, d) /\ (Busy(e, d) => Busy(f, d))
<1>1. DOMAIN d.book \subseteq DOMAIN e
  BY DbFacts DEF Good
<1>2. \A i \in OrdersIn(e, d) : i \in OrdersIn(f, d)
  <2>1. SUFFICES ASSUME NEW i \in OrdersIn(e, d) PROVE i \in OrdersIn(f, d)
    OBVIOUS
  <2>2. i \in DOMAIN d.book /\ i \in DOMAIN e /\ d.book[i].status = "open" /\ e[i].side \in {"entry", "exit"}
    BY <1>1 DEF OrdersIn
  <2>3. f[i].side = e[i].side
    BY <2>2 DEF Moves
  <2> QED
    BY <2>2, <2>3 DEF OrdersIn
<1> QED
  BY <1>2 DEF Busy

LEMMA MovesLast ==
  ASSUME NEW e, NEW d, NEW l, NEW g, SureAt(e, d, l, g), NEW f \in Seq(OrderRow), Moves(e, f)
  PROVE  LastsAt(e, d, g, f, d, g)
<1>1. e \in Seq(OrderRow) /\ Good(e, d) /\ Exact(e, d) /\ ExactDoing(e, d, g) /\ RowsIn(e, d, l)
      /\ DoingIn(e, d, l, g)
  BY DEF SureAt, BaseAt
<1>2. Exact(f, d) /\ SoldIn(f) = SoldIn(e)
  BY <1>1, ExactMoves
<1>3. Busy(e, d) => Busy(f, d)
  BY <1>1, OrdersMove
<1>4. g.at = "sent" /\ e[g.id].side = "entry" => f[g.id].side = "entry"
  BY <1>1 DEF DoingIn, SentIn, RowsIn, Moves
<1>5. GoesOn(e, d, g) => GoesOn(f, d, g)
  BY <1>3, <1>4 DEF GoesOn
<1> QED
  BY <1>1, <1>2, <1>5 DEF LastsAt, ExactDoing

LEMMA ExchangeLasts ==
  ASSUME Sure, NEW i \in DOMAIN exch, Fill(i) \/ Withdraw(i) PROVE Lasts
<1>1. exch \in Seq(OrderRow) /\ db' = db /\ doing' = doing
  BY DEF Sure, SureAt, BaseAt, Fill, Withdraw
<1>2. exch' \in Seq(OrderRow) /\ Moves(exch, exch')
  BY <1>1, ExchangeMoves
<1>3. LastsAt(exch, db, doing, exch', db, doing)
  BY <1>2, MovesLast DEF Sure
<1> QED
  BY <1>1, <1>3 DEF Lasts

(* The trade after an answer about one of its orders was written.          *)
Written(e, d, i, v, u) ==
  /\ Exact(e, u) /\ OrdersIn(e, d) \ {i} \subseteq OrdersIn(e, u)
  /\ e[i].side # "entry" => d.amount > 0
  /\ e[i].side = "entry" => SoldIn(e) = {} /\ (v = NoFill \/ Busy(e, u))
  /\ EnteredIn(e, d) # {} => d.amount > 0
  /\ d.amount > 0 => u.amount > 0
LEMMA WrittenLasts ==
  ASSUME exch \in Seq(OrderRow), NEW e \in Seq(OrderRow), SameSides(exch, e),
         NEW d, Good(e, d), d.life \in {"open", "closed"}, Exact(e, d),
         NEW i \in DOMAIN d.book, d.book[i].status = "open", NEW v, v = ViewOf(e, i)
  PROVE  Written(e, d, i, v, Updated(d, i, v, FALSE))
<1> DEFINE u == Updated(d, i, v, FALSE)
<1>1. i \in DOMAIN e /\ d \in DbRow(e) /\ i \in OpenIn(e, d) /\ DOMAIN d.book \subseteq DOMAIN e
  BY DbFacts DEF Good, OpenIn
<1>2. /\ v \in Views /\ e[i].side \in {"entry", "exit", "stop"} /\ v.filled \in 0 .. Size
      /\ v.status \in {"open", "closed", "canceled"} /\ (v.status = "closed" => v.filled # 0)
      /\ v = [status |-> v.status, filled |-> v.filled]
  <2>1. /\ e[i].status = "closed" <=> e[i].filled = e[i].amount
        /\ e[i].amount \in 1 .. Size /\ v.status = e[i].status /\ v.filled = e[i].filled
        /\ e[i].status \in {"open", "closed", "canceled"} /\ e[i].filled \in 0 .. Size
        /\ v \in Views /\ e[i].side \in {"entry", "exit", "stop"}
    BY <1>1, OrderFacts
  <2>2. v = [status |-> v.status, filled |-> v.filled]
    BY DEF ViewOf
  <2> QED
    BY <2>1, <2>2, SizeAssumption
<1>3. Exact(e, u)
  BY <1>1, <1>2, ExactWritten
<1>4. /\ DOMAIN u.book = DOMAIN d.book \cup {i}
      /\ \A j \in DOMAIN u.book : u.book[j] = IF j = i THEN v ELSE d.book[j]
      /\ v.status # "open" /\ v.filled # 0 /\ e[i].side = "entry" =>
           u.life = d.life /\ u.amount = IF NetIn(e, u.book) > 0 THEN NetIn(e, u.book) ELSE v.filled
      /\ d.amount > 0 => u.amount > 0
  <2> DEFINE again == FALSE
  <2>1. again \in BOOLEAN /\ u = Updated(d, i, v, again)
    OBVIOUS
  <2> HIDE DEF u, again
  <2>2. DOMAIN u.book = DOMAIN d.book \cup {i}
    BY <1>1, <1>2, <2>1, UpdatedFacts
  <2>3. \A j \in DOMAIN u.book : u.book[j] = IF j = i THEN v ELSE d.book[j]
    BY <1>1, <1>2, <2>1, UpdatedFacts
  <2>4. v.status # "open" /\ v.filled # 0 /\ e[i].side = "entry" =>
          u.life = d.life /\ u.amount = IF NetIn(e, u.book) > 0 THEN NetIn(e, u.book) ELSE v.filled
    BY <1>1, <1>2, <2>1, UpdatedFacts
  <2>5. d.amount > 0 => u.amount > 0
    BY <1>1, <1>2, <2>1, UpdatedFacts
  <2> QED
    BY <2>2, <2>3, <2>4, <2>5
<1> HIDE DEF u
<1>5. OrdersIn(e, d) \ {i} \subseteq OrdersIn(e, u)
  <2>1. \A j \in OrdersIn(e, d) \ {i} : j \in OrdersIn(e, u)
    BY <1>4 DEF OrdersIn
  <2> QED
    BY <2>1
<1>6. ExactEntered(e, d)
  BY DEF Exact
<1>7. e[i].side # "entry" => d.amount > 0
  BY <1>1, <1>2, <1>6 DEF ExactEntered, SoldIn, Sells
<1>8. e[i].side = "entry" => SoldIn(e) = {}
  BY <1>1, <1>6 DEF ExactEntered
<1>9. ASSUME e[i].side = "entry", v # NoFill PROVE Busy(e, u)
  <2>1. CASE v.status = "open"
    <3>1. i \in OrdersIn(e, u)
      BY <1>4, <1>9, <2>1 DEF OrdersIn
    <3> QED
      BY <3>1 DEF Busy
  <2>2. CASE v.status # "open"
    <3>1. v.filled # 0
      BY <1>2, <1>9, <2>2 DEF NoFill
    <3>2. u.amount > 0
      BY <1>2, <1>4, <1>9, <2>2, <3>1, SizeAssumption
    <3> QED
      BY <3>2 DEF Busy
  <2> QED
    BY <2>1, <2>2
<1> QED
  BY <1>3, <1>4, <1>5, <1>6, <1>7, <1>8, <1>9 DEF u, Written, ExactEntered

LEMMA SureFacts ==
  ASSUME Sure
  PROVE  /\ BaseAt(exch, db, lost, doing) /\ exch \in Seq(OrderRow) /\ Good(exch, db) /\ SameSides(exch, exch)
         /\ db \in DbRow(exch) /\ db.book \in Books(exch) /\ db.amount \in Nat /\ db.amount <= Size
         /\ DOMAIN db.book \subseteq DOMAIN exch /\ db.life \in Lives
         /\ RowsIn(exch, db, lost) /\ DoingIn(exch, db, lost, doing) /\ AmountIn(exch, db, doing)
         /\ Exact(exch, db) /\ ExactDoing(exch, db, doing)
         /\ doing.at # "sent" => lost = {} /\ (db.life \notin Gone => DOMAIN exch \subseteq DOMAIN db.book)
         /\ doing.at = "sent" => lost = {doing.id}
BY DbFacts DEF Sure, SureAt, BaseAt, Good, SameSides, Known, RowsIn

LEMMA AskedLasts ==
  ASSUME Sure, NEW i, Asked(i, OpenOrders \cup OpenStops) PROVE Lasts
<1> DEFINE v == View(i)
           u == Updated(db, i, v, FALSE)
<1>1. /\ db.life \in {"open", "closed"} /\ exch' = exch /\ db' = u /\ doing = Idle
      /\ doing' = IF exch[i].side = "entry" /\ v = NoFill
                  THEN [Idle EXCEPT !.at = "empty", !.id = i] ELSE Idle
  BY DEF Asked, NoFill
<1>2. i \in DOMAIN db.book /\ db.book[i].status = "open" /\ v = ViewOf(exch, i)
  BY DEF Asked, OpenOrders, OpenStops, OpenRows, Recorded, View, ViewOf
<1> HIDE DEF v
<1>3. Written(exch, db, i, v, u)
  BY <1>1, <1>2, SureFacts, WrittenLasts
<1> HIDE DEF u
<1>4. exch[i].side # "entry" => Busy(exch, u)
  BY <1>3 DEF Written, Busy
<1>5. doing' = Idle \/ doing'.at = "empty"
  BY <1>1 DEF Idle
<1>6. PICK h : h = doing'
  OBVIOUS
<1>7. Exact(exch, u)
  BY <1>3 DEF Written
<1>8. Idle.at = "idle"
  BY IdleFacts
<1>9. ExactDoing(exch, u, h)
  <2>1. h.at = "empty" => SoldIn(exch) = {}
    BY <1>1, <1>3, <1>6, <1>8 DEF Written
  <2>2. h.at \in {"idle", "empty"}
    BY <1>5, <1>6, <1>8
  <2> QED
    BY <2>1, <2>2 DEF ExactDoing
<1>10. GoesOn(exch, u, h)
  <2>1. CASE exch[i].side = "entry" /\ v = NoFill
    <3>1. h.at = "empty"
      BY <1>1, <1>6, <2>1 DEF Idle
    <3> QED
      BY <3>1 DEF GoesOn
  <2>2. CASE exch[i].side = "entry" /\ v # NoFill
    BY <1>3, <2>2 DEF Written, GoesOn
  <2>3. CASE exch[i].side # "entry"
    BY <1>4, <2>3 DEF GoesOn
  <2> QED
    BY <2>1, <2>2, <2>3
<1>11. LastsAt(exch, db, doing, exch, u, h)
  BY <1>7, <1>9, <1>10 DEF LastsAt
<1> QED
  BY <1>1, <1>6, <1>11 DEF Lasts

(* A trade that is gone promises nothing but to be flat, if it bought      *)
(* nothing.                                                                *)
LEMMA GoneLasts ==
  ASSUME NEW e, NEW d, NEW g, NEW f, NEW x \in Gone, NEW a, NEW b,
         NEW u, u = [life |-> x, amount |-> a, book |-> b],
         OneLive(f), x = "dropped" => Flat(f)
  PROVE  LastsAt(e, d, g, f, u, Idle)
<1>1. u.life = x /\ Idle.at = "idle"
  BY IdleFacts
<1> QED
  BY <1>1 DEF LastsAt, Exact, ExactDoing, GoesOn, Busy, Gone

LEMMA HandleEmptyLasts ==
  ASSUME Sure, HandleEmpty PROVE Lasts
<1>1. /\ exch' = exch /\ doing' = Idle /\ doing.at = "empty"
      /\ db' = IF DropsTrade(doing.id) THEN Dropped ELSE db
  BY DEF HandleEmpty
<1>2. /\ exch \in Seq(OrderRow) /\ SameSides(exch, exch) /\ Good(exch, db) /\ db \in DbRow(exch)
      /\ Exact(exch, db) /\ db.life \in Lives
      /\ DoingIn(exch, db, lost, doing) /\ DOMAIN db.book \subseteq DOMAIN exch
      /\ db.life \notin Gone => DOMAIN exch \subseteq DOMAIN db.book
  BY <1>1, SureFacts
<1>3. db.life = "open" /\ EmptyIn(exch, db, doing)
  BY <1>1, <1>2 DEF DoingIn, Gone, Lives
<1>4. doing.id \in DOMAIN exch /\ exch[doing.id].filled = 0 /\ exch[doing.id].status # "open"
  <2>1. doing.id \in DOMAIN db.book /\ db.book[doing.id] = NoFill
    BY <1>3 DEF EmptyIn
  <2>2. ViewOf(exch, doing.id) = NoFill
    BY <1>2, <2>1 DEF Good, RowsOK, NoFill
  <2> QED
    BY <1>2, <2>1, <2>2 DEF ViewOf, NoFill
<1>5. CASE DropsTrade(doing.id)
  <2>1. Flat(exch)
    BY <1>2, <1>3, <1>4, <1>5, DropIsFlat DEF Gone
  <2>2. db' = [life |-> "dropped", amount |-> db.amount, book |-> <<>>] /\ OneLive(exch)
    BY <1>1, <1>2, <1>5, GoneRecords DEF Exact
  <2>3. LastsAt(exch, db, doing, exch, db', Idle)
    BY <2>1, <2>2, GoneLasts DEF Gone
  <2> QED
    BY <1>1, <2>3 DEF Lasts
<1>6. CASE ~DropsTrade(doing.id)
  <2>1. OrdersIn(exch, db) # {} \/ EnteredIn(exch, db) # {}
    BY <1>6, OpenIs DEF DropsTrade
  <2>2. Busy(exch, db)
    BY <1>2, <1>3, <2>1 DEF Busy, Exact, ExactEntered
  <2>3. LastsAt(exch, db, doing, exch, db, Idle)
    BY <1>2, <2>2, IdleFacts DEF LastsAt, ExactDoing, GoesOn
  <2> QED
    BY <1>1, <1>6, <2>3 DEF Lasts
<1> QED
  BY <1>5, <1>6

(* What follows the cancellation of an entry.                              *)
EntryWritten(e, v, replacing, k) ==
  /\ Exact(e, k) /\ SoldIn(e) = {}
  /\ Busy(e, k) \/ (replacing /\ v = NoFill /\ db.amount = 0)
LEMMA EntryLasts ==
  ASSUME exch \in Seq(OrderRow), NEW e \in Seq(OrderRow), Moves(exch, e), Good(exch, db), Good(e, db),
         Exact(e, db), db.life \in {"open", "closed"}, DOMAIN exch \subseteq DOMAIN db.book,
         NEW i \in DOMAIN db.book, db.book[i].status = "open", e[i].side = "entry",
         NEW v, v = ViewOf(e, i), NEW replacing \in BOOLEAN
  PROVE  EntryWritten(e, v, replacing, EntryCanceled(i, v, replacing))
<1> DEFINE k == EntryCanceled(i, v, replacing)
           u == Updated(db, i, v, FALSE)
<1>1. /\ SameSides(exch, e) /\ DOMAIN e = DOMAIN exch /\ i \in DOMAIN e
      /\ OrdersIn(exch, db) \subseteq OrdersIn(e, db) /\ db \in DbRow(e) /\ db.amount \in Nat
      /\ \A j \in DOMAIN exch : exch[j].side = "entry" <=> e[j].side = "entry"
  BY MovesFacts, OrdersMove, DbFacts DEF Good
<1>2. Written(e, db, i, v, u)
  BY <1>1, WrittenLasts
<1>3. Exact(e, u) /\ SoldIn(e) = {} /\ (v = NoFill \/ Busy(e, u)) /\ (db.amount > 0 => Busy(e, u))
  <2> HIDE DEF u
  <2> QED
    BY <1>2 DEF Written, Busy
<1>4. CASE v.status = "open"
  <2>1. k = db
    BY <1>4 DEF EntryCanceled
  <2>2. i \in OrdersIn(e, db)
    BY DEF OrdersIn
  <2>3. Busy(e, db)
    BY <2>2 DEF Busy
  <2> HIDE DEF k
  <2> QED
    BY <1>3, <2>1, <2>3 DEF EntryWritten, k
<1>5. CASE v.status # "open" /\ v.filled = 0 /\ DropsTrade(i) /\ ~replacing
  <2>1. k = Dropped
    BY <1>5 DEF EntryCanceled
  <2>2. e[i].filled = 0 /\ e[i].status # "open"
    BY <1>5 DEF ViewOf
  <2>3. Flat(e)
    BY <1>1, <1>5, <2>2, DropIsFlat
  <2>4. k = [life |-> "dropped", amount |-> db.amount, book |-> <<>>] /\ OneLive(e)
    BY <1>1, <2>1, GoneRecords DEF Exact
  <2> HIDE DEF k
  <2>5. LastsAt(e, db, Idle, e, k, Idle)
    BY <2>3, <2>4, GoneLasts DEF Gone
  <2>6. k.life = "dropped"
    BY <2>4
  <2> QED
    BY <1>3, <2>5, <2>6 DEF LastsAt, Busy, EntryWritten, k
<1>6. CASE v.status # "open" /\ ~(v.filled = 0 /\ DropsTrade(i) /\ ~replacing)
  <2>1. k = u
    BY <1>6 DEF EntryCanceled
  <2>2. CASE v # NoFill \/ db.amount > 0 \/ replacing
    <3> HIDE DEF k, u
    <3> QED
      BY <1>1, <1>3, <2>1, <2>2 DEF EntryWritten, k
  <2>3. CASE v = NoFill /\ ~(db.amount > 0) /\ ~replacing
    <3>1. ~DropsTrade(i)
      BY <1>6, <2>3 DEF NoFill
    <3>2. EnteredIn(e, db) = EnteredIn(exch, db)
      <4>1. \A j \in DOMAIN db.book : j \in DOMAIN exch
        BY DbFacts DEF Good
      <4> QED
        BY <1>1, <4>1 DEF EnteredIn
    <3>3. OrdersIn(exch, db) \ {i} # {}
      <4>1. ~(EnteredIn(e, db) # {})
        BY <1>2, <2>3 DEF Written
      <4> QED
        BY <3>1, <3>2, <4>1, OpenIs DEF DropsTrade
    <3>4. OrdersIn(e, u) # {}
      <4> HIDE DEF u
      <4> QED
        BY <1>1, <1>2, <3>3 DEF Written
    <3> HIDE DEF k, u
    <3> QED
      BY <1>3, <2>1, <3>4 DEF EntryWritten, Busy, k
  <2> QED
    BY <2>2, <2>3
<1> QED
  BY <1>4, <1>5, <1>6

(* The orders after a cancellation, before its answer is written.          *)
LEMMA CancelIs ==
  ASSUME Sure, NEW i \in OpenOrders, NEW done, CancelAt(i, done)
  PROVE  /\ exch' \in Seq(OrderRow) /\ Moves(exch, exch') /\ SameSides(exch, exch')
         /\ Good(exch', db) /\ Exact(exch', db) /\ SoldIn(exch') = SoldIn(exch)
         /\ i \in DOMAIN db.book /\ db.book[i].status = "open" /\ i \in DOMAIN exch
         /\ Answer(i, done) = ViewOf(exch', i) /\ exch'[i].side = exch[i].side
         /\ exch[i].side \in {"entry", "exit"}
<1>1. exch \in Seq(OrderRow) /\ Good(exch, db) /\ Exact(exch, db) /\ BaseAt(exch, db, lost, doing)
  BY SureFacts
<1>2. /\ exch' \in Seq(OrderRow) /\ SameSides(exch, exch') /\ i \in DOMAIN db.book /\ i \in DOMAIN exch
      /\ db.book[i].status = "open" /\ Answer(i, done) = ViewOf(exch', i)
      /\ exch[i].side \in {"entry", "exit"} /\ BaseAt(exch', db, lost, doing)
  BY <1>1, AfterCancel
<1>3. Moves(exch, exch')
  BY <1>1, <1>2, OneCanceled
<1>4. Exact(exch', db) /\ SoldIn(exch') = SoldIn(exch)
  BY <1>1, <1>2, <1>3, ExactMoves
<1>5. exch'[i].side = exch[i].side
  BY <1>2, <1>3 DEF Moves
<1> QED
  BY <1>2, <1>3, <1>4, <1>5 DEF BaseAt

(* An exit was canceled, and another may follow it.                        *)
LEMMA ExitCanceledLasts ==
  ASSUME Sure, NEW i \in OpenOrders, NEW done, doing = Idle, db.life \in {"open", "closed"},
         ExitCanceled(i, done), exch[i].side = "exit", doing'.at \in {"idle", "urgent", "limit"}
  PROVE  Lasts
<1> DEFINE v == Answer(i, done)
           u == Updated(db, i, v, FALSE)
<1>1. /\ exch' \in Seq(OrderRow) /\ SameSides(exch, exch')
      /\ Good(exch', db) /\ Exact(exch', db)
      /\ i \in DOMAIN db.book /\ db.book[i].status = "open" /\ i \in DOMAIN exch
      /\ v = ViewOf(exch', i) /\ exch'[i].side = exch[i].side
  BY CancelIs DEF ExitCanceled
<1>2. exch \in Seq(OrderRow)
  BY SureFacts
<1>3. db' = u
  BY DEF ExitCanceled
<1>4. Written(exch', db, i, v, u)
  <2> HIDE DEF v
  <2> QED
    BY <1>1, <1>2, WrittenLasts
<1> HIDE DEF v, u
<1>5. PICK h : h = doing' /\ h.at \in {"idle", "urgent", "limit"}
  OBVIOUS
<1>6. exch'[i].side # "entry"
  BY <1>1
<1>7. Exact(exch', u) /\ Busy(exch', u)
  BY <1>4, <1>6 DEF Written, Busy
<1>8. LastsAt(exch, db, doing, exch', u, h)
  BY <1>5, <1>7 DEF LastsAt, ExactDoing, GoesOn
<1> QED
  BY <1>3, <1>5, <1>8 DEF Lasts

LEMMA CancelLasts ==
  ASSUME Sure, NEW i, NEW done, Cancel(i, done) PROVE Lasts
<1> DEFINE v == Answer(i, done)
<1>1. db.life \in {"open", "closed"} /\ i \in OpenOrders /\ doing = Idle
  BY DEF Cancel
<1>2. CASE exch[i].side = "entry"
  <2> DEFINE k == EntryCanceled(i, v, FALSE)
  <2>1. CancelAt(i, done) /\ db' = k /\ doing' = Idle
    BY <1>2 DEF Cancel
  <2>2. /\ exch' \in Seq(OrderRow) /\ Moves(exch, exch') /\ SameSides(exch, exch')
        /\ Good(exch', db) /\ Exact(exch', db)
        /\ i \in DOMAIN db.book /\ db.book[i].status = "open"
        /\ v = ViewOf(exch', i) /\ exch'[i].side = exch[i].side
    BY <1>1, <2>1, CancelIs
  <2>3. exch \in Seq(OrderRow) /\ Good(exch, db) /\ DOMAIN exch \subseteq DOMAIN db.book
    BY <1>1, SureFacts, IdleFacts DEF Gone
  <2>4. EntryWritten(exch', v, FALSE, k)
    <3> HIDE DEF v
    <3> QED
      BY <1>1, <1>2, <2>2, <2>3, EntryLasts
  <2> HIDE DEF k, v
  <2>5. LastsAt(exch, db, doing, exch', k, Idle)
    BY <2>4, IdleFacts DEF EntryWritten, LastsAt, ExactDoing, GoesOn
  <2> QED
    BY <2>1, <2>5 DEF Lasts
<1>3. CASE exch[i].side # "entry"
  <2>1. exch[i].side = "exit"
    BY <1>1, <1>3 DEF OpenOrders, OpenRows
  <2>2. /\ ExitCanceled(i, done)
        /\ doing' = Idle \/ doing' = [Idle EXCEPT !.at = "urgent", !.amount = Remaining(i, done)]
    BY <1>3 DEF Cancel
  <2>3. doing'.at \in {"idle", "urgent"}
    <3>1. ASSUME NEW a, NEW x, x = [Idle EXCEPT !.at = "urgent", !.amount = a] PROVE x.at = "urgent"
      BY <3>1 DEF Idle
    <3> QED
      BY <2>2, <3>1, IdleFacts
  <2> QED
    BY <1>1, <2>1, <2>2, <2>3, ExitCanceledLasts
<1> QED
  BY <1>2, <1>3

LEMMA ReplaceExitLasts ==
  ASSUME Sure, NEW i, NEW done, ReplaceExit(i, done) PROVE Lasts
<1>1. /\ doing = Idle /\ db.life \in {"open", "closed"} /\ i \in OpenOrders /\ exch[i].side = "exit"
      /\ ExitCanceled(i, done)
  BY DEF ReplaceExit, OpenOrders, OpenRows
<1>2. doing'.at = "limit"
  BY DEF ReplaceExit, Idle
<1> QED
  BY <1>1, <1>2, ExitCanceledLasts

LEMMA SimilarLasts ==
  ASSUME Sure, NEW i, NEW done, Similar(i, done) PROVE Lasts
<1> DEFINE v == Answer(i, done)
           u == Updated(db, i, v, FALSE)
<1>1. i \in OpenOrders /\ doing.at \in {"place", "market"}
  BY DEF Similar
<1>2. /\ exch \in Seq(OrderRow) /\ Good(exch, db) /\ AmountIn(exch, db, doing) /\ Exact(exch, db)
      /\ DOMAIN exch \subseteq DOMAIN db.book /\ db.life \in {"open", "closed"} /\ db.amount > 0
  BY <1>1, SureFacts DEF AmountIn, DoingIn, Gone, Lives
<1>3. CASE exch' = exch /\ db' = db /\ doing' = Idle
  <2>1. LastsAt(exch, db, doing, exch, db, Idle)
    BY <1>2, IdleFacts DEF LastsAt, ExactDoing, GoesOn, Busy
  <2> QED
    BY <1>3, <2>1 DEF Lasts
<1>4. CASE /\ CancelAt(i, done)
           /\ db' = IF exch[i].side = "entry" THEN EntryCanceled(i, v, TRUE) ELSE u
           /\ doing' = Idle \/ doing' = doing
  <2>1. /\ exch' \in Seq(OrderRow) /\ Moves(exch, exch') /\ SameSides(exch, exch')
        /\ Good(exch', db) /\ Exact(exch', db) /\ SoldIn(exch') = SoldIn(exch)
        /\ i \in DOMAIN db.book /\ db.book[i].status = "open" /\ i \in DOMAIN exch
        /\ v = ViewOf(exch', i) /\ exch'[i].side = exch[i].side
        /\ exch[i].side \in {"entry", "exit"}
    BY <1>1, <1>4, CancelIs
  <2>2. PICK h : h = doing' /\ h.at \in {"idle", "place", "market"}
    BY <1>1, <1>4, IdleFacts
  <2>3. PICK k : k = db'
    OBVIOUS
  <2>4. Exact(exch', k) /\ Busy(exch', k)
    <3>1. CASE exch[i].side = "entry"
      <4> DEFINE w == EntryCanceled(i, v, TRUE)
      <4>1. EntryWritten(exch', v, TRUE, w)
        <5> HIDE DEF v
        <5> QED
          BY <1>2, <2>1, <3>1, EntryLasts
      <4>2. k = w
        BY <1>4, <2>3, <3>1
      <4> HIDE DEF w, v
      <4> QED
        BY <1>2, <4>1, <4>2 DEF EntryWritten
    <3>2. CASE exch[i].side # "entry"
      <4>1. Written(exch', db, i, v, u)
        <5> HIDE DEF v
        <5> QED
          BY <1>2, <2>1, WrittenLasts
      <4>2. k = u
        BY <1>4, <2>3, <3>2
      <4> HIDE DEF v, u
      <4> QED
        BY <1>2, <4>1, <4>2 DEF Written, Busy
    <3> QED
      BY <3>1, <3>2
  <2>5. LastsAt(exch, db, doing, exch', k, h)
    BY <2>2, <2>4 DEF LastsAt, ExactDoing, GoesOn
  <2> QED
    BY <2>2, <2>3, <2>5 DEF Lasts
<1> QED
  BY <1>3, <1>4 DEF Similar

(* The stops go, and their rows say what they sold.                        *)
LEMMA StopsLast ==
  ASSUME Sure, db.life \in {"open", "closed"}, NEW S \in SUBSET LiveStops, StopsCanceled(S)
  PROVE  /\ Exact(exch', db') /\ SoldIn(exch') = SoldIn(exch)
         /\ db.amount > 0 => db'.amount > 0 /\ Busy(exch', db')
<1> DEFINE said == StopAnswers(S)
           again == FALSE
           u == AllUpdated(db, said, again)
<1>1. exch \in Seq(OrderRow) /\ Good(exch, db) /\ Exact(exch, db) /\ BaseAt(exch, db, lost, doing)
  BY SureFacts
<1>2. /\ exch' \in Seq(OrderRow) /\ Moves(exch, exch') /\ SameSides(exch, exch') /\ Good(exch', db)
      /\ DOMAIN said = LiveStops
      /\ \A i \in LiveStops : /\ said[i] = ViewOf(exch', i) /\ i \in DOMAIN db.book
                              /\ db.book[i].status = "open"
      /\ Follows(exch', db, u) /\ db' = u /\ again \in BOOLEAN
  <2>1. /\ exch' \in Seq(OrderRow) /\ Moves(exch, exch') /\ DOMAIN said = LiveStops
        /\ \A i \in LiveStops : said[i] = ViewOf(exch', i)
    BY <1>1, StopsAt
  <2>2. SameSides(exch, exch') /\ Good(exch', db)
    BY <1>1, <2>1, MovesFacts, GoodMoves
  <2>3. db' = u
    BY DEF StopsCanceled
  <2> HIDE DEF said, u
  <2>4. Follows(exch', db, db')
    BY <1>1, StopsGone
  <2> QED
    BY <1>1, <2>1, <2>2, <2>3, <2>4, LiveStopsFacts
<1> HIDE DEF said, u
<1>3. Exact(exch', db) /\ SoldIn(exch') = SoldIn(exch)
  BY <1>1, <1>2, ExactMoves
<1>4. Exact(exch', u)
  <2> DEFINE T == LiveStops
  <2>1. T = DOMAIN said /\ again = FALSE
    BY <1>2
  <2> HIDE DEF T, again
  <2> QED
    BY <1>1, <1>2, <1>3, <2>1, ExactAll DEF T, u
<1> QED
  BY <1>2, <1>3, <1>4 DEF Follows, Busy

LEMMA ExitLasts ==
  ASSUME Sure, NEW S \in SUBSET LiveStops, ExitSignal(S) \/ ForcePart(S) \/ NextExit(S) PROVE Lasts
<1>1. /\ AmountIn(exch, db, doing) /\ DoingIn(exch, db, lost, doing) /\ db.amount \in Nat
      /\ db.life \in Lives
  BY SureFacts
<1>2. db.life \in {"open", "closed"} /\ db.amount > 0
  <2>1. CASE ExitSignal(S)
    BY <2>1 DEF ExitSignal
  <2>2. CASE ForcePart(S)
    BY <1>1, <2>2 DEF ForcePart
  <2>3. CASE NextExit(S)
    BY <1>1, <2>3 DEF NextExit, AmountIn, DoingIn, Gone, Lives
  <2> QED
    BY <2>1, <2>2, <2>3
<1>3. StopsCanceled(S) /\ (doing' = Idle \/ doing'.at \in {"place", "market"})
  <2>1. ASSUME NEW sub, NEW at \in {"place", "market"}, Exit(S, sub, at)
        PROVE  StopsCanceled(S) /\ (doing' = Idle \/ doing'.at \in {"place", "market"})
    <3>1. ASSUME NEW a, NEW x, x = [Idle EXCEPT !.at = at, !.amount = a] PROVE x.at = at
      BY <3>1 DEF Idle
    <3> QED
      BY <2>1, <3>1 DEF Exit
  <2>2. CASE ExitSignal(S)
    BY <2>1, <2>2 DEF ExitSignal
  <2>3. CASE ForcePart(S)
    BY <2>1, <2>3 DEF ForcePart
  <2>4. CASE NextExit(S)
    BY <2>1, <2>4 DEF NextExit
  <2> QED
    BY <2>2, <2>3, <2>4
<1>4. Exact(exch', db') /\ Busy(exch', db')
  BY <1>2, <1>3, StopsLast
<1>5. PICK h : h = doing' /\ h.at \in {"idle", "place", "market"}
  BY <1>3, IdleFacts
<1>6. LastsAt(exch, db, doing, exch', db', h)
  BY <1>4, <1>5 DEF LastsAt, ExactDoing, GoesOn
<1> QED
  BY <1>5, <1>6 DEF Lasts

LEMMA TrailStopLasts ==
  ASSUME Sure, NEW S \in SUBSET LiveStops, TrailStop(S) PROVE Lasts
<1>1. /\ db.life \in {"open", "closed"} /\ StopsCanceled(S) /\ doing = Idle /\ LiveStops # {}
      /\ doing' = Idle \/ doing' = [Idle EXCEPT !.at = "trail"]
  BY DEF TrailStop
<1>2. db.amount > 0 /\ SoldIn(exch) # {}
  <2>1. BaseAt(exch, db, lost, doing) /\ AmountIn(exch, db, doing)
    BY SureFacts
  <2>2. PICK i \in LiveStops : i \in DOMAIN exch /\ exch[i].side = "stop"
    BY <1>1, <2>1, LiveStopsFacts
  <2> QED
    BY <2>1, <2>2 DEF AmountIn, SoldIn, Sells
<1>3. Exact(exch', db') /\ Busy(exch', db') /\ SoldIn(exch') # {}
  BY <1>1, <1>2, StopsLast
<1>4. PICK h : h = doing' /\ h.at \in {"idle", "trail"}
  BY <1>1, IdleFacts DEF Idle
<1>5. LastsAt(exch, db, doing, exch', db', h)
  BY <1>3, <1>4 DEF LastsAt, ExactDoing, GoesOn
<1> QED
  BY <1>4, <1>5 DEF Lasts

(* What is held and what is claimed of it, by the open orders' rest.       *)
RestOf(e) == [i \in DOMAIN e |-> IF e[i].status = "open" /\ e[i].side \in Sells THEN e[i].amount - e[i].filled ELSE 0]

LEMMA HeldAndClaimed ==
  ASSUME NEW e \in Seq(OrderRow), NEW d, Good(e, d), \A i \in OpenIn(e, d) : e[i].side # "entry"
  PROVE  /\ HeldIn(e) + ClaimedIn(e, d) = NetIn(e, d.book) + SumFunctionOnSet(RestOf(e), DOMAIN e)
         /\ HeldIn(e) \in Int /\ ClaimedIn(e, d) \in Int /\ NetIn(e, d.book) \in Int
         /\ \A i \in DOMAIN e : RestOf(e)[i] \in Nat
<1> DEFINE S == DOMAIN e
           k == RestOf(e)
           f == Flow(e)
           c == Claims(e, d)
           h == Ledger(e, d.book)
           t == [i \in S |-> f[i] + c[i]]
<1>1. IsFiniteSet(S) /\ d.book \in Books(e)
  BY ClaimFacts, DbFacts DEF Good
<1>2. /\ NetIn(e, d.book) = SumFunctionOnSet(h, S) /\ SumFunctionOnSet(h, S) \in Int
      /\ \A i \in S : h[i] \in Int
  BY <1>1, NetIsSum DEF NetSum
<1>4. ASSUME NEW i \in S
      PROVE  /\ f[i] \in Int /\ c[i] \in Int /\ k[i] \in Nat /\ k[i] \in Int
             /\ f[i] + c[i] = h[i] + k[i]
  <2>1. /\ e[i].amount \in Int /\ e[i].filled \in Int /\ e[i].side \in {"entry", "exit", "stop"}
        /\ e[i].filled <= e[i].amount
    BY OrderFacts, SizeAssumption
  <2>2. c[i] \in Nat /\ f[i] \in Int
    BY ClaimFacts, FlowFacts
  <2>3. k[i] = IF e[i].status = "open" /\ e[i].side \in {"exit", "stop"} THEN e[i].amount - e[i].filled ELSE 0
    BY DEF RestOf, Sells
  <2>4. CASE i \notin OpenIn(e, d)
    <3>1. f[i] = h[i] /\ e[i].status # "open"
      BY <2>4, FlowFacts
    <3>2. c[i] = 0 /\ k[i] = 0
      BY <2>3, <2>4, <3>1, ClaimFacts
    <3> HIDE DEF c, k, f, h, t, S
    <3> QED
      BY <2>1, <2>2, <3>1, <3>2
  <2>5. CASE i \in OpenIn(e, d)
    <3>1. h[i] = 0 /\ f[i] = 0 - e[i].filled /\ e[i].side \in {"exit", "stop"}
      BY <2>1, <2>5, FlowFacts
    <3>2. c[i] = Claim(e[i])
      BY <2>5, <3>1, ClaimFacts DEF SoldIn, Sells
    <3>3. CASE e[i].status = "open"
      <4>1. c[i] = e[i].amount /\ k[i] = e[i].amount - e[i].filled
        BY <2>3, <3>1, <3>2, <3>3 DEF Claim
      <4> HIDE DEF c, k, f, h, t, S
      <4> QED
        BY <2>1, <2>2, <3>1, <4>1
    <3>4. CASE e[i].status # "open"
      <4>1. c[i] = e[i].filled /\ k[i] = 0
        BY <2>3, <3>1, <3>2, <3>4 DEF Claim
      <4> HIDE DEF c, k, f, h, t, S
      <4> QED
        BY <2>1, <2>2, <3>1, <4>1
    <3> QED
      BY <3>3, <3>4
  <2> QED
    BY <2>4, <2>5
<1>5. \A i \in S : t[i] = f[i] + c[i] /\ t[i] = h[i] + k[i]
  BY <1>4
<1>7. HeldIn(e) = SumFunctionOnSet(f, S) /\ ClaimedIn(e, d) = SumFunctionOnSet(c, S)
  BY DEF HeldIn, ClaimedIn
<1> HIDE DEF S, k, f, c, h, t
<1>8. /\ SumFunctionOnSet(t, S) = SumFunctionOnSet(f, S) + SumFunctionOnSet(c, S)
      /\ SumFunctionOnSet(t, S) = SumFunctionOnSet(h, S) + SumFunctionOnSet(k, S)
  BY <1>1, <1>2, <1>4, <1>5, SumPlus
<1>9. SumFunctionOnSet(f, S) \in Int /\ SumFunctionOnSet(c, S) \in Int
  BY <1>1, <1>4, SumFacts
<1>10. /\ HeldIn(e) + ClaimedIn(e, d) = NetIn(e, d.book) + SumFunctionOnSet(k, S)
       /\ HeldIn(e) \in Int /\ ClaimedIn(e, d) \in Int /\ NetIn(e, d.book) \in Int
       /\ \A i \in S : k[i] \in Nat
  BY <1>2, <1>4, <1>7, <1>8, <1>9
<1> QED
  BY <1>10 DEF k, S

(* What is free is what the trade holds and no order claims.               *)
LEMMA FreeIs ==
  ASSUME exch \in Seq(OrderRow), Good(exch, db), db.amount = NetIn(exch, db.book),
         \A i \in OpenIn(exch, db) : exch[i].side # "entry"
  PROVE  Free = db.amount - ClaimedIn(exch, db)
<1> DEFINE S == DOMAIN exch
           T == OpenAt({"exit", "stop"})
           left == [i \in DOMAIN exch |-> Left(i)]
           k == RestOf(exch)
<1>1. /\ HeldIn(exch) + ClaimedIn(exch, db) = NetIn(exch, db.book) + SumFunctionOnSet(k, S)
      /\ HeldIn(exch) \in Int /\ ClaimedIn(exch, db) \in Int /\ NetIn(exch, db.book) \in Int
      /\ \A i \in S : k[i] \in Nat
  BY HeldAndClaimed
<1>2. T \in SUBSET S /\ IsFiniteSet(S)
  BY ClaimFacts DEF OpenAt, On
<1>3. (\A i \in T : left[i] = k[i]) /\ (\A i \in S \ T : k[i] = 0)
  BY DEF OpenAt, On, RestOf, Left, Sells
<1>4. Held = HeldIn(exch) /\ Free = Held - SumFunctionOnSet(left, T)
  BY HeldIs DEF Free
<1> HIDE DEF S, T, left, k
<1>5. IsFiniteSet(T) /\ \A i \in S : k[i] \in Int
  BY <1>1, <1>2, FS_Subset
<1>6. SumFunctionOnSet(left, T) = SumFunctionOnSet(k, T) /\ SumFunctionOnSet(k, S) = SumFunctionOnSet(k, T)
  BY <1>2, <1>3, <1>5, SumSame, SumRestricted
<1>7. SumFunctionOnSet(k, S) \in Int
  BY <1>2, <1>5, SumFacts
<1> QED
  BY <1>1, <1>4, <1>6, <1>7

(* An order that sells is for no more than is held.                        *)
LEMMA RestIsHeld ==
  ASSUME NEW e \in Seq(OrderRow), NEW d, Good(e, d), \A i \in OpenIn(e, d) : e[i].side # "entry",
         ClaimedIn(e, d) <= NetIn(e, d.book)
  PROVE  /\ HeldIn(e) >= 0
         /\ \A i \in SoldIn(e) : e[i].status = "open" => e[i].amount - e[i].filled <= HeldIn(e)
<1> DEFINE S == DOMAIN e
           k == RestOf(e)
<1>1. /\ HeldIn(e) + ClaimedIn(e, d) = NetIn(e, d.book) + SumFunctionOnSet(k, S)
      /\ HeldIn(e) \in Int /\ ClaimedIn(e, d) \in Int /\ NetIn(e, d.book) \in Int
      /\ \A i \in S : k[i] \in Nat
  BY HeldAndClaimed
<1>2. IsFiniteSet(S) /\ \A i \in SoldIn(e) : i \in S /\ (e[i].status = "open" => k[i] = e[i].amount - e[i].filled)
  BY ClaimFacts DEF RestOf, SoldIn
<1> HIDE DEF S, k
<1>3. SumFunctionOnSet(k, S) \in Nat /\ \A i \in S : k[i] <= SumFunctionOnSet(k, S)
  BY <1>1, <1>2, SumNatural
<1>4. HeldIn(e) >= SumFunctionOnSet(k, S)
  BY <1>1, <1>3
<1>5. ASSUME NEW i \in S PROVE k[i] <= HeldIn(e)
  BY <1>1, <1>3, <1>4
<1> QED
  BY <1>1, <1>2, <1>3, <1>4, <1>5

(* A new order: an entry when nothing was sold, an order that sells when   *)
(* what it sells is not claimed and nothing else sells.                    *)
LEMMA Appended ==
  ASSUME NEW e \in Seq(OrderRow), NEW d, Good(e, d), Exact(e, d), d.life \in {"none", "open"},
         NEW o \in OrderRow, NEW f, f = Append(e, o),
         o.side = "entry" => SoldIn(e) = {},
         o.side # "entry" =>
           /\ d.life = "open" /\ o.amount + ClaimedIn(e, d) <= d.amount
           /\ o.side = "stop" => o.amount = d.amount
           /\ \A i \in SoldIn(e) : e[i].status # "open"
           /\ \A i \in OpenIn(e, d) : e[i].side # "entry"
           /\ EnteredIn(e, d) # {}
  PROVE  Exact(f, d) /\ (Busy(e, d) => Busy(f, d))
<1> DEFINE n == Len(e) + 1
<1>1. /\ f \in Seq(OrderRow) /\ DOMAIN f = DOMAIN e \cup {n} /\ n \notin DOMAIN e
      /\ f[n] = o /\ \A j \in DOMAIN e : f[j] = e[j]
  OBVIOUS
<1> HIDE DEF n
<1>2. d.book \in Books(e) /\ d.amount \in Nat /\ \A j \in DOMAIN d.book : j \in DOMAIN e /\ f[j] = e[j]
  BY <1>1, DbFacts DEF Good
<1>3. NetIn(f, d.book) = NetIn(e, d.book)
  <2>1. \A s : DoneIn(f, d.book, s) = DoneIn(e, d.book, s)
    BY <1>2 DEF DoneIn
  <2> QED
    BY <2>1 DEF NetIn
<1>4. EnteredIn(f, d) = EnteredIn(e, d) /\ OrdersIn(f, d) = OrdersIn(e, d)
  BY <1>2 DEF EnteredIn, OrdersIn
<1>5. /\ \A j \in OpenIn(f, d) : j = n \/ (j \in OpenIn(e, d) /\ f[j] = e[j])
      /\ \A j \in SoldIn(f) : (j = n /\ o.side # "entry") \/ (j \in SoldIn(e) /\ f[j] = e[j])
      /\ \A j \in DOMAIN e : j \in OpenIn(f, d) \cap SoldIn(f) <=> j \in OpenIn(e, d) \cap SoldIn(e)
      /\ o.side = "entry" => SoldIn(f) = SoldIn(e)
  BY <1>1 DEF OpenIn, SoldIn, Sells
<1>6. CASE o.side = "entry"
  <2>1. SoldIn(f) = {} /\ SoldIn(e) = {}
    BY <1>5, <1>6
  <2>2. ClaimedIn(f, d) = 0 /\ OneLive(f)
    BY <1>1, <2>1, NoClaims DEF OneLive
  <2>3. d.life = "open" => ExactOpen(f, d) /\ ExactEntered(f, d)
    BY <1>2, <1>3, <1>4, <2>1, <2>2 DEF Exact, ExactOpen, ExactEntered
  <2> QED
    BY <1>4, <2>1, <2>2, <2>3 DEF Exact, Busy
<1>7. CASE o.side # "entry"
  <2>1. ExactOpen(e, d) /\ ExactEntered(e, d) /\ \A i \in SoldIn(e) : e[i].status # "open"
    BY <1>7 DEF Exact
  <2>2. OneLive(f)
    <3>1. SUFFICES ASSUME NEW i \in SoldIn(f), NEW j \in SoldIn(f), i # j
                   PROVE  f[i].status # "open" \/ f[j].status # "open"
      BY DEF OneLive
    <3>2. ASSUME NEW x \in SoldIn(f), x # n PROVE f[x].status # "open"
      BY <1>5, <2>1, <3>2
    <3> QED
      BY <3>1, <3>2
  <2>3. ClaimedIn(f, d) <= d.amount
    <3> DEFINE S == DOMAIN e
               h == Claims(f, d)
               k == Claims(e, d)
    <3>1. /\ IsFiniteSet(S) /\ n \notin S /\ (\A j \in S \cup {n} : h[j] \in Int) /\ h[n] \in Nat
          /\ SumFunctionOnSet(k, S) \in Nat /\ SumFunctionOnSet(h, S \cup {n}) = ClaimedIn(f, d)
      <4>1. IsFiniteSet(S) /\ SumFunctionOnSet(k, S) \in Nat
        BY ClaimFacts DEF ClaimedIn
      <4>2. SumFunctionOnSet(h, S \cup {n}) = ClaimedIn(f, d)
        BY <1>1 DEF ClaimedIn
      <4>3. \A j \in DOMAIN f : h[j] \in Nat
        BY <1>1, ClaimFacts
      <4>4. n \in DOMAIN f /\ n \notin S /\ \A j \in S \cup {n} : j \in DOMAIN f
        BY <1>1
      <4> HIDE DEF h, k, S
      <4> QED
        BY <4>1, <4>2, <4>3, <4>4
    <3>2. \A j \in S : h[j] = k[j]
      BY <1>1, <1>5 DEF Claims
    <3>3. h[n] <= o.amount /\ o.amount \in Nat
      <4>1. n \in DOMAIN f /\ Claim(f[n]) <= o.amount /\ h[n] \in {0, Claim(f[n])} /\ o.amount \in 1 .. Size
        <5>1. n \in DOMAIN f
          BY <1>1
        <5>2. Claim(f[n]) <= f[n].amount
          BY <1>1, <5>1, ClaimFacts
        <5>3. f[n].amount \in 1 .. Size
          BY <1>1, <5>1, OrderFacts
        <5>4. h[n] \in {0, Claim(f[n])}
          BY <5>1 DEF Claims
        <5> HIDE DEF h
        <5> QED
          BY <1>1, <5>1, <5>2, <5>3, <5>4
      <4> QED
        BY <3>1, <4>1, SizeAssumption
    <3>4. SumFunctionOnSet(k, S) = ClaimedIn(e, d)
      BY DEF ClaimedIn
    <3> HIDE DEF S, h, k
    <3>5. SumFunctionOnSet(h, S \cup {n}) = SumFunctionOnSet(h, S) + h[n]
      BY <3>1, SumWith
    <3>6. SumFunctionOnSet(h, S) = SumFunctionOnSet(k, S)
      BY <3>1, <3>2, SumSame
    <3> QED
      BY <1>2, <1>7, <3>1, <3>3, <3>4, <3>5, <3>6
  <2>4. ExactOpen(f, d)
    <3>1. \A j \in OpenIn(f, d) \cap SoldIn(f) : f[j].side = "stop" /\ f[j].status = "open" => f[j].amount = d.amount
      BY <1>1, <1>5, <1>7, <2>1
    <3> QED
      BY <1>3, <2>1, <2>3, <3>1 DEF ExactOpen
  <2>5. ExactEntered(f, d)
    <3>1. \A j \in OpenIn(f, d) : f[j].side # "entry"
      BY <1>1, <1>5, <1>7
    <3> QED
      BY <1>4, <1>7, <2>1, <3>1 DEF ExactEntered
  <2> QED
    BY <1>4, <1>7, <2>2, <2>4, <2>5 DEF Exact, Busy
<1> QED
  BY <1>6, <1>7

LEMMA CreateLasts ==
  ASSUME Sure, db.life \in {"none", "open"}, NEW a \in 1 .. Size, NEW side \in Sides,
         NEW market \in BOOLEAN, Create(side, a, market),
         side = "entry" => SoldIn(exch) = {},
         side # "entry" =>
           /\ db.life = "open" /\ a + ClaimedIn(exch, db) <= db.amount
           /\ side = "stop" => a = db.amount
           /\ \A i \in SoldIn(exch) : exch[i].status # "open"
           /\ \A i \in OpenIn(exch, db) : exch[i].side # "entry"
           /\ EnteredIn(exch, db) # {}
  PROVE  LastsAt(exch, db, doing, exch', db, doing')
<1>1. PICK v \in Answers(side, a, market) :
        /\ exch' = Append(exch, [side |-> side, amount |-> a, status |-> v.status, filled |-> v.filled])
        /\ doing' = [at |-> "sent", id |-> Len(exch) + 1, amount |-> 0, answer |-> v]
  BY DEF Create
<1> DEFINE o == [side |-> side, amount |-> a, status |-> v.status, filled |-> v.filled]
<1>2. o \in OrderRow /\ o.side = side /\ o.amount = a
  BY AnswerRow
<1>3. exch \in Seq(OrderRow) /\ Good(exch, db) /\ Exact(exch, db)
  BY SureFacts
<1>4. exch' = Append(exch, o)
  BY <1>1
<1> HIDE DEF o
<1>5. Exact(exch', db) /\ (Busy(exch, db) => Busy(exch', db))
  BY <1>2, <1>3, <1>4, Appended
<1>6. v.status = "open" \/ v.filled > 0
  BY SizeAssumption DEF Answers
<1>7. PICK h : h = doing'
  OBVIOUS
<1>8. h.at = "sent" /\ h.id = Len(exch) + 1 /\ h.answer = v
  BY <1>1, <1>7
<1>9. ExactDoing(exch', db, h)
  BY <1>6, <1>8 DEF ExactDoing
<1>10. GoesOn(exch, db, doing) => GoesOn(exch', db, h)
  <2>1. CASE side = "entry"
    <3>1. exch'[h.id].side = "entry"
      BY <1>2, <1>3, <1>4, <1>8, <2>1
    <3> QED
      BY <1>8, <3>1 DEF GoesOn
  <2>2. CASE side # "entry"
    <3>1. db.amount > 0
      BY <1>3, <2>2 DEF Exact, ExactEntered
    <3> QED
      BY <3>1 DEF GoesOn, Busy
  <2> QED
    BY <2>1, <2>2
<1> QED
  BY <1>5, <1>7, <1>9, <1>10 DEF LastsAt

LEMMA EnterLasts ==
  ASSUME Sure, Enter PROVE Lasts
<1>1. db.life = "none" /\ Create("entry", Size, FALSE) /\ db' = db
  BY DEF Enter
<1>2. SoldIn(exch) = {}
  BY <1>1, SureFacts DEF Exact
<1>3. Size \in 1 .. Size /\ "entry" \in Sides /\ FALSE \in BOOLEAN
  BY SizeAssumption DEF Sides
<1>4. LastsAt(exch, db, doing, exch', db, doing')
  BY <1>1, <1>2, <1>3, CreateLasts
<1> QED
  BY <1>1, <1>4 DEF Lasts

(* What the trade holds comes from an entry.                               *)
LEMMA HasEntered ==
  ASSUME NEW e \in Seq(OrderRow), NEW d, Good(e, d), Exact(e, d), d.life = "open", d.amount > 0
  PROVE  EnteredIn(e, d) # {}
<1>1. d.book \in Books(e) /\ d.amount = NetIn(e, d.book)
  BY DbFacts DEF Good, Exact, ExactOpen
<1>2. NetSum(e, d.book) > 0
  BY <1>1, NetIsSum
<1>3. \E i \in DOMAIN d.book : e[i].side = "entry" /\ d.book[i].status # "open" /\ d.book[i].filled > 0
  BY <1>1, <1>2, NetFromEntry
<1> QED
  BY <1>3 DEF EnteredIn

(* No order is placed, and the rows of the stops are brought up to date.   *)
LEMMA RefusedLasts ==
  ASSUME Sure, Refused, db.life \in {"open", "closed"}, db.amount > 0
  PROVE  Lasts
<1> DEFINE S == OpenStops
           said == Seen(S)
           again == FALSE
           u == AllUpdated(db, said, again)
<1>1. db' = u /\ doing' = Idle /\ exch' = exch
  BY DEF Refused
<1>2. /\ exch \in Seq(OrderRow) /\ SameSides(exch, exch) /\ Good(exch, db) /\ Exact(exch, db)
      /\ BaseAt(exch, db, lost, doing)
  BY SureFacts
<1>3. \A i \in S : i \in DOMAIN db.book /\ db.book[i].status = "open"
  BY DEF OpenStops, OpenRows, Recorded
<1>4. S = DOMAIN said /\ again = FALSE /\ \A i \in S : said[i] = ViewOf(exch, i)
  BY DEF Seen, View, ViewOf
<1>5. Follows(exch, db, u)
  <2> HIDE DEF S
  <2> QED
    BY <1>2, <1>3, SeenRows
<1> HIDE DEF S, said, again
<1>6. Exact(exch, u)
  BY <1>2, <1>3, <1>4, ExactAll
<1> HIDE DEF u
<1>7. LastsAt(exch, db, doing, exch, u, Idle)
  BY <1>5, <1>6, IdleFacts DEF LastsAt, ExactDoing, GoesOn, Busy, Follows
<1> QED
  BY <1>1, <1>7 DEF Lasts

LEMMA PlaceStopLasts ==
  ASSUME Sure, PlaceStop PROVE Lasts
<1>1. /\ exch \in Seq(OrderRow) /\ Good(exch, db) /\ Exact(exch, db) /\ db.amount \in Nat /\ db.amount <= Size
      /\ DoingIn(exch, db, lost, doing) /\ AmountIn(exch, db, doing) /\ ExactDoing(exch, db, doing)
      /\ db.life \in Lives
  BY SureFacts
<1>2. doing = Idle \/ doing.at = "trail"
  BY DEF PlaceStop, StopDue
<1>3. db.life = "open" /\ db.amount > 0
  <2>1. CASE doing.at = "trail"
    BY <1>1, <2>1 DEF DoingIn, AmountIn, Gone, Lives
  <2>2. CASE doing = Idle
    BY <2>2, IdleFacts DEF PlaceStop, StopDue
  <2> QED
    BY <1>2, <2>1, <2>2
<1>4. ExactOpen(exch, db) /\ ExactEntered(exch, db)
  BY <1>1, <1>3 DEF Exact
<1>5. \A i \in OpenIn(exch, db) : exch[i].side # "entry"
  <2>1. CASE doing.at = "trail"
    BY <1>1, <1>4, <2>1 DEF ExactDoing, ExactEntered
  <2>2. CASE doing = Idle
    <3>1. OpenOrders = {} /\ DOMAIN exch \subseteq DOMAIN db.book
      BY <1>3, <2>2, SureFacts, IdleFacts DEF PlaceStop, StopDue, Gone
    <3>2. ASSUME NEW i \in OpenIn(exch, db), exch[i].side = "entry" PROVE FALSE
      <4>1. i \in DOMAIN db.book /\ db.book[i].status = "open"
        BY <3>1 DEF OpenIn
      <4> QED
        BY <3>1, <3>2, <4>1 DEF OpenOrders, OpenRows, Recorded
    <3> QED
      BY <3>2
  <2> QED
    BY <1>2, <2>1, <2>2
<1>6. CASE Free >= db.amount /\ Create("stop", db.amount, FALSE) /\ db' = db
  <2>1. Free = db.amount - ClaimedIn(exch, db) /\ ClaimedIn(exch, db) \in Nat
    BY <1>1, <1>4, <1>5, FreeIs, ClaimFacts DEF ExactOpen
  <2>2. ClaimedIn(exch, db) = 0
    BY <1>1, <1>6, <2>1
  <2>3. \A i \in SoldIn(exch) : exch[i].status # "open"
    <3>1. SUFFICES ASSUME NEW i \in SoldIn(exch), exch[i].status = "open" PROVE FALSE
      OBVIOUS
    <3>2. i \in DOMAIN exch /\ i \in OpenIn(exch, db) \cap SoldIn(exch)
      BY <1>1, <3>1, FlowFacts DEF SoldIn
    <3>3. Claim(exch[i]) = 0
      BY <1>1, <2>2, <3>2, ClaimFacts
    <3>4. EmptyAt(exch, i)
      BY <1>1, <3>2, <3>3, ClaimFacts
    <3> QED
      BY <3>1, <3>4 DEF EmptyAt, ViewOf, NoFill
  <2>4. EnteredIn(exch, db) # {}
    BY <1>1, <1>3, HasEntered
  <2>5. PICK a : a = db.amount /\ a \in 1 .. Size /\ a + ClaimedIn(exch, db) <= db.amount
    BY <1>1, <1>3, <2>2, SizeAssumption
  <2>6. PICK side : side = "stop" /\ side # "entry" /\ side \in Sides
    BY DEF Sides
  <2>7. PICK market \in BOOLEAN : Create(side, a, market)
    BY <1>6, <2>5, <2>6
  <2>8. LastsAt(exch, db, doing, exch', db, doing')
    BY <1>3, <1>5, <2>3, <2>4, <2>5, <2>6, <2>7, CreateLasts
  <2> QED
    BY <1>6, <2>8 DEF Lasts
<1>7. CASE Refused
  BY <1>3, <1>7, RefusedLasts
<1>8. CASE doing' = [Idle EXCEPT !.at = "urgent"] /\ exch' = exch /\ db' = db
  <2>1. PICK h : h = doing' /\ h.at = "urgent"
    BY <1>8 DEF Idle
  <2>2. LastsAt(exch, db, doing, exch, db, h)
    BY <1>1, <1>3, <2>1 DEF LastsAt, ExactDoing, GoesOn, Busy
  <2> QED
    BY <1>8, <2>1, <2>2 DEF Lasts
<1> QED
  BY <1>6, <1>7, <1>8 DEF PlaceStop

LEMMA ReplaceLasts ==
  ASSUME Sure, NEW i, NEW done, Replace(i, done) PROVE Lasts
<1> DEFINE v == Answer(i, done)
           k == EntryCanceled(i, v, TRUE)
<1>1. db.life = "open" /\ i \in OpenOrders /\ CancelAt(i, done) /\ doing = Idle /\ exch[i].side = "entry"
  BY DEF Replace, OpenOrders, OpenRows
<1>2. /\ exch' \in Seq(OrderRow) /\ Moves(exch, exch')
      /\ Good(exch', db) /\ Exact(exch', db)
      /\ i \in DOMAIN db.book /\ db.book[i].status = "open"
      /\ v = ViewOf(exch', i) /\ exch'[i].side = exch[i].side
  BY <1>1, CancelIs
<1>3. exch \in Seq(OrderRow) /\ Good(exch, db) /\ DOMAIN exch \subseteq DOMAIN db.book /\ db \in DbRow(exch)
  BY <1>1, SureFacts, IdleFacts DEF Gone
<1>4. EntryWritten(exch', v, TRUE, k)
  <2> HIDE DEF v
  <2> QED
    BY <1>1, <1>2, <1>3, EntryLasts
<1>5. db' = IF v.status = "open" /\ Entered = {} THEN Unreplaced ELSE k
  BY DEF Replace
<1>6. doing' = IF v = NoFill THEN [Idle EXCEPT !.at = "again", !.amount = exch[i].amount] ELSE Idle
  BY DEF Replace, NoFill
<1> HIDE DEF v, k
<1>7. PICK h : h = doing' /\ h.at = IF v = NoFill THEN "again" ELSE "idle"
  <2>1. ASSUME NEW a, NEW x, x = [Idle EXCEPT !.at = "again", !.amount = a] PROVE x.at = "again"
    BY <2>1 DEF Idle
  <2> QED
    BY <1>6, <2>1, IdleFacts
<1>8. CASE v.status = "open" /\ Entered = {}
  <2>1. db' = [life |-> "unreplaced", amount |-> db.amount, book |-> <<>>] /\ OneLive(exch')
    BY <1>2, <1>3, <1>5, <1>8, GoneRecords DEF Exact
  <2>2. LastsAt(exch, db, doing, exch', db', Idle)
    BY <2>1, GoneLasts DEF Gone
  <2>3. doing' = Idle
    BY <1>6, <1>8 DEF NoFill
  <2> QED
    BY <2>2, <2>3 DEF Lasts
<1>9. CASE ~(v.status = "open" /\ Entered = {})
  <2>1. LastsAt(exch, db, doing, exch', k, h)
    BY <1>4, <1>7 DEF LastsAt, EntryWritten, ExactDoing, GoesOn
  <2> QED
    BY <1>5, <1>7, <1>9, <2>1 DEF Lasts
<1> QED
  BY <1>8, <1>9

LEMMA ReplaceWithLasts ==
  ASSUME Sure, ReplaceWith PROVE Lasts
<1>1. doing.at = "again"
  BY DEF ReplaceWith
<1>2. /\ exch \in Seq(OrderRow) /\ db \in DbRow(exch) /\ db.life \in Lives
      /\ DoingIn(exch, db, lost, doing) /\ ExactDoing(exch, db, doing)
  BY SureFacts
<1>3. CASE Create("entry", doing.amount, FALSE) /\ db' = db
  <2>1. /\ SoldIn(exch) = {} /\ db.life \in {"none", "open"} /\ doing.amount \in 1 .. Size
        /\ "entry" \in Sides /\ FALSE \in BOOLEAN
    BY <1>1, <1>2, SizeAssumption DEF ExactDoing, DoingIn, DoingRow, Lives, Gone, Sides
  <2>2. LastsAt(exch, db, doing, exch', db, doing')
    BY <1>3, <2>1, CreateLasts
  <2> QED
    BY <1>3, <2>2 DEF Lasts
<1>4. CASE db' = Unreplaced /\ doing' = Idle /\ exch' = exch
  <2>1. db' = [life |-> "unreplaced", amount |-> db.amount, book |-> <<>>] /\ OneLive(exch)
    BY <1>2, <1>4, SureFacts, GoneRecords DEF Exact
  <2>2. LastsAt(exch, db, doing, exch, db', Idle)
    BY <2>1, GoneLasts DEF Gone
  <2> QED
    BY <1>4, <2>2 DEF Lasts
<1> QED
  BY <1>3, <1>4 DEF ReplaceWith

(* An exit is placed if what it sells is free: then no stop is left.       *)
LEMMA PlaceExitLasts ==
  ASSUME Sure, PlaceExit PROVE Lasts
<1>1. doing.at \in {"place", "market"} /\ OpenOrders = {}
  BY DEF PlaceExit
<1>2. /\ exch \in Seq(OrderRow) /\ Good(exch, db) /\ Exact(exch, db) /\ db.amount \in Nat
      /\ db.life \in {"open", "closed"} /\ doing.amount \in 1 .. Size /\ db.amount > 0
      /\ DOMAIN exch \subseteq DOMAIN db.book
  <2>1. /\ DoingIn(exch, db, lost, doing) /\ AmountIn(exch, db, doing) /\ db.life \in Lives
        /\ db.life \notin Gone => DOMAIN exch \subseteq DOMAIN db.book
    BY <1>1, SureFacts
  <2>2. db.life \in {"open", "closed"} /\ doing.amount \in 1 .. Size /\ db.amount > 0
    BY <1>1, <2>1, SizeAssumption DEF DoingIn, DoingRow, AmountIn, Lives, Gone
  <2> QED
    BY <2>1, <2>2, SureFacts DEF Gone
<1>3. \A i \in OpenIn(exch, db) : exch[i].side = "stop" /\ i \in DOMAIN exch
  <2>1. SUFFICES ASSUME NEW i \in OpenIn(exch, db) PROVE exch[i].side = "stop" /\ i \in DOMAIN exch
    OBVIOUS
  <2>2. i \in DOMAIN exch /\ i \in DOMAIN db.book /\ db.book[i].status = "open"
    BY <1>2 DEF OpenIn
  <2> QED
    BY <1>1, <1>2, <2>2, OrderFacts DEF OpenOrders, OpenRows, Recorded
<1>4. CASE /\ Create("exit", doing.amount, doing.at = "market") /\ db' = db
           /\ Free >= doing.amount
  <2>1. db.life = "open" /\ ExactOpen(exch, db)
    <3>1. ASSUME Flat(exch) PROVE FALSE
      <4>1. Held = 0
        BY <1>2, <3>1, HeldIs DEF Flat
      <4>2. OpenAt({"exit", "stop"}) = {}
        BY <3>1 DEF Flat, OpenAt, On
      <4>3. SumFunctionOnSet([i \in DOMAIN exch |-> Left(i)], {}) = 0
        <5> DEFINE f == [i \in DOMAIN exch |-> Left(i)]
        <5>1. IsFiniteSet({}) /\ \A i \in {} : f[i] \in Int
          BY FS_EmptySet
        <5> HIDE DEF f
        <5> QED
          BY <5>1, SumFacts DEF f
      <4>4. Free = 0
        BY <4>1, <4>2, <4>3 DEF Free
      <4> QED
        BY <1>2, <1>4, <4>4, SizeAssumption
    <3> QED
      BY <1>2, <3>1 DEF Exact
  <2>2. Free = db.amount - ClaimedIn(exch, db) /\ ClaimedIn(exch, db) \in Nat
    BY <1>2, <1>3, <2>1, FreeIs, ClaimFacts DEF ExactOpen
  <2>3. PICK a : a = doing.amount /\ a \in 1 .. Size /\ a + ClaimedIn(exch, db) <= db.amount
    BY <1>2, <1>4, <2>2, SizeAssumption
  <2>4. \A i \in SoldIn(exch) : exch[i].status # "open"
    <3>1. SUFFICES ASSUME NEW i \in SoldIn(exch), exch[i].status = "open" PROVE FALSE
      OBVIOUS
    <3>2. i \in DOMAIN exch /\ i \in OpenIn(exch, db) \cap SoldIn(exch)
      BY <1>2, <3>1, FlowFacts DEF SoldIn
    <3>3. exch[i].amount = db.amount
      BY <1>3, <2>1, <3>1, <3>2 DEF ExactOpen
    <3>4. Claims(exch, db)[i] = db.amount /\ Claims(exch, db)[i] <= ClaimedIn(exch, db)
      BY <1>2, <3>1, <3>2, <3>3, ClaimFacts
    <3> QED
      BY <1>2, <2>2, <2>3, <3>4, SizeAssumption
  <2>5. EnteredIn(exch, db) # {}
    BY <1>2, <2>1, HasEntered
  <2>6. PICK side : side = "exit" /\ side \in Sides /\ side # "entry" /\ side # "stop"
    BY DEF Sides
  <2>7. PICK market \in BOOLEAN : Create("exit", doing.amount, market)
    BY <1>4
  <2>8. Create(side, a, market)
    BY <2>3, <2>6, <2>7
  <2>9. \A i \in OpenIn(exch, db) : exch[i].side # "entry"
    BY <1>3
  <2>10. LastsAt(exch, db, doing, exch', db, doing')
    BY <2>1, <2>3, <2>4, <2>5, <2>6, <2>8, <2>9, CreateLasts
  <2> QED
    BY <1>4, <2>10 DEF Lasts
<1>5. CASE Refused
  BY <1>2, <1>5, RefusedLasts
<1> QED
  BY <1>4, <1>5 DEF PlaceExit

(* Without rows nothing adds up.                                           *)
LEMMA NoRows ==
  ASSUME NEW e, NEW b, DOMAIN b = {} PROVE NetIn(e, b) = 0
<1> DEFINE f == Filled(b)
<1>1. IsFiniteSet({}) /\ \A i \in {} : f[i] \in Int
  BY FS_EmptySet
<1>2. DoneIn(e, b, {"entry"}) = {} /\ DoneIn(e, b, {"exit", "stop"}) = {}
  BY DEF DoneIn
<1> HIDE DEF f
<1>3. SumFunctionOnSet(f, {}) = 0
  BY <1>1, SumFacts
<1>4. NetIn(e, b) = SumFunctionOnSet(f, {}) - SumFunctionOnSet(f, {})
  BY <1>2 DEF NetIn, f
<1> QED
  BY <1>3, <1>4

LEMMA RecordLasts ==
  ASSUME Sure, Record PROVE Lasts
<1> DEFINE c == [db EXCEPT !.life = IF @ = "none" THEN "open" ELSE @]
           i == doing.id
           v == doing.answer
           u == Updated(c, i, v, FALSE)
<1>1. exch' = exch /\ doing' = Idle /\ doing.at = "sent" /\ db' = u
  BY DEF Record
<1>2. /\ exch \in Seq(OrderRow) /\ Good(exch, db) /\ db \in DbRow(exch) /\ Exact(exch, db)
      /\ SameSides(exch, exch) /\ db.life \in Lives /\ db.book \in Books(exch)
      /\ RowsIn(exch, db, lost) /\ DoingIn(exch, db, lost, doing) /\ ExactDoing(exch, db, doing)
      /\ db.amount \in Nat
  BY SureFacts
<1>3. db.life \in {"none", "open"} /\ (v.status = "open" \/ v.filled > 0)
  BY <1>1, <1>2 DEF DoingIn, ExactDoing, Lives, Gone
<1>4. /\ v \in Views /\ i \in DOMAIN exch /\ i \notin DOMAIN db.book
      /\ v.status # "open" => v = ViewOf(exch, i)
  BY <1>1, <1>2 DEF DoingIn, DoingRow, SentIn, RowsIn
<1>5. c.life = "open" /\ c.amount = db.amount /\ c.book = db.book /\ c \in DbRow(exch)
  BY <1>2, <1>3 DEF DbRow, Lives
<1> HIDE DEF c
<1>6. db.life = "none" => NetIn(exch, db.book) = 0 /\ EnteredIn(exch, db) = {} /\ SoldIn(exch) = {}
                          /\ db.amount = 0
  <2>1. SUFFICES ASSUME db.life = "none"
                 PROVE  NetIn(exch, db.book) = 0 /\ EnteredIn(exch, db) = {} /\ SoldIn(exch) = {}
                        /\ db.amount = 0
    OBVIOUS
  <2>2. DOMAIN db.book = {}
    BY <1>2, <2>1 DEF RowsIn
  <2> QED
    BY <1>2, <2>1, <2>2, NoRows DEF Exact, EnteredIn
<1>7. /\ OpenIn(exch, c) = OpenIn(exch, db) /\ EnteredIn(exch, c) = EnteredIn(exch, db)
      /\ ClaimedIn(exch, c) = ClaimedIn(exch, db)
  BY <1>5 DEF OpenIn, EnteredIn, ClaimedIn, Claims
<1>8. Exact(exch, c)
  <2>1. CASE db.life = "none"
    <3>1. ClaimedIn(exch, c) = 0 /\ OneLive(exch)
      BY <1>2, <1>6, <2>1, NoClaims DEF Exact
    <3>2. ExactOpen(exch, c) /\ ExactEntered(exch, c)
      BY <1>5, <1>6, <1>7, <2>1, <3>1 DEF ExactOpen, ExactEntered
    <3> QED
      BY <1>5, <3>1, <3>2 DEF Exact
  <2>2. CASE db.life = "open"
    <3>1. ExactOpen(exch, db) /\ ExactEntered(exch, db) /\ OneLive(exch)
      BY <1>2, <2>2 DEF Exact
    <3>2. ExactOpen(exch, c) /\ ExactEntered(exch, c)
      BY <1>5, <1>7, <3>1 DEF ExactOpen, ExactEntered
    <3> QED
      BY <1>5, <3>1, <3>2 DEF Exact
  <2> QED
    BY <1>3, <2>1, <2>2
<1>9. Good(exch, c)
  <2>1. Counted(exch, c)
    <3>1. NetIn(exch, db.book) \in Int
      BY <1>2, NetIsSum
    <3> QED
      BY <1>2, <1>3, <1>5, <1>6, <3>1 DEF Good, Counted
  <2> QED
    BY <1>2, <1>5, <2>1 DEF Good
<1>10. i \in OpenIn(exch, c)
  BY <1>4, <1>5 DEF OpenIn
<1> HIDE DEF v, i
<1>11. Exact(exch, u)
  BY <1>2, <1>4, <1>5, <1>8, <1>9, <1>10, ExactWritten
<1>12. DOMAIN u.book = DOMAIN c.book \cup {i} /\ (c.amount > 0 => u.amount > 0)
  <2> DEFINE again == FALSE
  <2>1. again \in BOOLEAN /\ u = Updated(c, i, v, again)
    OBVIOUS
  <2> HIDE DEF u, again
  <2>2. exch \in Seq(OrderRow) /\ c \in DbRow(exch) /\ i \in DOMAIN exch /\ v \in Views
    BY <1>2, <1>4, <1>5
  <2> QED
    BY <2>1, <2>2, RowsAfter
<1>13. Busy(exch, u)
  <2> DEFINE again == FALSE
  <2>6. again \in BOOLEAN /\ u = Updated(c, i, v, again)
    OBVIOUS
  <2> HIDE DEF u, again
  <2>1. u.book[i] = v
    <3>1. \A j \in DOMAIN u.book : u.book[j] = IF j = i THEN v ELSE c.book[j]
      BY <1>2, <1>4, <1>5, <2>6, UpdatedFacts
    <3> QED
      BY <1>12, <3>1
  <2>2. v.status # "open" /\ v.filled # 0 /\ exch[i].side = "entry" =>
          u.life = c.life /\ u.amount = IF NetIn(exch, u.book) > 0 THEN NetIn(exch, u.book) ELSE v.filled
    BY <1>2, <1>4, <1>5, <2>6, UpdatedFacts
  <2>3. CASE exch[i].side = "entry" /\ v.status = "open"
    <3>1. i \in OrdersIn(exch, u)
      BY <1>12, <2>1, <2>3 DEF OrdersIn
    <3> QED
      BY <3>1 DEF Busy
  <2>4. CASE exch[i].side = "entry" /\ v.status # "open"
    <3>1. v.filled \in Nat /\ v.filled > 0
      BY <1>3, <1>4, <2>4, SizeAssumption DEF Views, v
    <3>2. u.amount > 0
      BY <2>2, <2>4, <3>1
    <3> QED
      BY <3>2 DEF Busy
  <2>5. CASE exch[i].side # "entry"
    <3>1. i \in SoldIn(exch)
      BY <1>2, <1>4, <2>5, OrderFacts DEF SoldIn, Sells
    <3>2. ExactEntered(exch, c)
      BY <1>5, <1>8 DEF Exact
    <3>3. u.amount > 0
      BY <1>12, <3>1, <3>2 DEF ExactEntered
    <3> QED
      BY <3>3 DEF Busy
  <2> QED
    BY <2>3, <2>4, <2>5
<1> HIDE DEF u
<1>14. LastsAt(exch, db, doing, exch, u, Idle)
  BY <1>11, <1>13, IdleFacts DEF LastsAt, ExactDoing, GoesOn
<1> QED
  BY <1>1, <1>14 DEF Lasts

(* When no order was lost there is nothing to recover: the trade holds     *)
(* what its rows say.                                                      *)
LEMMA RecoverLasts ==
  ASSUME Sure, Recover PROVE FALSE
<1>1. doing = Idle /\ db.life = "open" /\ OpenOrders = {} /\ OpenStops = {} /\ Held < db.amount
  BY DEF Recover
<1>2. /\ exch \in Seq(OrderRow) /\ Good(exch, db) /\ ExactOpen(exch, db) /\ db.amount \in Nat
      /\ DOMAIN exch \subseteq DOMAIN db.book
  BY <1>1, SureFacts, IdleFacts DEF Gone, Exact
<1>3. ASSUME NEW i \in OpenIn(exch, db) PROVE FALSE
  <2>1. i \in DOMAIN db.book /\ db.book[i].status = "open" /\ exch[i].side \in {"entry", "exit", "stop"}
    BY <1>2, OrderFacts DEF OpenIn
  <2> QED
    BY <1>1, <2>1 DEF OpenOrders, OpenStops, OpenRows, Recorded
<1>4. Held = db.amount
  BY <1>2, <1>3, HeldIs, HeldIsNet DEF ExactOpen
<1> QED
  BY <1>1, <1>2, <1>4

LEMMA DeleteLasts ==
  ASSUME Sure, Delete PROVE Lasts
<1>1. doing = Idle /\ doing' = Idle /\ db' = [db EXCEPT !.life = "deleted", !.book = <<>>]
  BY DEF Delete
<1>2. db' = [life |-> "deleted", amount |-> db.amount, book |-> <<>>]
  BY <1>1, SureFacts, GoneRecord
<1>3. OneLive(exch')
  <2>1. exch \in Seq(OrderRow) /\ Good(exch, db) /\ Exact(exch, db)
    BY SureFacts
  <2>2. Exact(exch', db)
    BY <2>1, DeleteMoves, ExactMoves
  <2> QED
    BY <2>2 DEF Exact
<1>4. LastsAt(exch, db, doing, exch', db', Idle)
  BY <1>2, <1>3, GoneLasts DEF Gone
<1> QED
  BY <1>1, <1>4 DEF Lasts

LEMMA CrashLasts ==
  ASSUME Sure, Crash PROVE Lasts
<1>1. PICK h : h = doing' /\ h.at = "startup"
  BY DEF Crash, Idle
<1>2. exch' = exch /\ db' = db /\ Exact(exch, db)
  BY SureFacts DEF Crash
<1>3. LastsAt(exch, db, doing, exch, db, h)
  BY <1>1, <1>2 DEF LastsAt, ExactDoing
<1> QED
  BY <1>1, <1>2, <1>3 DEF Lasts

LEMMA StartupLasts ==
  ASSUME Sure, Startup PROVE Lasts
<1>1. doing.at = "startup" /\ doing' = Idle /\ exch' = exch
  BY DEF Startup
<1>2. /\ exch \in Seq(OrderRow) /\ Good(exch, db) /\ Exact(exch, db) /\ RowsIn(exch, db, lost)
      /\ DOMAIN db.book \subseteq DOMAIN exch
  BY SureFacts
<1>3. PICK S \in SUBSET (OpenOrders \cup OpenStops) : db' = AllUpdated(db, Seen(S), FALSE)
  BY DEF Startup
<1> DEFINE said == Seen(S)
           again == FALSE
           u == AllUpdated(db, said, again)
<1>4. /\ \A i \in S : /\ i \in DOMAIN db.book /\ db.book[i].status = "open" /\ said[i] = ViewOf(exch, i)
      /\ S = DOMAIN said /\ again = FALSE /\ S \in SUBSET DOMAIN db.book
  BY DEF OpenOrders, OpenStops, OpenRows, Recorded, Seen, View, ViewOf
<1>7. BaseAt(exch, db, lost, doing) /\ SameSides(exch, exch)
  BY SureFacts
<1>5. Exact(exch, u)
  <2>1. CASE S = {}
    <3>1. u = db
      BY <1>4, <1>7, <2>1, SeenRows
    <3> QED
      BY <1>2, <3>1
  <2>2. CASE S # {}
    <3>1. db.life \in {"open", "closed"}
      BY <1>2, <1>4, <2>2 DEF RowsIn
    <3> HIDE DEF said, again
    <3> QED
      BY <1>2, <1>4, <1>7, <3>1, ExactAll
  <2> QED
    BY <2>1, <2>2
<1> HIDE DEF u
<1>6. LastsAt(exch, db, doing, exch, u, Idle)
  BY <1>1, <1>5, IdleFacts DEF LastsAt, ExactDoing
<1> QED
  BY <1>1, <1>3, <1>6 DEF Lasts, u

LEMMA StepLasts ==
  ASSUME Sure, [Next]_vars PROVE Lasts
<1>1. ASSUME NEW i \in DOMAIN exch, Fill(i) \/ Withdraw(i) PROVE Lasts
  BY <1>1, ExchangeLasts
<1>2. ASSUME NEW i \in DOMAIN exch, Step(i) PROVE Lasts
  <2>1. CASE Poll(i)
    BY <2>1, AskedLasts DEF Poll
  <2>2. CASE \E done \in BOOLEAN : Cancel(i, done) \/ ReplaceExit(i, done) \/ Replace(i, done) \/ Similar(i, done)
    BY <2>2, CancelLasts, ReplaceExitLasts, ReplaceLasts, SimilarLasts
  <2> QED
    BY <1>2, <2>1, <2>2 DEF Step
<1>3. CASE HandleEmpty
  BY <1>3, HandleEmptyLasts
<1>4. ASSUME NEW S \in SUBSET LiveStops, ExitSignal(S) \/ ForcePart(S) \/ NextExit(S) PROVE Lasts
  BY <1>4, ExitLasts
<1>5. CASE PlaceExit
  BY <1>5, PlaceExitLasts
<1>6. CASE Enter
  BY <1>6, EnterLasts
<1>7. CASE ReplaceWith
  BY <1>7, ReplaceWithLasts
<1>8. CASE PlaceStop
  BY <1>8, PlaceStopLasts
<1>9. ASSUME NEW S \in SUBSET LiveStops, TrailStop(S) PROVE Lasts
  BY <1>9, TrailStopLasts
<1>10. CASE Record
  BY <1>10, RecordLasts
<1>11. CASE Recover
  BY <1>11, RecoverLasts
<1>12. CASE Delete
  BY <1>12, DeleteLasts
<1>13. CASE Crash
  BY <1>13, CrashLasts
<1>14. CASE Startup
  BY <1>14, StartupLasts
<1>15. CASE UNCHANGED vars
  <2>1. exch' = exch /\ db' = db /\ doing' = doing
    BY <1>15 DEF vars
  <2>2. LastsAt(exch, db, doing, exch, db, doing)
    BY SureFacts DEF LastsAt
  <2> QED
    BY <2>1, <2>2 DEF Lasts
<1> QED
  BY <1>1, <1>2, <1>3, <1>4, <1>5, <1>6, <1>7, <1>8, <1>9, <1>10, <1>11, <1>12, <1>13, <1>14, <1>15
     DEF Next

(* How a step changes what is lost: an order is unknown from its creation  *)
(* to its row, and for good if the bot dies in between.                    *)
Steady == lost' = lost /\ doing.at # "sent" /\ doing'.at \notin {"sent", "startup"}
Creates ==
  /\ doing.at # "sent" /\ doing'.at = "sent" /\ doing'.id = Len(exch) + 1
  /\ lost' = lost \cup {Len(exch) + 1}
Records == doing.at = "sent" /\ lost' = lost \ {doing.id} /\ doing'.at = "idle"

LEMMA HowLost ==
  ASSUME [Next]_vars
  PROVE  (lost' = lost /\ doing' = doing) \/ Steady \/ Creates \/ Records \/ Crash
<1> DEFINE Goal == (lost' = lost /\ doing' = doing) \/ Steady \/ Creates \/ Records \/ Crash
<1> SUFFICES Goal
  OBVIOUS
<1>1. Idle.at = "idle"
  BY IdleFacts
<1>2. ASSUME NEW x, NEW at, NEW a, x = [Idle EXCEPT !.at = at, !.amount = a] PROVE x.at = at
  BY <1>2 DEF Idle
<1>3. ASSUME NEW x, NEW at, NEW i, x = [Idle EXCEPT !.at = at, !.id = i] PROVE x.at = at
  BY <1>3 DEF Idle
<1>4. ASSUME NEW x, NEW at, x = [Idle EXCEPT !.at = at] PROVE x.at = at
  BY <1>4 DEF Idle
<1>5. ASSUME NEW i, Fill(i) \/ Withdraw(i) PROVE Goal
  BY <1>5 DEF Fill, Withdraw
<1>6. ASSUME NEW i, Poll(i) PROVE Goal
  <2>1. doing = Idle /\ lost' = lost
    BY <1>6 DEF Poll, Asked
  <2>2. doing' = [Idle EXCEPT !.at = "empty", !.id = i] \/ doing' = Idle
    BY <1>6 DEF Poll, Asked
  <2>3. doing'.at \in {"empty", "idle"}
    BY <1>1, <1>3, <2>2
  <2> QED
    BY <1>1, <2>1, <2>3 DEF Steady
<1>7. ASSUME NEW i, NEW done, Cancel(i, done) PROVE Goal
  <2>1. doing = Idle /\ lost' = lost
    BY <1>7 DEF Cancel
  <2>2. \/ doing' = [Idle EXCEPT !.at = "urgent", !.amount = Remaining(i, done)]
        \/ doing' = Idle
    BY <1>7 DEF Cancel
  <2>3. doing'.at \in {"urgent", "idle"}
    BY <1>1, <1>2, <2>2
  <2> QED
    BY <1>1, <2>1, <2>3 DEF Steady
<1>8. ASSUME NEW i, NEW done, Replace(i, done) PROVE Goal
  <2>1. doing = Idle /\ lost' = lost
    BY <1>8 DEF Replace
  <2>2. doing' = [Idle EXCEPT !.at = "again", !.amount = exch[i].amount] \/ doing' = Idle
    BY <1>8 DEF Replace
  <2>3. doing'.at \in {"again", "idle"}
    BY <1>1, <1>2, <2>2
  <2> QED
    BY <1>1, <2>1, <2>3 DEF Steady
<1>9. ASSUME NEW i, NEW done, Similar(i, done) PROVE Goal
  <2>1. doing.at \in {"place", "market"} /\ lost' = lost /\ (doing' = Idle \/ doing' = doing)
    BY <1>9 DEF Similar
  <2> QED
    BY <1>1, <2>1 DEF Steady
<1>22. ASSUME NEW i, NEW done, ReplaceExit(i, done) PROVE Goal
  <2>1. doing = Idle /\ lost' = lost /\ doing' = [Idle EXCEPT !.at = "limit", !.amount = Remaining(i, done)]
    BY <1>22 DEF ReplaceExit
  <2>2. doing'.at = "limit"
    BY <1>2, <2>1
  <2> QED
    BY <1>1, <2>1, <2>2 DEF Steady
<1>10. ASSUME NEW S, NEW sub, NEW at \in {"place", "market"}, Exit(S, sub, at), doing.at # "sent" PROVE Goal
  <2>1. /\ lost' = lost
        /\ doing' = Idle \/ \E a : doing' = [Idle EXCEPT !.at = at, !.amount = a]
    BY <1>10 DEF Exit
  <2>2. doing'.at \in {"idle", "place", "market"}
    BY <1>1, <1>2, <2>1
  <2> QED
    BY <1>10, <2>1, <2>2 DEF Steady
<1>11. ASSUME NEW side, NEW a, NEW market, Create(side, a, market), doing.at # "sent" PROVE Goal
  BY <1>11 DEF Create, Creates
<1>12. ASSUME NEW S, ExitSignal(S) \/ ForcePart(S) \/ NextExit(S) PROVE Goal
  BY <1>1, <1>10, <1>12 DEF ExitSignal, ForcePart, NextExit
<1>23. ASSUME NEW S, TrailStop(S) PROVE Goal
  <2>1. doing = Idle /\ lost' = lost /\ (doing' = Idle \/ doing' = [Idle EXCEPT !.at = "trail"])
    BY <1>23 DEF TrailStop
  <2>2. doing'.at \in {"idle", "trail"}
    BY <1>1, <1>4, <2>1
  <2> QED
    BY <1>1, <2>1, <2>2 DEF Steady
<1>24. ASSUME Refused, doing.at # "sent" PROVE Goal
  BY <1>1, <1>24 DEF Refused, Steady
<1>13. CASE PlaceExit
  BY <1>1, <1>11, <1>13, <1>24 DEF PlaceExit
<1>14. CASE Enter
  BY <1>1, <1>11, <1>14 DEF Enter
<1>15. CASE ReplaceWith
  BY <1>1, <1>11, <1>15 DEF ReplaceWith, Steady
<1>16. CASE PlaceStop
  <2>1. doing.at \in {"idle", "trail"}
    BY <1>1, <1>16 DEF PlaceStop, StopDue
  <2>2. CASE doing' = [Idle EXCEPT !.at = "urgent"] /\ lost' = lost
    <3>1. doing'.at = "urgent"
      BY <1>4, <2>2
    <3> QED
      BY <1>1, <2>1, <2>2, <3>1 DEF Steady
  <2>3. CASE Create("stop", db.amount, FALSE)
    BY <1>11, <2>1, <2>3
  <2>4. CASE Refused
    BY <1>24, <2>1, <2>4
  <2> QED
    BY <1>16, <2>2, <2>3, <2>4 DEF PlaceStop
<1>17. CASE HandleEmpty \/ Startup
  BY <1>1, <1>17 DEF HandleEmpty, Startup, Steady
<1>18. CASE Recover \/ Delete
  BY <1>18 DEF Recover, Delete
<1>19. CASE Record
  BY <1>1, <1>19 DEF Record, Records
<1>20. CASE UNCHANGED vars
  BY <1>20 DEF vars
<1> HIDE DEF Goal
<1>21. CASE Next
  <2>1. ASSUME NEW i \in DOMAIN exch, Fill(i) \/ Withdraw(i) \/ Step(i) PROVE Goal
    BY <1>5, <1>6, <1>7, <1>8, <1>9, <1>22, <2>1 DEF Step
  <2>2. CASE Crash
    BY <2>2 DEF Goal
  <2> QED
    BY <1>12, <1>13, <1>14, <1>15, <1>16, <1>17, <1>18, <1>19, <1>21, <1>23, <2>1, <2>2 DEF Next
<1> QED
  BY <1>20, <1>21

LEMMA KnownSteps ==
  ASSUME Base, [Next]_vars
  PROVE  /\ Known(lost', doing') => Known(lost, doing)
         /\ ~Crash /\ Known(lost, doing) /\ doing.at # "startup" =>
              Known(lost', doing') /\ doing'.at # "startup"
<1>1. (lost' = lost /\ doing' = doing) \/ Steady \/ Creates \/ Records \/ Crash
  BY HowLost
<1>2. lost \subseteq DOMAIN exch /\ Len(exch) + 1 \notin DOMAIN exch /\ (doing.at = "sent" => doing.id \in lost)
  <2>1. exch \in Seq(OrderRow) /\ RowsIn(exch, db, lost) /\ DoingIn(exch, db, lost, doing)
    BY BaseParts
  <2> QED
    BY <2>1 DEF RowsIn, DoingIn, SentIn
<1>3. PICK h, m : h = doing' /\ m = lost'
  OBVIOUS
<1>4. CASE lost' = lost /\ doing' = doing
  BY <1>4 DEF Known
<1>5. CASE Steady
  BY <1>3, <1>5 DEF Steady, Known
<1>6. CASE Creates
  BY <1>2, <1>3, <1>6 DEF Creates, Known
<1>7. CASE Records
  <2>1. h.at = "idle" /\ m = lost \ {doing.id} /\ doing.at = "sent" /\ doing.id \in lost
    BY <1>2, <1>3, <1>7 DEF Records
  <2>2. Known(m, h) <=> m = {}
    BY <2>1 DEF Known
  <2>3. Known(lost, doing) <=> lost = {doing.id}
    BY <2>1 DEF Known
  <2> QED
    BY <1>3, <2>1, <2>2, <2>3
<1>8. CASE Crash
  <2>1. h.at = "startup" /\ m = lost
    BY <1>3, <1>8 DEF Crash, Idle
  <2> QED
    BY <1>2, <1>3, <1>8, <2>1 DEF Known
<1> QED
  BY <1>1, <1>4, <1>5, <1>6, <1>7, <1>8

(* The invariant of the trade: while no order is lost its amount is exact, *)
(* and until the bot restarts no order is lost and the trade goes on.      *)
Running == Known(lost, doing) /\ doing.at # "startup" /\ GoesOn(exch, db, doing)
TradeInv == Base /\ ExactAt(exch, db, lost, doing) /\ (crashes = 0 => Running)

LEMMA TradeInit ==
  ASSUME Init PROVE TradeInv
<1>1. /\ exch = <<>> /\ lost = {} /\ doing = Idle /\ Base
      /\ db = [life |-> "none", amount |-> 0, book |-> <<>>]
  BY BaseInit DEF Init
<1>2. DOMAIN exch = {} /\ db.life = "none" /\ db.amount = 0
  BY <1>1
<1>3. Exact(exch, db)
  BY <1>2 DEF Exact, OneLive, SoldIn
<1>4. ExactDoing(exch, db, doing) /\ Known(lost, doing) /\ doing.at # "startup" /\ GoesOn(exch, db, doing)
  BY <1>1, <1>2, IdleFacts DEF ExactDoing, Known, GoesOn, Busy
<1> QED
  BY <1>1, <1>3, <1>4 DEF TradeInv, ExactAt, Running

LEMMA TradeStep ==
  ASSUME TradeInv, [Next]_vars PROVE TradeInv'
<1>1. Base /\ Base'
  BY BaseStep DEF TradeInv
<1>2. PICK f, u, m, h : f = exch' /\ u = db' /\ m = lost' /\ h = doing'
  OBVIOUS
<1>3. /\ Known(m, h) => Known(lost, doing)
      /\ ~Crash /\ Known(lost, doing) /\ doing.at # "startup" => Known(m, h) /\ h.at # "startup"
  BY <1>1, <1>2, KnownSteps
<1>4. ASSUME Known(lost, doing) PROVE LastsAt(exch, db, doing, f, u, h)
  <2>1. Sure
    BY <1>4 DEF TradeInv, Base, ExactAt, Sure, SureAt
  <2> QED
    BY <1>2, <2>1, StepLasts DEF Lasts
<1>5. ExactAt(f, u, m, h)
  BY <1>3, <1>4 DEF ExactAt, LastsAt
<1>6. ASSUME crashes' = 0 PROVE Known(m, h) /\ h.at # "startup" /\ GoesOn(f, u, h)
  <2>1. crashes = 0 /\ ~Crash
    <3>1. crashes \in Nat
      BY <1>1, BoundsAssumption DEF Base
    <3>2. ~Crash
      BY <1>6, <3>1 DEF Crash
    <3>3. crashes' = crashes
      BY <3>2 DEF Next, Fill, Withdraw, Step, Poll, Asked, Cancel, ReplaceExit, Replace, Similar, HandleEmpty,
              ExitSignal, ForcePart, NextExit, Exit, PlaceExit, Enter, ReplaceWith, PlaceStop, TrailStop, Record,
              Recover, Delete, Startup, vars
    <3> QED
      BY <1>6, <3>2, <3>3
  <2>2. Known(lost, doing) /\ doing.at # "startup" /\ GoesOn(exch, db, doing)
    BY <2>1 DEF TradeInv, Running
  <2>3. Known(m, h) /\ h.at # "startup"
    BY <1>3, <2>1, <2>2
  <2>4. LastsAt(exch, db, doing, f, u, h)
    BY <1>4, <2>2
  <2> QED
    BY <2>2, <2>3, <2>4 DEF LastsAt
<1> QED
  BY <1>1, <1>2, <1>5, <1>6 DEF TradeInv, Running

(* A trade that the bot closed or forgot leaves no coins and no order: of  *)
(* the orders that sell, one at most can still do so, and it is the one    *)
(* whose fill closes the trade; and what is dropped never bought.          *)
THEOREM NothingLeftBehind == Spec => []EndedIsFlat
<1>1. Init => TradeInv
  BY TradeInit
<1>2. TradeInv /\ [Next]_vars => TradeInv'
  BY TradeStep
<1>3. TradeInv => EndedIsFlat
  <2>1. SUFFICES ASSUME TradeInv, db.life \in {"closed", "dropped"}, lost = {}, doing = Idle
                 PROVE  Held = 0 /\ OpenAt(Sides) = {}
    BY DEF EndedIsFlat
  <2>2. Known(lost, doing) /\ exch \in Seq(OrderRow)
    BY <2>1, IdleFacts, BaseParts DEF TradeInv, Known
  <2>3. Flat(exch)
    BY <2>1, <2>2 DEF TradeInv, ExactAt, Exact
  <2>4. Held = 0
    BY <2>2, <2>3, HeldIs DEF Flat
  <2> QED
    BY <2>3, <2>4 DEF Flat, OpenAt, On
<1> QED
  BY <1>1, <1>2, <1>3, PTL DEF Spec

(* For as long as the bot does not die between placing an order and        *)
(* writing it, no two of its orders that sell stand at the exchange        *)
(* together: a second one is placed only for what is free, and the open    *)
(* orders claim no more than the trade holds, a stop all of it.            *)
THEOREM OneSellerOnly == Spec => [](EachKnown => OneSeller)
<1>1. Init => TradeInv
  BY TradeInit
<1>2. TradeInv /\ [Next]_vars => TradeInv'
  BY TradeStep
<1>3. TradeInv => (EachKnown => OneSeller)
  <2>1. SUFFICES ASSUME TradeInv, EachKnown PROVE Cardinality(OpenAt({"exit", "stop"}) \ lost) <= 1
    BY DEF OneSeller
  <2>2. OneLive(exch)
    BY <2>1 DEF TradeInv, ExactAt, Exact, EachKnown, Known
  <2> DEFINE S == OpenAt({"exit", "stop"}) \ lost
  <2>3. \A i, j \in S : i = j
    <3>1. \A i \in S : i \in SoldIn(exch) /\ exch[i].status = "open"
      BY DEF OpenAt, On, SoldIn, Sells
    <3> QED
      BY <2>2, <3>1 DEF OneLive
  <2> HIDE DEF S
  <2>4. S = {} \/ \E x : S = {x}
    BY <2>3
  <2>5. Cardinality(S) = 0 \/ Cardinality(S) = 1
    BY <2>4, FS_EmptySet, FS_Singleton
  <2> QED
    BY <2>5 DEF S
<1> QED
  BY <1>1, <1>2, <1>3, PTL DEF Spec

(* Until the bot restarts an open trade has coins, an order that the bot   *)
(* watches, or a step under way: none is left for good.                    *)
THEOREM NoTradeStranded == Spec => []NotStranded
<1>1. Init => TradeInv
  BY TradeInit
<1>2. TradeInv /\ [Next]_vars => TradeInv'
  BY TradeStep
<1>3. TradeInv => NotStranded
  <2>1. SUFFICES ASSUME TradeInv, db.life = "open", doing = Idle, crashes = 0
                 PROVE  db.amount > 0 \/ OpenOrders # {}
    BY DEF NotStranded
  <2>2. GoesOn(exch, db, doing) /\ doing.at = "idle"
    BY <2>1, IdleFacts DEF TradeInv, Running
  <2> QED
    BY <2>1, <2>2, OpenIs DEF GoesOn, Busy
<1> QED
  BY <1>1, <1>2, <1>3, PTL DEF Spec
-----------------------------------------------------------------------------
(* The trade does what TradeLife says.  What the orders bought and sold    *)
(* changes only where one of them is filled, or is placed and filled.      *)
WorksIn(e) == \E i \in DOMAIN e : e[i].status = "open"
Quiet(e, f) ==
  /\ DOMAIN f = DOMAIN e
  /\ \A i \in DOMAIN e :
       /\ f[i].side = e[i].side /\ f[i].amount = e[i].amount /\ f[i].filled = e[i].filled
       /\ f[i].status = "open" => e[i].status = "open"
Fills(e, f, x) ==
  /\ x \in DOMAIN e /\ e[x].status = "open" /\ DOMAIN f = DOMAIN e
  /\ f[x].side = e[x].side /\ f[x].amount = e[x].amount /\ f[x].filled > e[x].filled
  /\ \A j \in DOMAIN e \ {x} : f[j] = e[j]

LEMMA QuietSums ==
  ASSUME NEW e \in Seq(OrderRow), NEW f \in Seq(OrderRow), Quiet(e, f)
  PROVE  /\ BoughtIn(f) = BoughtIn(e) /\ SoldBy(f) = SoldBy(e) /\ HeldIn(f) = HeldIn(e)
         /\ SoldIn(f) = SoldIn(e) /\ (WorksIn(f) => WorksIn(e))
<1>1. ASSUME NEW sides PROVE SumOf(f, sides) = SumOf(e, sides)
  <2> DEFINE S == {i \in DOMAIN e : e[i].side \in sides}
             T == {i \in DOMAIN f : f[i].side \in sides}
             g == Filled(e)
             h == Filled(f)
  <2>1. T = S /\ \A i \in S : i \in DOMAIN e
    <3>1. DOMAIN f = DOMAIN e /\ \A i \in DOMAIN e : f[i].side = e[i].side
      BY DEF Quiet
    <3> QED
      BY <3>1
  <2>2. IsFiniteSet(S)
    BY SumOfFacts
  <2>3. \A i \in DOMAIN e : g[i] = e[i].filled
    BY SumOfFacts
  <2>4. \A i \in DOMAIN e : h[i] = f[i].filled /\ f[i].filled = e[i].filled
    BY SumOfFacts DEF Quiet
  <2> HIDE DEF S, T, g, h
  <2>5. SumFunctionOnSet(g, S) = SumFunctionOnSet(h, S)
    BY <2>1, <2>2, <2>3, <2>4, SumSame
  <2> QED
    BY <2>1, <2>5 DEF SumOf, S, T, g, h
<1>2. BoughtIn(f) = BoughtIn(e) /\ SoldBy(f) = SoldBy(e)
  BY <1>1 DEF BoughtIn, SoldBy
<1>3. HeldIn(f) = HeldIn(e)
  BY <1>2, HeldParts
<1> QED
  BY <1>2, <1>3 DEF Quiet, SoldIn, WorksIn

LEMMA FilledSum ==
  ASSUME NEW e \in Seq(OrderRow), NEW f \in Seq(OrderRow), NEW x, Fills(e, f, x), NEW sides
  PROVE  SumOf(f, sides) = SumOf(e, sides) + IF e[x].side \in sides THEN f[x].filled - e[x].filled ELSE 0
<1> DEFINE S == {i \in DOMAIN e : e[i].side \in sides}
           T == {i \in DOMAIN f : f[i].side \in sides}
           g == Filled(e)
           h == Filled(f)
<1>1. T = S /\ (\A i \in S : i \in DOMAIN e) /\ (x \in S <=> e[x].side \in sides)
  <2>1. \A i \in DOMAIN e : f[i].side = e[i].side
    BY DEF Fills
  <2> QED
    BY <2>1 DEF Fills
<1>2. IsFiniteSet(S)
  BY SumOfFacts
<1>3. \A i \in DOMAIN e : g[i] = e[i].filled /\ h[i] = f[i].filled /\ g[i] \in Nat /\ h[i] \in Nat
  BY SumOfFacts DEF Fills
<1>4. x \in DOMAIN e /\ \A i \in DOMAIN e \ {x} : h[i] = g[i]
  BY <1>3 DEF Fills
<1>5. SumOf(e, sides) = SumFunctionOnSet(g, S) /\ SumOf(f, sides) = SumFunctionOnSet(h, S)
  BY <1>1 DEF SumOf
<1>6. SumOf(e, sides) \in Nat
  BY SumOfFacts
<1> HIDE DEF S, T, g, h
<1>7. CASE x \in S
  <2>1. SumFunctionOnSet(h, S) = SumFunctionOnSet(g, S) - g[x] + h[x]
    <3>1. \A y \in S : g[y] \in Int /\ h[y] \in Int
      BY <1>1, <1>3
    <3>2. \A y \in S \ {x} : h[y] = g[y]
      BY <1>1, <1>4
    <3> QED
      BY <1>2, <1>7, <3>1, <3>2, SumChanged
  <2>2. /\ e[x].side \in sides /\ g[x] = e[x].filled /\ h[x] = f[x].filled
        /\ g[x] \in Nat /\ h[x] \in Nat
    BY <1>1, <1>3, <1>4, <1>7
  <2>3. SumOf(f, sides) = SumOf(e, sides) - g[x] + h[x]
    BY <1>5, <2>1
  <2>4. SumOf(f, sides) = SumOf(e, sides) + (h[x] - g[x])
    BY <1>6, <2>2, <2>3
  <2> QED
    BY <2>2, <2>4
<1>8. CASE x \notin S
  <2>1. SumFunctionOnSet(h, S) = SumFunctionOnSet(g, S)
    BY <1>1, <1>2, <1>4, <1>8, SumSame
  <2> QED
    BY <1>1, <1>5, <1>6, <1>8, <2>1
<1> QED
  BY <1>7, <1>8

LEMMA FilledSums ==
  ASSUME NEW e \in Seq(OrderRow), NEW f \in Seq(OrderRow), NEW x, Fills(e, f, x)
  PROVE  /\ SoldIn(f) = SoldIn(e) /\ f[x].filled - e[x].filled \in Nat \ {0}
         /\ e[x].side = "entry" =>
              /\ BoughtIn(f) = BoughtIn(e) + (f[x].filled - e[x].filled)
              /\ SoldBy(f) = SoldBy(e)
              /\ HeldIn(f) = HeldIn(e) + (f[x].filled - e[x].filled)
         /\ e[x].side # "entry" =>
              /\ x \in SoldIn(e)
              /\ SoldBy(f) = SoldBy(e) + (f[x].filled - e[x].filled)
              /\ BoughtIn(f) = BoughtIn(e)
              /\ HeldIn(f) = HeldIn(e) - (f[x].filled - e[x].filled)
<1> DEFINE n == f[x].filled - e[x].filled
<1>1. /\ x \in DOMAIN e /\ e[x].side \in {"entry", "exit", "stop"} /\ x \in DOMAIN f
      /\ e[x].filled \in Nat /\ f[x].filled \in Nat /\ f[x].filled > e[x].filled
  BY OrderFacts, SizeAssumption DEF Fills
<1>2. n \in Nat \ {0}
  BY <1>1
<1>3. BoughtIn(f) = BoughtIn(e) + IF e[x].side \in {"entry"} THEN n ELSE 0
  BY FilledSum DEF BoughtIn
<1>4. SoldBy(f) = SoldBy(e) + IF e[x].side \in {"exit", "stop"} THEN n ELSE 0
  BY FilledSum DEF SoldBy
<1>5. /\ HeldIn(e) = BoughtIn(e) - SoldBy(e) /\ HeldIn(f) = BoughtIn(f) - SoldBy(f)
      /\ BoughtIn(e) \in Nat /\ SoldBy(e) \in Nat
  BY HeldParts
<1>6. \A i \in DOMAIN e : f[i].side = e[i].side
  BY DEF Fills
<1>7. SoldIn(f) = SoldIn(e) /\ (e[x].side # "entry" => x \in SoldIn(e))
  BY <1>1, <1>6 DEF SoldIn, Sells, Fills
<1> HIDE DEF n
<1>8. CASE e[x].side = "entry"
  BY <1>2, <1>3, <1>4, <1>5, <1>7, <1>8 DEF n
<1>9. CASE e[x].side # "entry"
  <2>1. e[x].side \in {"exit", "stop"} /\ e[x].side \notin {"entry"}
    BY <1>1, <1>9
  <2> QED
    BY <1>2, <1>3, <1>4, <1>5, <1>7, <1>9, <2>1 DEF n
<1> QED
  BY <1>8, <1>9

(* What a new order brings to the sum.                                    *)
FillOf(o, sides) == IF o.side \in sides THEN o.filled ELSE 0

LEMMA AddedSum ==
  ASSUME NEW e \in Seq(OrderRow), NEW o \in OrderRow, NEW f, f = Append(e, o), NEW sides
  PROVE  SumOf(f, sides) = SumOf(e, sides) + FillOf(o, sides)
<1> DEFINE S == {i \in DOMAIN e : e[i].side \in sides}
           T == {i \in DOMAIN f : f[i].side \in sides}
           n == Len(e) + 1
           g == Filled(e)
           h == Filled(f)
<1>1. /\ f \in Seq(OrderRow) /\ DOMAIN f = DOMAIN e \cup {n} /\ n \notin DOMAIN e
      /\ f[n] = o /\ \A j \in DOMAIN e : f[j] = e[j]
  OBVIOUS
<1>2. IsFiniteSet(S) /\ SumOf(e, sides) \in Nat
  BY SumOfFacts
<1>3. /\ \A i \in DOMAIN e : g[i] = e[i].filled /\ g[i] \in Nat
      /\ \A i \in DOMAIN f : h[i] = f[i].filled /\ h[i] \in Nat
  BY <1>1, SumOfFacts
<1>4. T = IF o.side \in sides THEN S \cup {n} ELSE S
  BY <1>1
<1>5. n \notin S /\ (\A i \in S : h[i] = g[i] /\ h[i] \in Int) /\ h[n] = o.filled /\ h[n] \in Int
  BY <1>1, <1>3
<1>6. SumOf(e, sides) = SumFunctionOnSet(g, S) /\ SumOf(f, sides) = SumFunctionOnSet(h, T)
  BY DEF SumOf
<1> HIDE DEF S, T, g, h, n
<1>7. SumFunctionOnSet(h, S) = SumFunctionOnSet(g, S)
  BY <1>2, <1>5, SumSame
<1>8. SumFunctionOnSet(h, S \cup {n}) = SumFunctionOnSet(h, S) + h[n]
  BY <1>2, <1>5, SumWith
<1> QED
  BY <1>2, <1>4, <1>5, <1>6, <1>7, <1>8 DEF FillOf

(* What holds of the orders alone while none is lost, whatever became of   *)
(* the rows: one entry buys, and is over when something sells; what is     *)
(* open and sells is one order, for no more than what is held.             *)
FitIn(e) ==
  /\ HeldIn(e) >= 0
  /\ \A i, j \in DOMAIN e :
       e[i].side = "entry" /\ e[j].side = "entry" /\ i # j => EmptyAt(e, i) \/ EmptyAt(e, j)
  /\ \A i \in SoldIn(e) : e[i].status = "open" => e[i].amount - e[i].filled <= HeldIn(e)
  /\ OneLive(e)
  /\ SoldIn(e) # {} => \A i \in DOMAIN e : e[i].side = "entry" => e[i].status # "open"

LEMMA BoughtAtMostSize ==
  ASSUME NEW e \in Seq(OrderRow), FitIn(e) PROVE BoughtIn(e) <= Size
<1> DEFINE S == {i \in DOMAIN e : e[i].side \in {"entry"}}
           g == Filled(e)
<1>1. IsFiniteSet(S) /\ \A i \in S : i \in DOMAIN e /\ g[i] \in Int /\ g[i] = e[i].filled /\ e[i].filled <= Size
  <2>1. IsFiniteSet(S) /\ \A i \in DOMAIN e : g[i] = e[i].filled /\ g[i] \in Nat
    BY SumOfFacts
  <2>2. \A i \in DOMAIN e : e[i].filled \in 0 .. Size
    BY OrderFacts
  <2>3. \A i \in S : i \in DOMAIN e
    OBVIOUS
  <2> HIDE DEF S, g
  <2> QED
    BY <2>1, <2>2, <2>3, SizeAssumption
<1>2. \A i, j \in S : i # j => g[i] = 0 \/ g[j] = 0
  <2>1. \A i \in DOMAIN e : EmptyAt(e, i) => e[i].filled = 0
    BY DEF EmptyAt, ViewOf, NoFill
  <2> QED
    BY <1>1, <2>1 DEF FitIn
<1>3. BoughtIn(e) = SumFunctionOnSet(g, S)
  BY DEF BoughtIn, SumOf
<1> HIDE DEF S, g
<1>4. CASE \E x \in S : g[x] # 0
  <2>1. PICK x \in S : g[x] # 0
    BY <1>4
  <2>2. \A i \in S \ {x} : g[i] = 0
    BY <1>2, <2>1
  <2>3. {x} \in SUBSET S /\ IsFiniteSet({}) /\ IsFiniteSet({x})
    BY FS_EmptySet, FS_Singleton
  <2>4. SumFunctionOnSet(g, S) = SumFunctionOnSet(g, {x})
    BY <1>1, <2>2, <2>3, SumRestricted
  <2>5. SumFunctionOnSet(g, {x}) = SumFunctionOnSet(g, {x} \ {x}) + g[x]
    BY <1>1, <2>3, SumFacts
  <2>6. SumFunctionOnSet(g, {x} \ {x}) = 0
    BY <2>3, SumFacts
  <2> QED
    BY <1>1, <1>3, <2>4, <2>5, <2>6
<1>5. CASE \A x \in S : g[x] = 0
  <2>1. {} \in SUBSET S /\ \A x \in S \ {} : g[x] = 0
    BY <1>5
  <2>2. SumFunctionOnSet(g, S) = SumFunctionOnSet(g, {})
    BY <1>1, <2>1, SumRestricted
  <2>3. SumFunctionOnSet(g, {}) = 0
    BY FS_EmptySet, SumFacts
  <2> QED
    BY <1>3, <2>2, <2>3, SizeAssumption
<1> QED
  BY <1>4, <1>5

LEMMA NothingSold ==
  ASSUME NEW e \in Seq(OrderRow), SoldIn(e) = {} PROVE SoldBy(e) = 0 /\ HeldIn(e) >= 0
<1> DEFINE S == {i \in DOMAIN e : e[i].side \in {"exit", "stop"}}
           g == Filled(e)
<1>1. S = {}
  BY DEF SoldIn, Sells
<1>2. SumFunctionOnSet(g, {}) = 0
  BY FS_EmptySet, SumFacts
<1>3. SoldBy(e) = 0
  BY <1>1, <1>2 DEF SoldBy, SumOf
<1> QED
  BY <1>3, HeldParts

LEMMA FitQuiet ==
  ASSUME NEW e \in Seq(OrderRow), NEW f \in Seq(OrderRow), Quiet(e, f), FitIn(e) PROVE FitIn(f)
<1>1. HeldIn(f) = HeldIn(e) /\ SoldIn(f) = SoldIn(e) /\ DOMAIN f = DOMAIN e
  BY QuietSums DEF Quiet
<1>2. ASSUME NEW i \in DOMAIN e
      PROVE  /\ f[i].side = e[i].side /\ f[i].amount = e[i].amount /\ f[i].filled = e[i].filled
             /\ f[i].status = "open" => e[i].status = "open"
             /\ EmptyAt(e, i) => EmptyAt(f, i)
  <2>1. /\ f[i].side = e[i].side /\ f[i].amount = e[i].amount /\ f[i].filled = e[i].filled
        /\ f[i].status = "open" => e[i].status = "open"
    BY DEF Quiet
  <2>2. ASSUME EmptyAt(e, i) PROVE EmptyAt(f, i)
    <3>1. e[i].status = "canceled" /\ e[i].filled = 0
      BY <2>2 DEF EmptyAt, ViewOf, NoFill
    <3>2. f[i].amount \in 1 .. Size /\ f[i].status \in {"open", "closed", "canceled"}
          /\ (f[i].status = "closed" <=> f[i].filled = f[i].amount)
      BY <1>1, OrderFacts
    <3>3. f[i].status = "canceled" /\ f[i].filled = 0
      BY <2>1, <3>1, <3>2, SizeAssumption
    <3> QED
      BY <3>3 DEF EmptyAt, ViewOf, NoFill
  <2> QED
    BY <2>1, <2>2
<1>3. \A i \in SoldIn(e) : i \in DOMAIN e
  BY DEF SoldIn
<1>4. OneLive(f)
  BY <1>1, <1>2, <1>3 DEF FitIn, OneLive
<1> QED
  BY <1>1, <1>2, <1>3, <1>4 DEF FitIn

LEMMA FitFills ==
  ASSUME NEW e \in Seq(OrderRow), NEW f \in Seq(OrderRow), NEW x, Fills(e, f, x), FitIn(e)
  PROVE  FitIn(f)
<1> DEFINE n == f[x].filled - e[x].filled
<1>1. /\ SoldIn(f) = SoldIn(e) /\ n \in Nat \ {0} /\ x \in DOMAIN e /\ DOMAIN f = DOMAIN e
      /\ e[x].side \in {"entry", "exit", "stop"} /\ e[x].status = "open"
      /\ f[x].side = e[x].side /\ \A j \in DOMAIN e \ {x} : f[j] = e[j]
      /\ HeldIn(e) \in Int /\ HeldIn(f) \in Int
  <2>1. /\ x \in DOMAIN e /\ DOMAIN f = DOMAIN e /\ e[x].status = "open" /\ f[x].side = e[x].side
        /\ \A j \in DOMAIN e \ {x} : f[j] = e[j]
    BY DEF Fills
  <2>2. SoldIn(f) = SoldIn(e) /\ n \in Nat \ {0}
    BY FilledSums
  <2>3. e[x].side \in {"entry", "exit", "stop"}
    BY <2>1, OrderFacts
  <2>4. HeldIn(e) \in Int /\ HeldIn(f) \in Int
    BY HeldParts
  <2> HIDE DEF n
  <2> QED
    BY <2>1, <2>2, <2>3, <2>4
<1>2. \A j \in DOMAIN e \ {x} : EmptyAt(e, j) => EmptyAt(f, j)
  BY <1>1 DEF EmptyAt, ViewOf
<1>3. ~EmptyAt(e, x)
  BY <1>1 DEF EmptyAt, ViewOf, NoFill
<1>4. \A i, j \in DOMAIN e :
        f[i].side = "entry" /\ f[j].side = "entry" /\ i # j => EmptyAt(f, i) \/ EmptyAt(f, j)
  <2>1. \A i \in DOMAIN e : f[i].side = e[i].side
    BY <1>1
  <2> QED
    BY <1>2, <1>3, <2>1 DEF FitIn
<1>5. \A i \in DOMAIN e : f[i].status = "open" => e[i].status = "open" /\ f[i].side = e[i].side
  BY <1>1
<1>6. \A i \in SoldIn(e) : i \in DOMAIN e
  BY DEF SoldIn
<1>9. OneLive(f)
  BY <1>1, <1>5, <1>6 DEF FitIn, OneLive
<1>7. CASE e[x].side = "entry"
  <2>1. HeldIn(f) >= 0 /\ SoldIn(e) = {}
    BY <1>1, <1>7, FilledSums DEF FitIn
  <2> QED
    BY <1>1, <1>4, <1>9, <2>1 DEF FitIn
<1>8. CASE e[x].side # "entry"
  <2>1. x \in SoldIn(e) /\ HeldIn(f) = HeldIn(e) - n
    BY <1>8, FilledSums
  <2>2. e[x].amount - e[x].filled <= HeldIn(e) /\ \A i \in SoldIn(e) : e[i].status = "open" => i = x
    BY <1>1, <2>1 DEF FitIn, OneLive
  <2>3. f[x].amount = e[x].amount /\ e[x].amount \in Nat /\ e[x].filled \in Nat /\ f[x].filled \in Nat
        /\ f[x].filled <= f[x].amount
    BY <1>1, OrderFacts, SizeAssumption DEF Fills
  <2>4. f[x].amount - f[x].filled <= HeldIn(f) /\ HeldIn(f) >= 0
    BY <1>1, <2>1, <2>2, <2>3
  <2>5. \A i \in SoldIn(e) : f[i].status = "open" => i = x
    BY <1>5, <1>6, <2>2
  <2>6. SoldIn(e) # {} => \A i \in DOMAIN e : f[i].side = "entry" => f[i].status # "open"
    BY <1>1, <1>5 DEF FitIn
  <2> HIDE DEF n
  <2> QED
    BY <1>1, <1>4, <1>9, <2>4, <2>5, <2>6 DEF FitIn
<1> QED
  BY <1>7, <1>8

(* While the trade has rows, they and the orders agree.                    *)
LEMMA FitSure ==
  ASSUME NEW e, NEW d, NEW l, NEW g, SureAt(e, d, l, g), d.life \notin Gone
  PROVE  FitIn(e)
<1>1. /\ e \in Seq(OrderRow) /\ Good(e, d) /\ RowsIn(e, d, l) /\ DoingIn(e, d, l, g)
      /\ Exact(e, d) /\ l = (IF g.at = "sent" THEN {g.id} ELSE {})
      /\ DOMAIN e \subseteq DOMAIN d.book \cup l
  BY DEF SureAt, BaseAt, Known, RowsIn
<1>2. d.life \in {"none", "open", "closed"} /\ DOMAIN d.book \subseteq DOMAIN e /\ DOMAIN e = 1 .. Len(e)
      /\ Len(e) \in Nat
  BY <1>1, DbFacts DEF Good, Lives, Gone
<1>3. \A i, j \in DOMAIN e :
        e[i].side = "entry" /\ e[j].side = "entry" /\ i # j => EmptyAt(e, i) \/ EmptyAt(e, j)
  <2>1. SUFFICES ASSUME NEW i \in DOMAIN e, NEW j \in DOMAIN e, i # j, e[i].side = "entry", e[j].side = "entry"
                 PROVE  EmptyAt(e, i) \/ EmptyAt(e, j)
    OBVIOUS
  <2>2. l = {} \/ (l = {g.id} /\ g.id = Len(e))
    BY <1>1 DEF DoingIn, SentIn
  <2>3. i \in DOMAIN d.book \/ j \in DOMAIN d.book
    BY <1>1, <2>1, <2>2
  <2>4. i \in DOMAIN d.book \/ (i = Len(e) /\ j \in DOMAIN d.book)
    BY <1>1, <2>2, <2>3
  <2>5. j \in DOMAIN d.book \/ (j = Len(e) /\ i \in DOMAIN d.book)
    BY <1>1, <2>2, <2>3
  <2>6. i \in WindowOf(e, DOMAIN d.book)
    BY <1>2, <2>4 DEF WindowOf
  <2>7. j \in WindowOf(e, DOMAIN d.book)
    BY <1>2, <2>5 DEF WindowOf
  <2> QED
    BY <1>1, <2>1, <2>6, <2>7 DEF Good, OneIn
<1>4. OneLive(e)
  BY <1>1 DEF Exact
<1>5. \A i \in DOMAIN e : e[i].status = "open" => i \in OpenIn(e, d)
  BY <1>1, FlowFacts
<1>6. \A i \in SoldIn(e) : i \in DOMAIN e
  BY DEF SoldIn
<1>7. CASE SoldIn(e) = {}
  <2>1. HeldIn(e) >= 0
    BY <1>1, <1>7, NothingSold
  <2> QED
    BY <1>3, <1>4, <1>7, <2>1 DEF FitIn
<1>8. CASE SoldIn(e) # {} /\ d.life = "closed"
  <2>1. HeldIn(e) = 0 /\ \A i \in DOMAIN e : e[i].status # "open"
    BY <1>1, <1>8 DEF Exact, Flat
  <2> QED
    BY <1>3, <1>4, <1>6, <2>1 DEF FitIn
<1>9. CASE SoldIn(e) # {} /\ d.life = "open"
  <2>1. ExactOpen(e, d) /\ (\A i \in OpenIn(e, d) : e[i].side # "entry") /\ d.amount \in Nat
    BY <1>1, <1>9, DbFacts DEF Exact, ExactEntered, Good
  <2>2. \A i \in DOMAIN e : e[i].side = "entry" => e[i].status # "open"
    BY <1>5, <2>1
  <2>3. HeldIn(e) >= 0 /\ \A i \in SoldIn(e) : e[i].status = "open" => e[i].amount - e[i].filled <= HeldIn(e)
    BY <1>1, <2>1, RestIsHeld DEF ExactOpen
  <2> QED
    BY <1>3, <1>4, <2>2, <2>3 DEF FitIn
<1>10. d.life = "none" => SoldIn(e) = {}
  BY <1>1 DEF Exact
<1> QED
  BY <1>2, <1>7, <1>8, <1>9, <1>10

(* How a step changes the orders.                                          *)
LEMMA CanceledQuiet ==
  ASSUME NEW e \in Seq(OrderRow), NEW S, NEW f,
         f = [i \in DOMAIN e |-> IF i \in S THEN [e[i] EXCEPT !.status = "canceled"] ELSE e[i]]
  PROVE  Quiet(e, f)
<1>1. DOMAIN f = DOMAIN e
  OBVIOUS
<1>2. ASSUME NEW i \in DOMAIN e
      PROVE  /\ f[i].side = e[i].side /\ f[i].amount = e[i].amount /\ f[i].filled = e[i].filled
             /\ f[i].status = "open" => e[i].status = "open"
  <2>1. CASE i \in S
    <3>1. e[i] \in OrderRow /\ f[i] = [e[i] EXCEPT !.status = "canceled"]
      BY <2>1, OrderFacts
    <3>2. e[i] = [side |-> e[i].side, amount |-> e[i].amount, status |-> e[i].status, filled |-> e[i].filled]
      BY <3>1 DEF OrderRow
    <3>3. f[i] = [side |-> e[i].side, amount |-> e[i].amount, status |-> "canceled", filled |-> e[i].filled]
      BY <3>1, <3>2
    <3> QED
      BY <3>3
  <2>2. CASE i \notin S
    BY <2>2
  <2> QED
    BY <2>1, <2>2
<1> QED
  BY <1>1, <1>2 DEF Quiet

LEMMA HowOrders ==
  ASSUME Sure, [Next]_vars
  PROVE  \/ Quiet(exch, exch')
         \/ db' = db /\ \E x : Fills(exch, exch', x)
         \/ db' = db /\ doing'.at = "sent" /\ doing'.id = Len(exch) + 1 /\ \E o : exch' = Append(exch, o)
<1> DEFINE Added == /\ db' = db /\ doing'.at = "sent" /\ doing'.id = Len(exch) + 1
                    /\ \E o : exch' = Append(exch, o)
           Goal == \/ Quiet(exch, exch')
                   \/ db' = db /\ \E x : Fills(exch, exch', x)
                   \/ Added
<1> SUFFICES Goal
  OBVIOUS
<1>1. exch \in Seq(OrderRow) /\ DOMAIN db.book \subseteq DOMAIN exch
  BY SureFacts
<1>2. exch' = exch => Quiet(exch, exch')
  BY DEF Quiet
<1>3. ASSUME NEW S, exch' = [j \in DOMAIN exch |->
                IF j \in S THEN [exch[j] EXCEPT !.status = "canceled"] ELSE exch[j]]
      PROVE  Quiet(exch, exch')
  BY <1>1, <1>3, CanceledQuiet
<1>4. ASSUME NEW side, NEW a, NEW market, Create(side, a, market), db' = db PROVE Added
  BY <1>4 DEF Create
<1>5. ASSUME NEW S, StopsCanceled(S) PROVE Quiet(exch, exch')
  BY <1>3, <1>5 DEF StopsCanceled
<1>6. ASSUME NEW i, NEW done, CancelAt(i, done) PROVE Quiet(exch, exch')
  <2>1. CASE exch[i].status = "open" /\ done
    <3>1. exch' = [j \in DOMAIN exch |->
            IF j \in {i} THEN [exch[j] EXCEPT !.status = "canceled"] ELSE exch[j]]
      BY <1>6, <2>1 DEF CancelAt
    <3> QED
      BY <1>3, <3>1
  <2>2. CASE ~(exch[i].status = "open" /\ done)
    BY <1>2, <1>6, <2>2 DEF CancelAt
  <2> QED
    BY <2>1, <2>2
<1>7. ASSUME NEW i \in DOMAIN exch, Fill(i) PROVE db' = db /\ Fills(exch, exch', i)
  <2>1. /\ Moves(exch, exch') /\ exch'[i].side = exch[i].side /\ exch'[i].filled > exch[i].filled
        /\ \A j \in DOMAIN exch \ {i} : exch'[j] = exch[j]
    BY <1>1, <1>7, FillMoves
  <2> QED
    BY <1>7, <2>1 DEF Fill, Fills, Moves
<1>8. ASSUME NEW i \in DOMAIN exch, Withdraw(i) PROVE Quiet(exch, exch')
  <2>1. exch' = [j \in DOMAIN exch |->
          IF j \in {i} THEN [exch[j] EXCEPT !.status = "canceled"] ELSE exch[j]]
    BY <1>8 DEF Withdraw
  <2> QED
    BY <1>3, <2>1
<1>9. ASSUME NEW i, Step(i) PROVE Quiet(exch, exch')
  BY <1>2, <1>6, <1>9 DEF Step, Poll, Asked, Cancel, ReplaceExit, ExitCanceled, Replace, Similar
<1>10. ASSUME NEW S, ExitSignal(S) \/ ForcePart(S) \/ NextExit(S) \/ TrailStop(S) PROVE Quiet(exch, exch')
  BY <1>5, <1>10 DEF ExitSignal, ForcePart, NextExit, Exit, TrailStop
<1> HIDE DEF Added
<1>11. CASE PlaceExit
  BY <1>2, <1>4, <1>11 DEF PlaceExit, Refused
<1>12. CASE Enter
  BY <1>4, <1>12 DEF Enter
<1>13. CASE ReplaceWith
  BY <1>2, <1>4, <1>13 DEF ReplaceWith
<1>14. CASE PlaceStop
  BY <1>2, <1>4, <1>14 DEF PlaceStop, Refused
<1>16. CASE Recover
  BY <1>16, RecoverLasts
<1>17. CASE Delete
  <2>1. PICK S : exch' = [j \in DOMAIN exch |->
          IF j \in S /\ exch[j].status = "open" THEN [exch[j] EXCEPT !.status = "canceled"] ELSE exch[j]]
    BY <1>17 DEF Delete
  <2> DEFINE C == {j \in S : exch[j].status = "open"}
  <2>2. exch' = [j \in DOMAIN exch |->
          IF j \in C THEN [exch[j] EXCEPT !.status = "canceled"] ELSE exch[j]]
    BY <2>1
  <2> QED
    BY <1>3, <2>2
<1>18. CASE HandleEmpty \/ Record \/ Crash \/ Startup \/ UNCHANGED vars
  BY <1>2, <1>18 DEF HandleEmpty, Record, Crash, Startup, vars
<1>19. ASSUME NEW i \in DOMAIN exch, Fill(i) \/ Withdraw(i) \/ Step(i) PROVE Goal
  BY <1>7, <1>8, <1>9, <1>19
<1> HIDE DEF Goal
<1>20. Goal <=> \/ Quiet(exch, exch')
                \/ db' = db /\ \E x : Fills(exch, exch', x)
                \/ Added
  BY DEF Goal
<1> QED
  BY <1>10, <1>11, <1>12, <1>13, <1>14, <1>16, <1>17, <1>18, <1>19, <1>20 DEF Next

(* How a step changes the life of the trade's row.                         *)
LEMMA LifeWritten ==
  ASSUME NEW d, d = [life |-> d.life, amount |-> d.amount, book |-> d.book], NEW i, NEW v, NEW again
  PROVE  LET u == Updated(d, i, v, again)
         IN  u.life = d.life \/ (u.life = "closed" /\ exch[i].side # "entry")
<1> DEFINE b == [j \in DOMAIN d.book \cup {i} |-> IF j = i THEN v ELSE d.book[j]]
           k == [d EXCEPT !.book = b]
           u == Updated(d, i, v, again)
<1>1. \/ u = k
      \/ \E a : u = [k EXCEPT !.amount = a]
      \/ exch[i].side # "entry" /\ u = [k EXCEPT !.life = "closed"]
  BY DEF Updated
<1> HIDE DEF u, b
<1>2. k = [life |-> d.life, amount |-> d.amount, book |-> b]
  OBVIOUS
<1> HIDE DEF k
<1>3. u.life = d.life \/ (u.life = "closed" /\ exch[i].side # "entry")
  BY <1>1, <1>2
<1> QED
  BY <1>3 DEF u

LEMMA LifeAllWritten ==
  ASSUME exch \in Seq(OrderRow), NEW d \in DbRow(exch), NEW said, NEW S, S = DOMAIN said, NEW again \in BOOLEAN,
         \A i \in S : said[i] \in Views
  PROVE  LET u == AllUpdated(d, said, again)
         IN  u.life = d.life \/ (u.life = "closed" /\ \E i \in S : i \in SoldIn(exch))
<1> DEFINE L == Len(exch)
           Sell == \E i \in S : i \in SoldIn(exch)
           In(x) == x.life = d.life \/ (x.life = "closed" /\ Sell)
           D == [n \in 0 .. L |-> {x \in DbRow(exch) : In(x)}]
<1>1. L \in Nat /\ DOMAIN exch = 1 .. L /\ SameSides(exch, exch)
  BY DEF SameSides
<1>2. d \in D[0]
  BY <1>1
<1>3. ASSUME NEW n \in 1 .. L, NEW x \in D[n - 1]
      PROVE  (IF n \in DOMAIN said THEN Updated(x, n, said[n], again) ELSE x) \in D[n]
  <2>1. n \in 0 .. L /\ n - 1 \in 0 .. L /\ n \in DOMAIN exch
    BY <1>1
  <2>2. x \in DbRow(exch) /\ In(x)
    BY <2>1
  <2>3. D[n] = {y \in DbRow(exch) : In(y)}
    BY <2>1
  <2> DEFINE u == Updated(x, n, said[n], again)
  <2>4. exch[n].side \in {"entry", "exit", "stop"}
    BY <2>1, OrderFacts
  <2>5. n \in S => u \in DbRow(exch)
    BY <1>1, <2>1, <2>2, UpdatedFacts
  <2>6. x = [life |-> x.life, amount |-> x.amount, book |-> x.book]
    BY <2>2 DEF DbRow
  <2>7. u.life = x.life \/ (u.life = "closed" /\ exch[n].side # "entry")
    BY <2>6, LifeWritten
  <2> HIDE DEF u, D
  <2>8. n \in S => In(u)
    <3>1. exch[n].side # "entry" => n \in SoldIn(exch)
      BY <2>1, <2>4 DEF SoldIn, Sells
    <3> QED
      BY <2>2, <2>7, <3>1
  <2> HIDE DEF In
  <2>9. CASE n \in S
    BY <2>3, <2>5, <2>8, <2>9 DEF u
  <2>10. CASE n \notin S
    BY <2>2, <2>3, <2>10
  <2> QED
    BY <2>9, <2>10
<1> HIDE DEF D
<1>4. AllUpdated(d, said, again) \in D[L]
  BY <1>1, <1>2, <1>3, AllUpdatedIn
<1>5. L \in 0 .. L
  BY <1>1
<1> HIDE DEF L
<1> QED
  BY <1>4, <1>5 DEF D

LifeGoes(e, d, f, u) ==
  \/ u.life = d.life
  \/ d.life = "none" /\ u.life = "open" /\ f = e
  \/ d.life = "open" /\ u.life = "closed" /\ SoldIn(e) # {}
  \/ d.life = "open" /\ u.life = "dropped" /\ EnteredIn(e, d) = {}
  \/ d.life = "open" /\ u.life \in {"unreplaced", "deleted"}

LEMMA HowLife ==
  ASSUME Sure, [Next]_vars PROVE LifeGoes(exch, db, exch', db')
<1> DEFINE Goal == LifeGoes(exch, db, exch', db')
<1> SUFFICES Goal
  OBVIOUS
<1>1. /\ exch \in Seq(OrderRow) /\ db \in DbRow(exch) /\ DOMAIN db.book \subseteq DOMAIN exch
      /\ db = [life |-> db.life, amount |-> db.amount, book |-> db.book]
      /\ RowsIn(exch, db, lost) /\ DoingIn(exch, db, lost, doing) /\ db.life \in Lives
      /\ Exact(exch, db)
  BY SureFacts DEF DbRow
<1>2. DOMAIN db.book # {} => db.life \in {"open", "closed"}
  BY <1>1 DEF RowsIn
<1>3. \A i \in DOMAIN exch : exch[i].side # "entry" => i \in SoldIn(exch)
  BY <1>1, OrderFacts DEF SoldIn, Sells
<1>4. ASSUME db'.life = db.life PROVE Goal
  BY <1>4 DEF LifeGoes
<1>5. ASSUME NEW i \in DOMAIN db.book, NEW v, NEW again, db' = Updated(db, i, v, again) PROVE Goal
  <2>1. db'.life = db.life \/ (db'.life = "closed" /\ exch[i].side # "entry")
    BY <1>1, <1>5, LifeWritten
  <2>2. db.life \in {"open", "closed"} /\ i \in DOMAIN exch
    BY <1>1, <1>2
  <2> QED
    BY <1>3, <2>1, <2>2 DEF LifeGoes
<1>6. ASSUME NEW said, NEW S \in SUBSET DOMAIN db.book, S = DOMAIN said, \A i \in S : said[i] \in Views,
             db' = AllUpdated(db, said, FALSE)
      PROVE  Goal
  <2>1. db'.life = db.life \/ (db'.life = "closed" /\ \E i \in S : i \in SoldIn(exch))
    <3> DEFINE again == FALSE
    <3>1. again \in BOOLEAN /\ db' = AllUpdated(db, said, again)
      BY <1>6
    <3> HIDE DEF again
    <3> QED
      BY <1>1, <1>6, <3>1, LifeAllWritten
  <2>2. (\E i \in S : i \in SoldIn(exch)) => db.life \in {"open", "closed"} /\ SoldIn(exch) # {}
    BY <1>2
  <2> QED
    BY <2>1, <2>2 DEF LifeGoes
<1>7. Dropped.life = "dropped" /\ Unreplaced.life = "unreplaced"
  BY <1>1, GoneRecords
<1>8. /\ \A i : DropsTrade(i) => EnteredIn(exch, db) = {}
      /\ \A i \in OpenOrders \cup OpenStops : i \in DOMAIN db.book
  BY OpenIs DEF DropsTrade, OpenOrders, OpenStops, OpenRows, Recorded
<1>9. ASSUME NEW i \in OpenOrders, NEW v, NEW replacing, db.life = "open" \/ replacing,
             db' = EntryCanceled(i, v, replacing)
      PROVE  Goal
  <2>1. \/ db' = db
        \/ db' = Dropped /\ DropsTrade(i) /\ ~replacing
        \/ db' = Updated(db, i, v, FALSE)
    BY <1>9 DEF EntryCanceled
  <2>2. ASSUME db' = Dropped, DropsTrade(i), ~replacing PROVE Goal
    BY <1>7, <1>8, <1>9, <2>2 DEF LifeGoes
  <2> HIDE DEF Goal
  <2> QED
    BY <1>4, <1>5, <1>8, <2>1, <2>2
<1>10. Goal <=>
        \/ db'.life = db.life
        \/ db.life = "none" /\ db'.life = "open" /\ exch' = exch
        \/ db.life = "open" /\ db'.life = "closed" /\ SoldIn(exch) # {}
        \/ db.life = "open" /\ db'.life = "dropped" /\ EnteredIn(exch, db) = {}
        \/ db.life = "open" /\ db'.life \in {"unreplaced", "deleted"}
  BY DEF LifeGoes
<1> HIDE DEF Goal
<1>11. CASE \E i : Fill(i) \/ Withdraw(i)
  BY <1>4, <1>11 DEF Fill, Withdraw
<1>12. ASSUME NEW i, Poll(i) PROVE Goal
  BY <1>5, <1>8, <1>12 DEF Poll, Asked
<1>13. ASSUME NEW i, NEW done, Cancel(i, done) \/ ReplaceExit(i, done) PROVE Goal
  <2>1. i \in OpenOrders /\ db.life = "open"
    BY <1>13 DEF Cancel, ReplaceExit, OpenOrders, OpenRows
  <2>2. \/ \E v : db' = EntryCanceled(i, v, FALSE)
        \/ \E v : db' = Updated(db, i, v, FALSE)
    BY <1>13 DEF Cancel, ReplaceExit, ExitCanceled
  <2> QED
    BY <1>5, <1>8, <1>9, <2>1, <2>2
<1>14. ASSUME NEW i, NEW done, Similar(i, done) PROVE Goal
  BY <1>4, <1>5, <1>8, <1>9, <1>14 DEF Similar
<1>15. ASSUME NEW i, NEW done, Replace(i, done) PROVE Goal
  <2>1. db.life = "open" /\ i \in OpenOrders
    BY <1>15 DEF Replace, OpenOrders, OpenRows
  <2>2. db' = Unreplaced \/ \E v : db' = EntryCanceled(i, v, TRUE)
    BY <1>15 DEF Replace
  <2>3. ASSUME db' = Unreplaced PROVE Goal
    BY <1>7, <2>1, <2>3, <1>10
  <2> QED
    BY <1>9, <2>1, <2>2, <2>3
<1>16. CASE HandleEmpty
  <2>1. db.life = "open"
    <3>1. doing.at = "empty"
      BY <1>16 DEF HandleEmpty
    <3> QED
      BY <1>1, <3>1 DEF DoingIn, Lives, Gone
  <2>2. ASSUME db' = Dropped, DropsTrade(doing.id) PROVE Goal
    BY <1>7, <1>8, <2>1, <2>2, <1>10
  <2> QED
    BY <1>4, <1>16, <2>2 DEF HandleEmpty
<1>27. \A S : DOMAIN Seen(S) = S /\ \A i \in S : i \in DOMAIN exch => Seen(S)[i] \in Views
  BY <1>1, OrderFacts DEF Seen, View, ViewOf
<1>17. ASSUME NEW S \in SUBSET LiveStops, StopsCanceled(S) PROVE Goal
  <2> DEFINE said == StopAnswers(S)
             T == LiveStops
  <2>1. /\ exch' \in Seq(OrderRow) /\ Moves(exch, exch') /\ DOMAIN said = T
        /\ \A i \in T : said[i] = ViewOf(exch', i)
    <3>1. BaseAt(exch, db, lost, doing)
      BY SureFacts
    <3> QED
      BY <1>17, <3>1, StopsAt
  <2>2. T \in SUBSET DOMAIN db.book
    BY <1>8 DEF LiveStops
  <2>3. \A i \in T : said[i] \in Views
    BY <1>1, <2>1, <2>2, OrderFacts DEF Moves
  <2>4. db' = AllUpdated(db, said, FALSE)
    BY <1>17 DEF StopsCanceled
  <2> HIDE DEF said, T
  <2> QED
    BY <1>6, <2>1, <2>2, <2>3, <2>4
<1>18. ASSUME NEW S \in SUBSET LiveStops, ExitSignal(S) \/ ForcePart(S) \/ NextExit(S) \/ TrailStop(S) PROVE Goal
  BY <1>17, <1>18 DEF ExitSignal, ForcePart, NextExit, Exit, TrailStop
<1>28. ASSUME NEW S \in SUBSET (OpenOrders \cup OpenStops), db' = AllUpdated(db, Seen(S), FALSE) PROVE Goal
  <2>1. S \in SUBSET DOMAIN db.book
    BY <1>8, <1>28
  <2>2. DOMAIN Seen(S) = S /\ \A i \in S : Seen(S)[i] \in Views
    BY <1>1, <1>27, <2>1
  <2> QED
    BY <1>6, <1>28, <2>1, <2>2
<1>29. Refused => Goal
  BY <1>28 DEF Refused
<1>19. CASE PlaceExit
  BY <1>4, <1>19, <1>29 DEF PlaceExit
<1>20. CASE Enter \/ PlaceStop \/ Crash \/ UNCHANGED vars
  BY <1>4, <1>20, <1>29 DEF Enter, PlaceStop, Crash, vars
<1>21. CASE ReplaceWith
  <2>1. db.life = "open"
    <3>1. doing.at = "again"
      BY <1>21 DEF ReplaceWith
    <3> QED
      BY <1>1, <3>1 DEF DoingIn, Lives, Gone
  <2>2. ASSUME db' = Unreplaced PROVE Goal
    BY <1>7, <2>1, <2>2, <1>10
  <2> QED
    BY <1>4, <1>21, <2>2 DEF ReplaceWith
<1>22. CASE Record
  <2> DEFINE x == IF db.life = "none" THEN "open" ELSE db.life
             c == [db EXCEPT !.life = x]
             i == doing.id
             v == doing.answer
  <2>1. db' = Updated(c, i, v, FALSE) /\ exch' = exch /\ doing.at = "sent"
    BY <1>22 DEF Record
  <2>2. SentIn(exch, db, lost, doing) /\ i \in DOMAIN exch /\ db.life \in {"none", "open", "closed"}
    BY <1>1, <2>1 DEF DoingIn, SentIn, RowsIn, Lives, Gone
  <2>3. db.life = "none" => SoldIn(exch) = {}
    BY <1>1 DEF Exact
  <2> HIDE DEF x, i, v
  <2>4. c = [life |-> x, amount |-> db.amount, book |-> db.book]
    BY <1>1
  <2> HIDE DEF c
  <2>5. c = [life |-> c.life, amount |-> c.amount, book |-> c.book] /\ c.life = x
    BY <2>4
  <2> DEFINE again == FALSE
             u == Updated(c, i, v, again)
  <2> HIDE DEF again
  <2>6. u.life = c.life \/ (u.life = "closed" /\ exch[i].side # "entry")
    BY <2>5, LifeWritten
  <2>7. db' = u
    BY <2>1 DEF again
  <2> HIDE DEF u
  <2> QED
    BY <1>3, <1>10, <2>1, <2>2, <2>3, <2>5, <2>6, <2>7 DEF x
<1>23. CASE Recover
  BY <1>23, RecoverLasts
<1>24. CASE Delete
  <2>1. db.life = "open" /\ db' = [db EXCEPT !.life = "deleted", !.book = <<>>]
    BY <1>24 DEF Delete
  <2>2. db'.life = "deleted"
    BY <1>1, <2>1, GoneRecord
  <2> QED
    BY <2>1, <2>2, <1>10
<1>25. CASE Startup
  <2>1. PICK S \in SUBSET (OpenOrders \cup OpenStops) : db' = AllUpdated(db, Seen(S), FALSE)
    BY <1>25 DEF Startup
  <2> QED
    BY <1>28, <2>1
<1>26. ASSUME NEW i \in DOMAIN exch, Fill(i) \/ Withdraw(i) \/ Step(i) PROVE Goal
  BY <1>11, <1>12, <1>13, <1>14, <1>15, <1>26 DEF Step
<1> QED
  BY <1>16, <1>18, <1>19, <1>20, <1>21, <1>22, <1>23, <1>24, <1>25, <1>26 DEF Next

(* The invariant of the refinement.                                        *)
LifeInv == TradeInv /\ (Known(lost, doing) => FitIn(exch))

LEMMA KnownLasts ==
  ASSUME [Next]_vars, Known(lost, doing), ~Crash PROVE Known(lost', doing')
<1>1. (lost' = lost /\ doing' = doing) \/ Steady \/ Creates \/ Records
  BY HowLost
<1>2. PICK h, m : h = doing' /\ m = lost'
  OBVIOUS
<1>3. lost = IF doing.at = "sent" THEN {doing.id} ELSE {}
  BY DEF Known
<1>4. (m = lost /\ h = doing) \/ m = IF h.at = "sent" THEN {h.id} ELSE {}
  BY <1>1, <1>2, <1>3 DEF Steady, Creates, Records
<1>5. Known(m, h)
  BY <1>3, <1>4 DEF Known
<1> QED
  BY <1>2, <1>5

LEMMA LifeInit ==
  ASSUME Init PROVE LifeInv
<1>1. TradeInv /\ exch = <<>> /\ exch \in Seq(OrderRow)
  BY TradeInit, BaseParts DEF Init, TradeInv
<1>2. SoldIn(exch) = {} /\ DOMAIN exch = {}
  BY <1>1 DEF SoldIn
<1>3. HeldIn(exch) >= 0
  BY <1>1, <1>2, NothingSold
<1> QED
  BY <1>1, <1>2, <1>3 DEF LifeInv, FitIn, OneLive

LEMMA KnownIsSure ==
  ASSUME TradeInv, Known(lost, doing) PROVE Sure
BY DEF TradeInv, Base, ExactAt, Sure, SureAt

(* An order that is placed is the trade's, which goes on.                  *)
LEMMA SentLife ==
  ASSUME NEW e, NEW d, NEW l, NEW g, SureAt(e, d, l, g), g.at = "sent"
  PROVE  /\ d.life \in {"none", "open"} /\ (d.life = "none" => SoldIn(e) = {})
         /\ e[g.id].side = "entry" => SoldIn(e) = {}
<1>1. /\ DoingIn(e, d, l, g) /\ Exact(e, d) /\ ExactDoing(e, d, g) /\ RowsIn(e, d, l) /\ d.life \in Lives
  BY DbFacts DEF SureAt, BaseAt, Good
<1>2. SentIn(e, d, l, g) /\ d.life \in {"none", "open"} /\ g.id \in DOMAIN e
  BY <1>1 DEF DoingIn, SentIn, ExactDoing, RowsIn, Lives, Gone
<1>3. g.id \in OpenIn(e, d)
  BY <1>2 DEF SentIn, OpenIn
<1> QED
  BY <1>1, <1>2, <1>3 DEF Exact, ExactEntered

LEMMA LifeStep ==
  ASSUME LifeInv, [Next]_vars PROVE LifeInv'
<1>1. TradeInv'
  BY TradeStep DEF LifeInv
<1>2. PICK f, u, m, h : f = exch' /\ u = db' /\ m = lost' /\ h = doing'
  OBVIOUS
<1>3. ASSUME Known(m, h) PROVE FitIn(f)
  <2>1. Known(lost, doing)
    BY <1>2, <1>3, KnownSteps DEF LifeInv, TradeInv
  <2>2. Sure /\ FitIn(exch)
    BY <2>1, KnownIsSure DEF LifeInv
  <2>3. SureAt(f, u, m, h)
    BY <1>1, <1>2, <1>3 DEF TradeInv, Base, ExactAt, SureAt
  <2>4. exch \in Seq(OrderRow) /\ f \in Seq(OrderRow)
    BY <2>2, <2>3, SureFacts DEF SureAt, BaseAt
  <2>5. CASE Quiet(exch, f)
    BY <2>2, <2>4, <2>5, FitQuiet
  <2>6. CASE \E x : Fills(exch, f, x)
    BY <2>2, <2>4, <2>6, FitFills
  <2>7. CASE h.at = "sent"
    <3>1. u.life \notin Gone
      BY <2>3, <2>7, SentLife DEF Gone
    <3> QED
      BY <2>3, <3>1, FitSure
  <2> QED
    BY <1>2, <2>2, <2>5, <2>6, <2>7, HowOrders
<1> QED
  BY <1>1, <1>2, <1>3 DEF LifeInv

LEMMA ShownIs ==
  ASSUME exch \in Seq(OrderRow) PROVE (OpenAt(Sides) # {}) <=> WorksIn(exch)
<1>1. \A i \in DOMAIN exch : exch[i].side \in Sides
  BY OrderFacts DEF Sides
<1>2. \A i : i \in OpenAt(Sides) <=> i \in DOMAIN exch /\ exch[i].status = "open"
  BY <1>1 DEF OpenAt, On
<1> QED
  BY <1>2 DEF WorksIn

(* A step of the abstract trade, of values of its variables: b units       *)
(* bought, s sold, w whether an order works, x the life of the row.        *)
Goes(x, b, s, w, y, c, t, v) ==
  \/ x = y /\ b = c /\ s = t /\ w = v
  \/ x \notin {"closed", "dropped"} /\ s = 0 /\ c \in b + 1 .. Size /\ y = x /\ t = s
  \/ x \notin {"closed", "dropped", "none"} /\ t \in s + 1 .. b /\ y = x /\ c = b
  \/ x \notin {"closed", "dropped"} /\ v = ~w /\ y = x /\ c = b /\ t = s
  \/ x = "none" /\ y = "open" /\ c = b /\ t = s /\ v = w
  \/ x = "open" /\ y = "closed" /\ b > 0 /\ s = b /\ ~w /\ c = b /\ t = s /\ v = w
  \/ x = "open" /\ y = "dropped" /\ b = 0 /\ ~v /\ c = b /\ t = s
  \/ x = "open" /\ y \in {"unreplaced", "deleted"} /\ (v => w) /\ c = b /\ t = s

LEMMA QuietGoes ==
  ASSUME NEW e, NEW d, NEW l, NEW g, SureAt(e, d, l, g), FitIn(e),
         NEW f, NEW u, NEW m, NEW h, SureAt(f, u, m, h), Quiet(e, f), LifeGoes(e, d, f, u)
  PROVE  Goes(d.life, BoughtIn(e), SoldBy(e), WorksIn(e), u.life, BoughtIn(f), SoldBy(f), WorksIn(f))
<1>1. /\ e \in Seq(OrderRow) /\ f \in Seq(OrderRow) /\ Exact(e, d) /\ Exact(f, u) /\ Good(e, d)
      /\ RowsIn(e, d, l)
  BY DEF SureAt, BaseAt
<1>2. /\ BoughtIn(f) = BoughtIn(e) /\ SoldBy(f) = SoldBy(e) /\ HeldIn(f) = HeldIn(e)
      /\ WorksIn(f) => WorksIn(e)
  BY <1>1, QuietSums
<1>3. /\ HeldIn(e) = BoughtIn(e) - SoldBy(e) /\ BoughtIn(e) \in Nat /\ SoldBy(e) \in Nat
  BY <1>1, HeldParts
<1>4. WorksIn(e) \in BOOLEAN /\ WorksIn(f) \in BOOLEAN
  BY DEF WorksIn
<1>5. u.life \in {"closed", "dropped"} => HeldIn(e) = 0 /\ ~WorksIn(f)
  BY <1>1, <1>2 DEF Exact, Flat, WorksIn
<1>6. CASE u.life = d.life
  <2>1. d.life \in {"closed", "dropped"} => ~WorksIn(e)
    BY <1>1 DEF Exact, Flat, WorksIn
  <2> QED
    BY <1>2, <1>4, <1>6, <2>1 DEF Goes
<1>7. CASE d.life = "none" /\ u.life = "open" /\ f = e
  BY <1>7 DEF Goes
<1>8. CASE d.life = "open" /\ u.life = "closed" /\ SoldIn(e) # {}
  <2>1. HeldIn(e) = 0 /\ ~WorksIn(f)
    BY <1>5, <1>8
  <2>2. ~WorksIn(e)
    <3>1. SUFFICES ASSUME NEW i \in DOMAIN e, e[i].status = "open" PROVE FALSE
      BY DEF WorksIn
    <3>2. e[i].side # "entry"
      BY <1>8, <3>1 DEF FitIn
    <3>3. /\ i \in SoldIn(e) /\ e[i].amount \in Nat /\ e[i].filled \in Nat
          /\ e[i].filled <= e[i].amount /\ e[i].filled # e[i].amount
      BY <1>1, <3>1, <3>2, OrderFacts, SizeAssumption DEF SoldIn, Sells
    <3>4. e[i].amount - e[i].filled <= HeldIn(e)
      BY <3>1, <3>3 DEF FitIn
    <3> QED
      BY <2>1, <3>3, <3>4
  <2>3. BoughtIn(e) > 0
    <3>1. PICK i \in EnteredIn(e, d) : TRUE
      BY <1>1, <1>8 DEF Exact, ExactEntered
    <3>2. i \in DOMAIN d.book /\ e[i].side = "entry" /\ d.book[i].filled > 0 /\ i \in DOMAIN e
          /\ d.book[i] = ViewOf(e, i)
      BY <1>1, DbFacts DEF EnteredIn, Good, RowsOK
    <3>3. e[i].filled > 0 /\ e[i].filled \in Nat
      BY <1>1, <3>2, OrderFacts, SizeAssumption
    <3>4. e[i].filled <= BoughtIn(e)
      BY <1>1, <3>2, SumOfFacts DEF BoughtIn
    <3> QED
      BY <1>3, <3>3, <3>4
  <2> QED
    BY <1>2, <1>3, <1>4, <1>8, <2>1, <2>2, <2>3 DEF Goes
<1>9. CASE d.life = "open" /\ u.life = "dropped" /\ EnteredIn(e, d) = {}
  <2>1. HeldIn(e) = 0 /\ ~WorksIn(f)
    BY <1>5, <1>9
  <2>2. SoldIn(e) = {}
    BY <1>1, <1>9 DEF Exact, ExactEntered
  <2>3. SoldBy(e) = 0
    BY <1>1, <2>2, NothingSold
  <2> QED
    BY <1>2, <1>3, <1>9, <2>1, <2>3 DEF Goes
<1>10. CASE d.life = "open" /\ u.life \in {"unreplaced", "deleted"}
  BY <1>2, <1>10 DEF Goes
<1> QED
  BY <1>6, <1>7, <1>8, <1>9, <1>10 DEF LifeGoes

LEMMA FillGoes ==
  ASSUME NEW e, NEW d, NEW l, NEW g, SureAt(e, d, l, g), FitIn(e), NEW f \in Seq(OrderRow), FitIn(f),
         NEW x, Fills(e, f, x)
  PROVE  Goes(d.life, BoughtIn(e), SoldBy(e), WorksIn(e), d.life, BoughtIn(f), SoldBy(f), WorksIn(f))
<1> DEFINE n == f[x].filled - e[x].filled
<1>1. e \in Seq(OrderRow) /\ Exact(e, d) /\ x \in DOMAIN e /\ e[x].status = "open"
  BY DEF SureAt, BaseAt, Fills
<1>2. d.life \notin {"closed", "dropped"}
  BY <1>1 DEF Exact, Flat
<1>3. /\ BoughtIn(e) \in Nat /\ SoldBy(e) \in Nat /\ HeldIn(f) = BoughtIn(f) - SoldBy(f)
      /\ HeldIn(f) >= 0 /\ BoughtIn(f) <= Size /\ n \in Nat \ {0}
  BY <1>1, HeldParts, BoughtAtMostSize, FilledSums DEF FitIn
<1>4. CASE e[x].side = "entry"
  <2>1. SoldIn(e) = {}
    BY <1>1, <1>4 DEF FitIn
  <2>2. SoldBy(e) = 0
    BY <1>1, <2>1, NothingSold
  <2>3. BoughtIn(f) = BoughtIn(e) + n /\ SoldBy(f) = SoldBy(e)
    BY <1>1, <1>4, FilledSums
  <2> HIDE DEF n
  <2>4. BoughtIn(f) \in BoughtIn(e) + 1 .. Size
    BY <1>3, <2>3, SizeAssumption
  <2> QED
    BY <1>2, <2>2, <2>3, <2>4 DEF Goes
<1>5. CASE e[x].side # "entry"
  <2>1. x \in SoldIn(e) /\ SoldBy(f) = SoldBy(e) + n /\ BoughtIn(f) = BoughtIn(e)
    BY <1>1, <1>5, FilledSums
  <2>2. d.life # "none"
    BY <1>1, <2>1 DEF Exact
  <2> HIDE DEF n
  <2>3. SoldBy(f) \in SoldBy(e) + 1 .. BoughtIn(e)
    BY <1>3, <2>1
  <2> QED
    BY <1>2, <2>1, <2>2, <2>3 DEF Goes
<1> QED
  BY <1>4, <1>5

LEMMA SentGoes ==
  ASSUME NEW e \in Seq(OrderRow), NEW d, NEW o, NEW f, f = Append(e, o), FitIn(f),
         NEW l, NEW g, SureAt(f, d, l, g), g.at = "sent", g.id = Len(e) + 1
  PROVE  Goes(d.life, BoughtIn(e), SoldBy(e), WorksIn(e), d.life, BoughtIn(f), SoldBy(f), WorksIn(f))
<1>1. /\ f \in Seq(OrderRow) /\ Len(e) + 1 \in DOMAIN f /\ f[Len(e) + 1] = o
      /\ WorksIn(e) \in BOOLEAN /\ WorksIn(f) \in BOOLEAN
  BY DEF SureAt, BaseAt, WorksIn
<1>2. o \in OrderRow /\ o.side \in {"entry", "exit", "stop"} /\ o.filled \in Nat
  BY <1>1, OrderFacts, SizeAssumption
<1>3. /\ d.life \in {"none", "open"} /\ (d.life = "none" => SoldIn(f) = {})
      /\ o.side = "entry" => SoldIn(f) = {}
  BY <1>1, SentLife
<1>4. /\ BoughtIn(f) = BoughtIn(e) + IF o.side \in {"entry"} THEN o.filled ELSE 0
      /\ SoldBy(f) = SoldBy(e) + IF o.side \in {"exit", "stop"} THEN o.filled ELSE 0
  <2>1. /\ SumOf(f, {"entry"}) = SumOf(e, {"entry"}) + FillOf(o, {"entry"})
        /\ SumOf(f, {"exit", "stop"}) = SumOf(e, {"exit", "stop"}) + FillOf(o, {"exit", "stop"})
    BY <1>2, AddedSum
  <2> QED
    BY <2>1 DEF BoughtIn, SoldBy, FillOf
<1>5. /\ BoughtIn(e) \in Nat /\ SoldBy(e) \in Nat /\ HeldIn(f) = BoughtIn(f) - SoldBy(f)
      /\ HeldIn(f) >= 0 /\ BoughtIn(f) <= Size
  BY <1>1, HeldParts, BoughtAtMostSize DEF FitIn
<1>6. SoldIn(f) = {} => SoldBy(f) = 0
  BY <1>1, NothingSold
<1>7. CASE o.filled = 0
  <2>1. BoughtIn(f) = BoughtIn(e) /\ SoldBy(f) = SoldBy(e)
    BY <1>4, <1>5, <1>7
  <2> QED
    BY <1>1, <1>3, <2>1 DEF Goes
<1>8. CASE o.filled # 0 /\ o.side = "entry"
  <2>1. SoldBy(f) = SoldBy(e) /\ SoldBy(e) = 0 /\ BoughtIn(f) = BoughtIn(e) + o.filled
    BY <1>3, <1>4, <1>5, <1>6, <1>8
  <2>2. BoughtIn(f) \in BoughtIn(e) + 1 .. Size
    BY <1>2, <1>5, <1>8, <2>1, SizeAssumption
  <2> QED
    BY <1>3, <2>1, <2>2 DEF Goes
<1>9. CASE o.filled # 0 /\ o.side # "entry"
  <2>1. SoldBy(f) = SoldBy(e) + o.filled /\ BoughtIn(f) = BoughtIn(e)
    BY <1>2, <1>4, <1>5, <1>9
  <2>2. SoldBy(f) \in SoldBy(e) + 1 .. BoughtIn(e)
    BY <1>2, <1>5, <1>9, <2>1
  <2>3. d.life # "none"
    BY <1>1, <1>2, <1>3, <1>9 DEF SoldIn, Sells
  <2> QED
    BY <1>3, <2>1, <2>2, <2>3 DEF Goes
<1> QED
  BY <1>7, <1>8, <1>9

LEMMA KnownGoes ==
  ASSUME LifeInv, LifeInv', [Next]_vars, Known(lost, doing), Known(lost', doing')
  PROVE  Goes(db.life, BoughtIn(exch), SoldBy(exch), WorksIn(exch),
              db'.life, BoughtIn(exch'), SoldBy(exch'), WorksIn(exch'))
<1>1. PICK f, u, m, h : f = exch' /\ u = db' /\ m = lost' /\ h = doing'
  OBVIOUS
<1>2. Sure /\ FitIn(exch) /\ SureAt(exch, db, lost, doing) /\ exch \in Seq(OrderRow)
  BY KnownIsSure, SureFacts DEF LifeInv, Sure
<1>3. FitIn(f) /\ Known(m, h)
  BY <1>1 DEF LifeInv
<1>4. SureAt(f, u, m, h) /\ f \in Seq(OrderRow)
  BY <1>1, <1>3 DEF LifeInv, TradeInv, Base, BaseAt, ExactAt, SureAt
<1>5. CASE Quiet(exch, f)
  <2>1. LifeGoes(exch, db, f, u)
    BY <1>1, <1>2, HowLife
  <2> QED
    BY <1>1, <1>2, <1>4, <1>5, <2>1, QuietGoes
<1>6. CASE u = db /\ \E x : Fills(exch, f, x)
  BY <1>1, <1>2, <1>3, <1>4, <1>6, FillGoes
<1>7. CASE u = db /\ h.at = "sent" /\ h.id = Len(exch) + 1 /\ \E o : f = Append(exch, o)
  BY <1>1, <1>2, <1>3, <1>4, <1>7, SentGoes
<1> QED
  BY <1>1, <1>2, <1>5, <1>6, <1>7, HowOrders

LEMMA MapsStep ==
  ASSUME LifeInv, LifeInv', [Next]_vars PROVE [Life!Next]_(Life!lifeVars)
<1> DEFINE b == Total(On({"entry"}))
           s == Total(On({"exit", "stop"}))
           w == OpenAt(Sides) # {}
<1>1. /\ b = BoughtIn(exch) /\ s = SoldBy(exch) /\ (w <=> WorksIn(exch))
      /\ b' = BoughtIn(exch') /\ s' = SoldBy(exch') /\ (w' <=> WorksIn(exch'))
  <2>1. exch \in Seq(OrderRow) /\ exch' \in Seq(OrderRow)
    BY DEF LifeInv, TradeInv, Base, BaseAt
  <2>2. b' = BoughtIn(exch') /\ s' = SoldBy(exch')
    BY DEF Total, On, BoughtIn, SoldBy, SumOf
  <2>3. w' <=> WorksIn(exch')
    <3>1. \A i \in DOMAIN exch' : exch'[i].side \in Sides
      BY <2>1, OrderFacts DEF Sides
    <3> QED
      BY <3>1 DEF OpenAt, On, WorksIn
  <2> QED
    BY <2>1, <2>2, <2>3, TotalIs, ShownIs
<1>2. (EachKnown <=> Known(lost, doing)) /\ (EachKnown' <=> Known(lost', doing'))
  BY DEF EachKnown, Known
<1>3. EachKnown \in BOOLEAN /\ EachKnown' \in BOOLEAN /\ w \in BOOLEAN /\ w' \in BOOLEAN
  BY DEF EachKnown
<1>4. CASE ~EachKnown
  <2>1. ~EachKnown'
    BY <1>2, <1>4, KnownSteps DEF LifeInv, TradeInv
  <2> QED
    BY <1>4, <2>1 DEF Life!Next
<1>5. CASE EachKnown /\ EachKnown'
  <2>1. Goes(db.life, b, s, w, db'.life, b', s', w')
    <3>1. WorksIn(exch) \in BOOLEAN /\ WorksIn(exch') \in BOOLEAN
      BY DEF WorksIn
    <3>2. w = WorksIn(exch) /\ w' = WorksIn(exch')
      BY <1>1, <1>3, <3>1
    <3> HIDE DEF b, s, w
    <3> QED
      BY <1>1, <1>2, <1>5, <3>2, KnownGoes
  <2>2. EachKnown' = EachKnown
    BY <1>3, <1>5
  <2>3. db.life' = db'.life
    OBVIOUS
  <2> QED
    BY <1>5, <2>1, <2>2, <2>3 DEF Goes, Life!Next, Life!Promised, Life!Buy, Life!Sell, Life!Work, Life!Begin,
       Life!Close, Life!Drop, Life!Forget, Life!Ended, Life!lifeVars
<1>6. CASE EachKnown /\ ~EachKnown'
  <2>1. Crash
    BY <1>2, <1>6, KnownLasts
  <2>2. exch' = exch /\ db' = db
    BY <2>1 DEF Crash
  <2>3. b' = b /\ s' = s /\ w' = w
    BY <2>2 DEF Total, On, OpenAt
  <2>4. EachKnown' = FALSE
    BY <1>3, <1>6
  <2> QED
    BY <1>6, <2>2, <2>3, <2>4 DEF Life!Next, Life!Promised, Life!Lose
<1> QED
  BY <1>3, <1>4, <1>5, <1>6

LEMMA MapsInit ==
  ASSUME Init PROVE Life!Init
<1>1. exch = <<>> /\ lost = {} /\ doing = Idle /\ db.life = "none" /\ exch \in Seq(OrderRow) /\ DOMAIN exch = {}
  BY DEF Init
<1>2. SumFunctionOnSet(Filled(exch), {}) = 0
  BY FS_EmptySet, SumFacts
<1>3. On({"entry"}) = {} /\ On({"exit", "stop"}) = {} /\ OpenAt(Sides) = {}
  BY <1>1 DEF On, OpenAt
<1>4. Total(On({"entry"})) = 0 /\ Total(On({"exit", "stop"})) = 0
  BY <1>2, <1>3 DEF Total
<1>5. EachKnown = TRUE /\ (OpenAt(Sides) # {}) = FALSE
  BY <1>1, <1>3, IdleFacts DEF EachKnown
<1> QED
  BY <1>1, <1>4, <1>5 DEF Life!Init

(* Of the trade's orders and its row together nothing more happens than    *)
(* TradeLife says: one purchase, sales of what was bought, and an end only *)
(* when all of it is sold or nothing was bought; until the bot dies        *)
(* between placing an order and writing it.                                *)
THEOREM ImplementsTrade == Spec => TradeSpec
<1>1. Init => LifeInv /\ Life!Init
  BY LifeInit, MapsInit
<1>2. LifeInv /\ [Next]_vars => LifeInv'
  BY LifeStep
<1>3. LifeInv /\ LifeInv' /\ [Next]_vars => [Life!Next]_(Life!lifeVars)
  BY MapsStep
<1> QED
  BY <1>1, <1>2, <1>3, PTL DEF Spec, TradeSpec, Life!Spec
=============================================================================
