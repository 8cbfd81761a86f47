--------------------------- MODULE LiveEngineProofs ---------------------------
(* Proofs about LiveEngine, for all values of its constants.               *)
EXTENDS LiveEngine, FiniteSetTheorems, SequenceTheorems, TLAPS

(* The ids an engine step makes are engine ids, and no kill request uses   *)
(* an id of the engine.                                                    *)
LEMMA CidFacts ==
  /\ EngineCid \subseteq Cid /\ KillCid \subseteq Cid
  /\ EngineCid \cap KillCid = {}
  /\ NoCid \notin Cid
  /\ \A n \in 0 .. MaxCandle : <<"e", n>> \in EngineCid /\ <<"x", n>> \in EngineCid
  /\ \A n \in 0 .. MaxMinute : <<"s", n>> \in EngineCid
  /\ \A n \in 1 .. MaxKills : <<"k", n>> \in KillCid
  /\ Cid = EngineCid \cup KillCid
BY DEF EngineCid, KillCid, Cid, NoCid

LEMMA ActiveType ==
  ASSUME auths \in Seq(AuthRow)
  PROVE  Active \in 0 .. Len(auths)
<1> DEFINE newest == {i \in DOMAIN auths : /\ ~auths[i].revoked
                                          /\ \A j \in (i + 1) .. Len(auths) : auths[j].revoked}
<1>1. newest \subseteq 0 .. Len(auths)
  OBVIOUS
<1>2. Len(auths) \in Nat
  OBVIOUS
<1>3. CASE newest = {}
  <2>1. Active = 0
    BY <1>3 DEF Active
  <2>2. QED
    BY <2>1, <1>2
<1>4. CASE newest # {}
  <2>1. Active = CHOOSE i \in newest : TRUE
    BY <1>4 DEF Active
  <2>2. Active \in newest
    BY <2>1, <1>4
  <2>3. QED
    BY <2>2, <1>1
<1>5. QED
  BY <1>3, <1>4

LEMMA RevokeAllType ==
  ASSUME auths \in Seq(AuthRow)
  PROVE  RevokeAll \in Seq(AuthRow) /\ Len(RevokeAll) = Len(auths)
<1>1. ASSUME NEW i \in 1 .. Len(auths)
      PROVE  [auths[i] EXCEPT !.revoked = TRUE] \in AuthRow
  <2>1. auths[i] \in AuthRow
    BY ElementOfSeq
  <2>2. QED
    BY <2>1 DEF AuthRow
<1>2. Len(auths) \in Nat /\ DOMAIN auths = 1 .. Len(auths)
  OBVIOUS
<1>3. RevokeAll \in [1 .. Len(auths) -> AuthRow]
  BY <1>1, <1>2 DEF RevokeAll
<1>4. QED
  BY <1>2, <1>3

LEMMA TypeInit == Init => TypeOK
<1> SUFFICES ASSUME Init PROVE TypeOK
  OBVIOUS
<1>1. OrderTypeOK
  BY CidFacts DEF Init, OrderTypeOK, NoTrade, Open
<1>2. OwnerTypeOK
  BY BoundsAssumption DEF Init, OwnerTypeOK, NoKill
<1>3. WorkerTypeOK
  <2>1. Len(auths) = 0
    BY DEF Init
  <2>2. tick \in [key : Keys \cup {NoKey}, quote : Pairs \cup {NoPair}, low : BOOLEAN,
                  held : 0 .. Len(auths), at : 0 .. MaxMinute,
                  pair : Pairs \cup {NoPair}, open : {0, 1}]
    BY <2>1, BoundsAssumption DEF Init, NoTick
  <2>3. verified \in BOOLEAN
    BY DEF Init
  <2>4. pc = "idle" /\ cur = NoCid /\ todo = {} /\ lastCandle \in 0 .. MaxCandle
    BY BoundsAssumption DEF Init
  <2>5. QED
    BY <2>2, <2>3, <2>4 DEF WorkerTypeOK, Points
<1>4. WorldTypeOK
  BY BoundsAssumption, SwitchAssumption DEF Init, WorldTypeOK
<1>5. QED
  BY <1>1, <1>2, <1>3, <1>4 DEF TypeOK

(* The four parts of TypeOK are kept by every step, one part at a time:    *)
(* first the orders, the position and what became of the requests.         *)
LEMMA OrderTypeStep ==
  ASSUME TypeOK, Next
  PROVE  OrderTypeOK'
<1> USE DEF TypeOK, dbVars, orderVars, exchVars
<1>1. CASE UNCHANGED <<orderStatus, orderPair, exch, holding, trade>>
  BY <1>1 DEF OrderTypeOK
<1>2. ASSUME NEW c \in EngineCid, QueryOrder(c)
      PROVE  OrderTypeOK'
  BY <1>2, CidFacts DEF OrderTypeOK, QueryOrder, Answer, Executed, Final, Open
<1>3. ASSUME NEW c \in EngineCid, Book(c), UNCHANGED <<orderStatus, orderPair, exch, holding>>
      PROVE  OrderTypeOK'
  BY <1>3, CidFacts DEF OrderTypeOK, Book, NoTrade
<1>4. CASE WriteOrder
  BY <1>4, CidFacts DEF WriteOrder, OrderTypeOK, WorkerTypeOK, Open, localVars
<1>5. CASE PostOrder
  BY <1>5, CidFacts DEF PostOrder, OrderTypeOK, WorkerTypeOK
<1>6. CASE OrderAnswered \/ OrderRejected \/ OrderUnknown
  BY <1>6, CidFacts
  DEF OrderAnswered, OrderRejected, OrderUnknown, TimeoutStatus, OrderTypeOK, WorkerTypeOK,
      Open, Final, Executed
<1>7. CASE KillSell
  BY <1>7, CidFacts, BoundsAssumption DEF KillSell, OrderTypeOK, OwnerTypeOK
<1>8. CASE KillRecord
  <2>1. exch[<<"k", kill.at>>] \in Final /\ exch[<<"k", kill.at>>] \notin Open
    BY <1>8 DEF KillRecord, Executed, Final, Open
  <2>2. orderStatus' \in [Cid -> {"none"} \cup Open \cup Final]
    BY <1>8, <2>1 DEF KillRecord, OrderTypeOK
  <2>3. \A c \in KillCid : orderStatus'[c] \notin Open
    BY <1>8, <2>1, CidFacts DEF KillRecord, OrderTypeOK
  <2>4. QED
    BY <1>8, <2>2, <2>3 DEF KillRecord, OrderTypeOK, NoTrade
<1>9. ASSUME NEW c \in Cid, Fill(c) \/ NotFilled(c)
      PROVE  OrderTypeOK'
  BY <1>9, OutcomesAssumption DEF Fill, NotFilled, OrderTypeOK, Executed
<1>10. CASE TickStep
  <2>1. CASE CycleStart \/ VerifyKey \/ UnsafeKey \/ ReadQuote \/ CallFails \/ GateStopped \/ Gate
    BY <2>1, <1>1 DEF CycleStart, VerifyKey, UnsafeKey, ReadQuote, CallFails, GateStopped, Gate
  <2>2. ASSUME NEW c \in EngineCid, QueryFails(c)
        PROVE  OrderTypeOK'
    BY <2>2, <1>1 DEF QueryFails
  <2>3. CASE BookReconciled
    BY <2>3, <1>3 DEF BookReconciled, WorkerTypeOK
  <2>4. CASE WaitingReconcile \/ NoAuthorization \/ Plan \/ NoFreshCandle \/ StrategyFails
             \/ TakeCandle \/ RiskCheck
    BY <2>4, <1>1
    DEF WaitingReconcile, NoAuthorization, Plan, NoFreshCandle, StrategyFails, TakeCandle, RiskCheck
  <2>5. QED
    BY <1>10, <1>2, <2>1, <2>2, <2>3, <2>4 DEF TickStep
<1>11. CASE SendStep
  <2>1. CASE OrderExists \/ HaltAfterSend
    BY <2>1, <1>1 DEF OrderExists, HaltAfterSend
  <2>2. CASE BookOrder
    BY <2>2, <1>3 DEF BookOrder, WorkerTypeOK
  <2>3. QED
    BY <1>11, <1>4, <1>5, <1>6, <2>1, <2>2 DEF SendStep
<1>12. CASE Crash \/ Restart
  BY <1>12, <1>1 DEF Crash, Restart
<1>13. CASE OwnerStep
  BY <1>13, <1>1 DEF OwnerStep, Start, Stop, Revoke, Authorize, StoreKey
<1>14. CASE KillStep
  <2>1. ASSUME NEW close \in BOOLEAN, KillBegin(close)
        PROVE  OrderTypeOK'
    BY <2>1, <1>1 DEF KillBegin
  <2>2. CASE KillFails
    BY <2>2, <1>1 DEF KillFails
  <2>3. QED
    BY <1>14, <1>7, <1>8, <2>1, <2>2 DEF KillStep
<1>15. CASE ExchangeStep
  BY <1>15, <1>9 DEF ExchangeStep
<1>16. CASE WorldStep
  BY <1>16, <1>1 DEF WorldStep, PriceMoves, CandleCloses, MinutePasses
<1>17. QED
  BY <1>10, <1>11, <1>12, <1>13, <1>14, <1>15, <1>16 DEF Next

(* The owner's side: the portfolio status, the authorizations, the key,    *)
(* the kill switch request.                                                *)
LEMMA OwnerTypeStep ==
  ASSUME TypeOK, Next
  PROVE  OwnerTypeOK'
<1> USE DEF TypeOK, dbVars
<1>1. ASSUME status' \in {"stopped", "running", "halted"}, lateEntries' \in Nat,
             UNCHANGED <<auths, creds, kill>>
      PROVE  OwnerTypeOK'
  BY <1>1 DEF OwnerTypeOK
<1>2. CASE Plan
  <2>1. tick.held \in 1 .. Len(auths)
    BY <1>2 DEF Plan, WorkerTypeOK, OwnerTypeOK
  <2>2. [auths[tick.held] EXCEPT !.revoked = FALSE] \in AuthRow
    <3>1. auths[tick.held] \in AuthRow
      BY <2>1, ElementOfSeq DEF OwnerTypeOK
    <3>2. QED
      BY <3>1 DEF AuthRow
  <2>3. auths' \in Seq(AuthRow)
    <3>1. auths' = [auths EXCEPT ![tick.held] = [auths[tick.held] EXCEPT !.revoked = FALSE]]
      BY <1>2 DEF Plan
    <3>2. QED
      BY <2>1, <2>2, <3>1, ExceptSeq DEF OwnerTypeOK
  <2>4. QED
    BY <1>2, <2>3 DEF Plan, OwnerTypeOK
<1>3. CASE TickStep /\ ~Plan
  <2>1. status' \in {"stopped", "running", "halted"} /\ UNCHANGED <<auths, creds, kill, lateEntries>>
    <3>1. CASE CycleStart \/ VerifyKey \/ UnsafeKey \/ ReadQuote \/ CallFails \/ GateStopped \/ Gate
      BY <3>1 DEF CycleStart, VerifyKey, UnsafeKey, ReadQuote, CallFails, GateStopped, Gate, OwnerTypeOK
    <3>2. ASSUME NEW c \in EngineCid, QueryFails(c) \/ QueryOrder(c)
          PROVE  status' \in {"stopped", "running", "halted"} /\ UNCHANGED <<auths, creds, kill, lateEntries>>
      BY <3>2 DEF QueryFails, QueryOrder, OwnerTypeOK
    <3>3. CASE BookReconciled \/ WaitingReconcile \/ NoAuthorization \/ NoFreshCandle
               \/ StrategyFails \/ TakeCandle \/ RiskCheck
      BY <3>3
      DEF BookReconciled, WaitingReconcile, NoAuthorization, NoFreshCandle, StrategyFails, TakeCandle,
          RiskCheck, OwnerTypeOK
    <3>4. QED
      BY <1>3, <3>1, <3>2, <3>3 DEF TickStep
  <2>2. QED
    BY <1>1, <2>1 DEF OwnerTypeOK
<1>4. CASE SendStep \/ Crash \/ Restart
  BY <1>4, <1>1
  DEF SendStep, WriteOrder, OrderExists, PostOrder, OrderAnswered, OrderRejected, OrderUnknown,
      BookOrder, HaltAfterSend, Crash, Restart, OwnerTypeOK
<1>5. CASE Start \/ Stop
  BY <1>5, <1>1 DEF Start, Stop, OwnerTypeOK
<1>6. CASE Revoke
  BY <1>6, RevokeAllType DEF Revoke, OwnerTypeOK
<1>7. ASSUME NEW p \in Pairs, Authorize(p)
      PROVE  OwnerTypeOK'
  <2>1. [pair |-> p, revoked |-> FALSE] \in AuthRow
    BY DEF AuthRow
  <2>2. auths' \in Seq(AuthRow)
    BY <1>7, <2>1, RevokeAllType, AppendProperties DEF Authorize, OwnerTypeOK
  <2>3. QED
    BY <1>7, <2>2 DEF Authorize, OwnerTypeOK
<1>8. ASSUME NEW k \in Keys \cup {NoKey}, StoreKey(k)
      PROVE  OwnerTypeOK'
  BY <1>8 DEF StoreKey, OwnerTypeOK
<1>9. ASSUME NEW close \in BOOLEAN, KillBegin(close)
      PROVE  OwnerTypeOK'
  <2>1. kill.at \in Nat /\ kill.at + 1 \in 1 .. MaxKills
    BY <1>9, BoundsAssumption DEF KillBegin, OwnerTypeOK
  <2>2. kill' \in [pc : {"idle", "close", "await"}, pair : Pairs \cup {NoPair}, at : 0 .. MaxKills]
         /\ kill'.at > 0
    BY <1>9, <2>1 DEF KillBegin, NoKill, OwnerTypeOK, OrderTypeOK
  <2>3. QED
    BY <1>9, <2>2 DEF KillBegin, OwnerTypeOK
<1>10. CASE KillSell \/ KillRecord \/ KillFails
  BY <1>10 DEF KillSell, KillRecord, KillFails, NoKill, OwnerTypeOK
<1>11. CASE ExchangeStep \/ WorldStep
  BY <1>11, <1>1 DEF ExchangeStep, Fill, NotFilled, WorldStep, PriceMoves, CandleCloses, MinutePasses, OwnerTypeOK
<1>12. QED
  BY <1>2, <1>3, <1>4, <1>5, <1>6, <1>7, <1>8, <1>9, <1>10, <1>11
  DEF Next, OwnerStep, KillStep

(* The worker: where the tick is and what it carries. *)
LEMMA WorkerTypeStep ==
  ASSUME TypeOK, Next
  PROVE  WorkerTypeOK'
<1> USE DEF TypeOK, dbVars, orderVars, localVars, workerVars
<1> DEFINE Ticks(n) == [key : Keys \cup {NoKey}, quote : Pairs \cup {NoPair}, low : BOOLEAN,
                        held : 0 .. n, at : 0 .. MaxMinute,
                        pair : Pairs \cup {NoPair}, open : {0, 1}]
<1>0. Len(auths) \in Nat /\ NoTick \in Ticks(0)
  BY BoundsAssumption DEF OwnerTypeOK, NoTick
<1>1. ASSUME pc' \in {"idle", "down"}, cur' = NoCid, todo' = {}, tick' = NoTick,
             verified' \in BOOLEAN, UNCHANGED <<auths, lastCandle>>
      PROVE  WorkerTypeOK'
  BY <1>0, <1>1 DEF WorkerTypeOK, Points
<1>2. CASE EndCycle /\ UNCHANGED <<verified, auths, lastCandle>>
  BY <1>1, <1>2 DEF EndCycle, WorkerTypeOK
<1>3. CASE CycleStart
  <2>1. tick' \in Ticks(Len(auths))
    BY <1>0, <1>3 DEF CycleStart, OwnerTypeOK
  <2>2. QED
    BY <1>3, <2>1 DEF CycleStart, WorkerTypeOK, Points
<1>4. CASE VerifyKey
  BY <1>4 DEF VerifyKey, WorkerTypeOK, Points
<1>5. CASE ReadQuote
  <2>1. tick' \in Ticks(Len(auths))
    <3>1. CASE Active = 0
      BY <1>5, <3>1 DEF ReadQuote, WorkerTypeOK
    <3>2. CASE Active # 0
      <4>1. auths[Active].pair \in Pairs
        <5>1. Active \in 1 .. Len(auths)
          BY <3>2, ActiveType DEF OwnerTypeOK
        <5>2. auths[Active] \in AuthRow
          BY <5>1, ElementOfSeq DEF OwnerTypeOK
        <5>3. QED
          BY <5>2 DEF AuthRow
      <4>2. below[auths[Active].pair] \in BOOLEAN
        BY <4>1 DEF WorldTypeOK
      <4>3. QED
        BY <1>5, <3>2, <4>1, <4>2 DEF ReadQuote, WorkerTypeOK
    <3>3. QED
      BY <3>1, <3>2
  <2>2. QED
    BY <1>5, <2>1 DEF ReadQuote, WorkerTypeOK, Points
<1>6. CASE Gate
  <2>1. tick' \in Ticks(Len(auths))
    BY <1>6, ActiveType DEF Gate, WorkerTypeOK, OwnerTypeOK, WorldTypeOK
  <2>2. QED
    BY <1>6, <2>1, CidFacts DEF Gate, WorkerTypeOK, OrderTypeOK, Points, ReconcileList, Open
<1>7. ASSUME NEW c \in EngineCid, QueryFails(c) \/ QueryOrder(c)
      PROVE  WorkerTypeOK'
  BY <1>7 DEF QueryFails, QueryOrder, BooksAnswer, WorkerTypeOK, Points
<1>8. CASE BookReconciled
  BY <1>8 DEF BookReconciled, WorkerTypeOK, Points
<1>9. CASE Plan
  <2>1. Len(auths') = Len(auths)
    BY <1>9 DEF Plan, OwnerTypeOK
  <2>2. auths[tick.held].pair \in Pairs
    <3>1. tick.held \in 1 .. Len(auths)
      BY <1>0, <1>9 DEF Plan, WorkerTypeOK
    <3>2. auths[tick.held] \in AuthRow
      BY <3>1, ElementOfSeq DEF OwnerTypeOK
    <3>3. QED
      BY <3>2 DEF AuthRow
  <2>3. tick' \in Ticks(Len(auths))
    BY <1>9, <2>2 DEF Plan, WorkerTypeOK, OrderTypeOK
  <2>4. <<"s", tick.at>> \in EngineCid
    BY CidFacts DEF WorkerTypeOK
  <2>5. QED
    BY <1>9, <2>1, <2>3, <2>4 DEF Plan, WorkerTypeOK, Points
<1>10. CASE TakeCandle
  BY <1>10 DEF TakeCandle, WorkerTypeOK, WorldTypeOK, Points
<1>11. CASE RiskCheck
  <2>1. <<"x", lastCandle>> \in EngineCid /\ <<"e", lastCandle>> \in EngineCid
    BY CidFacts DEF WorkerTypeOK
  <2>2. CASE EndCycle
    BY <1>2, <1>11, <2>2 DEF RiskCheck
  <2>3. CASE ~EndCycle
    BY <1>11, <2>1, <2>3 DEF RiskCheck, WorkerTypeOK, Points
  <2>4. QED
    BY <2>2, <2>3
<1>12. CASE WriteOrder \/ PostOrder \/ OrderAnswered \/ OrderRejected \/ OrderUnknown
  BY <1>12 DEF WriteOrder, PostOrder, OrderAnswered, OrderRejected, OrderUnknown, WorkerTypeOK, Points
<1>13. CASE Crash
  BY <1>1, <1>13 DEF Crash
<1>14. CASE Restart
  BY <1>14 DEF Restart, WorkerTypeOK, Points
<1>15. CASE UnsafeKey \/ CallFails \/ GateStopped \/ WaitingReconcile \/ NoAuthorization
            \/ NoFreshCandle \/ StrategyFails \/ OrderExists \/ BookOrder \/ HaltAfterSend
  BY <1>2, <1>15
  DEF UnsafeKey, CallFails, GateStopped, WaitingReconcile, NoAuthorization, NoFreshCandle,
      StrategyFails, OrderExists, BookOrder, HaltAfterSend
<1>16. CASE UNCHANGED <<pc, verified, cur, todo, tick, lastCandle>> /\ Len(auths') \in Nat
            /\ Len(auths) <= Len(auths')
  BY <1>0, <1>16 DEF WorkerTypeOK
<1>17. CASE OwnerStep
  <2>1. CASE Start \/ Stop \/ \E k \in Keys \cup {NoKey} : StoreKey(k)
    BY <1>0, <1>16, <2>1 DEF Start, Stop, StoreKey
  <2>2. CASE Revoke
    BY <1>0, <1>16, <2>2, RevokeAllType DEF Revoke, OwnerTypeOK
  <2>3. ASSUME NEW p \in Pairs, Authorize(p)
        PROVE  WorkerTypeOK'
    <3>1. Len(auths') = Len(auths) + 1
      BY <2>3, RevokeAllType DEF Authorize, OwnerTypeOK
    <3>2. QED
      BY <1>0, <1>16, <2>3, <3>1 DEF Authorize
  <2>4. QED
    BY <1>17, <2>1, <2>2, <2>3 DEF OwnerStep
<1>18. CASE KillStep \/ ExchangeStep \/ WorldStep
  BY <1>0, <1>16, <1>18
  DEF KillStep, KillBegin, KillSell, KillRecord, KillFails, ExchangeStep, Fill, NotFilled,
      WorldStep, PriceMoves, CandleCloses, MinutePasses
<1>19. CASE TickStep \/ SendStep
  BY <1>3, <1>4, <1>5, <1>6, <1>7, <1>8, <1>9, <1>10, <1>11, <1>12, <1>15, <1>19 DEF TickStep, SendStep
<1>20. QED
  BY <1>13, <1>14, <1>17, <1>18, <1>19 DEF Next

LEMMA WorldTypeStep ==
  ASSUME TypeOK, Next
  PROVE  WorldTypeOK'
<1> USE DEF TypeOK, worldVars
<1>1. CASE UNCHANGED worldVars
  BY <1>1 DEF WorldTypeOK
<1>2. CASE TickStep \/ SendStep \/ OwnerStep \/ KillStep \/ ExchangeStep
  BY <1>1, <1>2
  DEF TickStep, CycleStart, VerifyKey, UnsafeKey, ReadQuote, CallFails, GateStopped, Gate, QueryFails,
      QueryOrder, BookReconciled, WaitingReconcile, NoAuthorization, Plan, NoFreshCandle, StrategyFails,
      TakeCandle, RiskCheck, SendStep, WriteOrder, OrderExists, PostOrder, OrderAnswered, OrderRejected,
      OrderUnknown, BookOrder, HaltAfterSend, OwnerStep, Start, Stop, Revoke, Authorize, StoreKey,
      KillStep, KillBegin, KillSell, KillRecord, KillFails, ExchangeStep, Fill, NotFilled
<1>3. CASE Crash \/ Restart
  BY <1>3, BoundsAssumption, SwitchAssumption DEF Crash, Restart, WorldTypeOK
<1>4. ASSUME NEW p \in Pairs, PriceMoves(p)
      PROVE  WorldTypeOK'
  BY <1>4 DEF PriceMoves, WorldTypeOK
<1>5. CASE CandleCloses \/ MinutePasses
  BY <1>5, BoundsAssumption DEF CandleCloses, MinutePasses, WorldTypeOK
<1>6. QED
  BY <1>2, <1>3, <1>4, <1>5 DEF Next, WorldStep

(* Every variable keeps its type, for all pairs, keys, bounds and crash    *)
(* points.                                                                 *)
THEOREM TypeCorrect == Spec => []TypeOK
<1>1. TypeOK /\ [Next]_vars => TypeOK'
  <2>1. CASE TypeOK /\ Next
    BY <2>1, OrderTypeStep, OwnerTypeStep, WorkerTypeStep, WorldTypeStep DEF TypeOK
  <2>2. CASE TypeOK /\ UNCHANGED vars
    BY <2>2 DEF TypeOK, OrderTypeOK, OwnerTypeOK, WorkerTypeOK, WorldTypeOK, vars, dbVars,
                workerVars, exchVars, worldVars
  <2>3. QED
    BY <2>1, <2>2
<1>2. QED
  BY <1>1, TypeInit, PTL DEF Spec

-----------------------------------------------------------------------------
(* The orders.  OrderInv is inductive relative to TypeOK.                  *)

LEMMA OrderInvInit == Init => OrderInv
BY CidFacts DEF Init, OrderInv, SendInv, KillInv, WriteAhead, LedgerAgrees, Unresolved, Open, Executed

(* Steps that leave the rows and the requests alone, and take the tick to  *)
(* a point of which SendInv asks no more than of the one it comes from.    *)
LEMMA OrderInvQuiet ==
  ASSUME OrderInv, UNCHANGED <<orderStatus, exch, kill>>,
         \/ UNCHANGED <<pc, cur, todo>>
         \/ todo' \subseteq Unresolved /\ pc' \notin {"candle", "risk", "write", "book", "post", "await"}
         \/ todo' \subseteq Unresolved /\ Unresolved = {} /\ pc' \notin {"post", "await"}
  PROVE  OrderInv'
BY DEF OrderInv, SendInv, KillInv, WriteAhead, LedgerAgrees, Unresolved

LEMMA OrderInvTick ==
  ASSUME TypeOK, OrderInv, TickStep
  PROVE  OrderInv'
<1> USE DEF dbVars, orderVars, exchVars, EndCycle
<1>1. CASE CycleStart \/ VerifyKey \/ UnsafeKey \/ ReadQuote \/ CallFails \/ GateStopped
  BY <1>1, OrderInvQuiet
  DEF CycleStart, VerifyKey, UnsafeKey, ReadQuote, CallFails, GateStopped, OrderInv, SendInv
<1>2. CASE Gate
  BY <1>2, OrderInvQuiet DEF Gate, ReconcileList, Unresolved, Open
<1>3. ASSUME NEW c \in EngineCid, QueryFails(c)
      PROVE  OrderInv'
  BY <1>3, OrderInvQuiet DEF QueryFails, OrderInv, SendInv
<1>4. ASSUME NEW c \in EngineCid, QueryOrder(c)
      PROVE  OrderInv'
  <2>1. c \in Unresolved /\ c \in Cid /\ Answer(c) \notin Open
    BY <1>4, CidFacts DEF QueryOrder, OrderInv, SendInv, Answer, Executed, Open
  <2>2. orderStatus' = [orderStatus EXCEPT ![c] = Answer(c)] /\ UNCHANGED exch
    BY <1>4 DEF QueryOrder
  <2>3. Unresolved' = {} /\ Unresolved = {c}
    BY <2>1, <2>2 DEF OrderInv, SendInv, Unresolved, TypeOK, OrderTypeOK
  <2>4. todo' = {} /\ pc' \notin {"post", "await"}
    BY <1>4, <2>3 DEF QueryOrder, OrderInv, SendInv
  <2>5. SendInv'
    BY <2>3, <2>4 DEF SendInv
  <2>6. KillInv'
    <3>1. c \notin KillCid /\ UNCHANGED kill
      BY <1>4, CidFacts DEF QueryOrder
    <3>2. \A d \in KillCid : orderStatus'[d] = orderStatus[d] /\ exch'[d] = exch[d]
      BY <2>2, <3>1, CidFacts DEF TypeOK, OrderTypeOK
    <3>3. QED
      BY <3>1, <3>2, CidFacts DEF OrderInv, KillInv
  <2>7. WriteAhead'
    BY <2>1, <2>2 DEF OrderInv, WriteAhead, Answer, Executed, TypeOK, OrderTypeOK
  <2>8. LedgerAgrees'
    BY <1>4, <2>1, <2>2 DEF OrderInv, LedgerAgrees, QueryOrder, Answer, Executed, TypeOK, OrderTypeOK
  <2>9. QED
    BY <2>5, <2>6, <2>7, <2>8 DEF OrderInv
<1>5. CASE BookReconciled
  BY <1>5, OrderInvQuiet DEF BookReconciled, OrderInv, SendInv
<1>6. CASE WaitingReconcile \/ NoAuthorization \/ NoFreshCandle \/ StrategyFails
  BY <1>6, OrderInvQuiet DEF WaitingReconcile, NoAuthorization, NoFreshCandle, StrategyFails
<1>7. CASE Plan
  <2>1. Unresolved = {}
    BY <1>7 DEF Plan, Blocking, Unresolved, Open
  <2>2. QED
    BY <1>7, <2>1, OrderInvQuiet DEF Plan
<1>8. CASE TakeCandle \/ RiskCheck
  <2>1. Unresolved = {} /\ todo = {}
    BY <1>8 DEF TakeCandle, RiskCheck, OrderInv, SendInv
  <2>2. QED
    BY <1>8, <2>1, OrderInvQuiet DEF TakeCandle, RiskCheck
<1>9. QED
  BY <1>1, <1>2, <1>3, <1>4, <1>5, <1>6, <1>7, <1>8 DEF TickStep

LEMMA OrderInvSend ==
  ASSUME TypeOK, OrderInv, SendStep
  PROVE  OrderInv'
<1> USE DEF dbVars, orderVars, exchVars, localVars, EndCycle
<1>1. CASE OrderExists \/ BookOrder \/ HaltAfterSend
  BY <1>1, OrderInvQuiet DEF OrderExists, BookOrder, HaltAfterSend
<1>2. CASE WriteOrder
  <2>1. cur \in EngineCid /\ cur \in Cid /\ cur \notin KillCid
    BY <1>2, CidFacts DEF WriteOrder, TypeOK, WorkerTypeOK
  <2>2. orderStatus' = [orderStatus EXCEPT ![cur] = "pending"] /\ UNCHANGED <<exch, kill, cur, todo>>
    BY <1>2 DEF WriteOrder
  <2>3. Unresolved = {} /\ Unresolved' = {cur} /\ todo = {}
    BY <1>2, <2>1, <2>2 DEF WriteOrder, OrderInv, SendInv, Unresolved, Open, TypeOK, OrderTypeOK
  <2>4. exch[cur] = "absent"
    BY <1>2, <2>1 DEF WriteOrder, NewRow, OrderInv, WriteAhead
  <2>5. SendInv'
    <3>1. pc' = "post" /\ todo' = todo /\ cur' = cur /\ exch' = exch
      BY <1>2, <2>2 DEF WriteOrder
    <3>2. orderStatus'[cur] = "pending"
      BY <2>1, <2>2 DEF TypeOK, OrderTypeOK
    <3> QED
      BY <2>3, <2>4, <3>1, <3>2 DEF SendInv
  <2>6. KillInv'
    BY <2>1, <2>2, CidFacts DEF OrderInv, KillInv, TypeOK, OrderTypeOK
  <2>7. WriteAhead' /\ LedgerAgrees'
    BY <2>1, <2>2 DEF OrderInv, WriteAhead, LedgerAgrees, Executed, TypeOK, OrderTypeOK
  <2>8. QED
    BY <2>5, <2>6, <2>7 DEF OrderInv
<1>3. CASE PostOrder
  <2>1. cur \in EngineCid /\ cur \in Cid
    BY <1>3, CidFacts DEF PostOrder, TypeOK, WorkerTypeOK
  <2>2. orderStatus[cur] = "pending" /\ todo = {}
    BY <1>3 DEF PostOrder, OrderInv, SendInv
  <2>3. exch' = [exch EXCEPT ![cur] = "inflight"] /\ UNCHANGED <<orderStatus, kill, cur, todo>> /\ pc' = "await"
    BY <1>3 DEF PostOrder
  <2>4. SendInv'
    BY <2>1, <2>2, <2>3 DEF OrderInv, SendInv, Unresolved, TypeOK, OrderTypeOK
  <2>5. KillInv' /\ WriteAhead' /\ LedgerAgrees'
    BY <2>1, <2>2, <2>3, CidFacts
    DEF OrderInv, KillInv, WriteAhead, LedgerAgrees, Executed, TypeOK, OrderTypeOK
  <2>6. QED
    BY <2>4, <2>5 DEF OrderInv
<1>4. CASE OrderAnswered \/ OrderRejected \/ OrderUnknown
  <2>1. cur \in EngineCid /\ cur \in Cid /\ cur \notin KillCid
    BY <1>4, CidFacts DEF OrderAnswered, OrderRejected, OrderUnknown, TypeOK, WorkerTypeOK
  <2>2. Unresolved = {cur} /\ todo \subseteq {cur} /\ exch[cur] # "absent"
    BY <1>4, <2>1 DEF OrderAnswered, OrderRejected, OrderUnknown, OrderInv, SendInv, Unresolved, Open
  <2>3. PICK st \in {"filled", "expired", "rejected", "unknown"} :
          /\ orderStatus' = [orderStatus EXCEPT ![cur] = st]
          /\ st = "rejected" => exch[cur] = "refused"
          /\ st \in Executed => exch[cur] = st /\ pc' = "book"
          /\ st \notin Executed => pc' = "halt"
    BY <1>4 DEF OrderAnswered, OrderRejected, OrderUnknown, TimeoutStatus, Executed
  <2>4. UNCHANGED <<exch, kill, cur, todo>>
    BY <1>4 DEF OrderAnswered, OrderRejected, OrderUnknown
  <2>5. todo = {}
    BY <1>4 DEF OrderAnswered, OrderRejected, OrderUnknown, OrderInv, SendInv
  <2>6. SendInv'
    BY <2>1, <2>2, <2>3, <2>4, <2>5 DEF SendInv, Unresolved, Open, Executed, TypeOK, OrderTypeOK
  <2>7. KillInv'
    BY <2>1, <2>3, <2>4, CidFacts DEF OrderInv, KillInv, TypeOK, OrderTypeOK
  <2>8. WriteAhead' /\ LedgerAgrees'
    BY <2>1, <2>3, <2>4 DEF OrderInv, WriteAhead, LedgerAgrees, Executed, TypeOK, OrderTypeOK
  <2>9. QED
    BY <2>6, <2>7, <2>8 DEF OrderInv
<1>5. QED
  BY <1>1, <1>2, <1>3, <1>4 DEF SendStep

(* The steps of everyone else.  A kill switch SELL touches only kill ids,  *)
(* and its row is written only with the final state of the order.          *)
LEMMA OrderInvOther ==
  ASSUME TypeOK, OrderInv, Crash \/ Restart \/ OwnerStep \/ KillStep \/ ExchangeStep \/ WorldStep
  PROVE  OrderInv'
<1> USE DEF dbVars, orderVars, exchVars, localVars, workerVars
<1>1. CASE Crash \/ Restart
  <2>1. todo' \subseteq Unresolved
    BY <1>1 DEF Crash, Restart, OrderInv, SendInv
  <2>2. QED
    BY <1>1, <2>1, OrderInvQuiet DEF Crash, Restart
<1>2. CASE OwnerStep \/ WorldStep
  BY <1>2, OrderInvQuiet
  DEF OwnerStep, Start, Stop, Revoke, Authorize, StoreKey, WorldStep, PriceMoves, CandleCloses, MinutePasses
<1>3. ASSUME NEW close \in BOOLEAN, KillBegin(close)
      PROVE  OrderInv'
  <2>1. UNCHANGED <<orderStatus, exch, pc, cur, todo>> /\ kill'.at = kill.at + 1
    BY <1>3 DEF KillBegin, NoKill
  <2>2. kill.at \in Nat /\ kill.pc = "idle" /\ MaxKills \in Nat
    BY <1>3, BoundsAssumption DEF KillBegin, TypeOK, OwnerTypeOK
  <2>3. KillInv'
    <3>1. \A n \in 1 .. MaxKills : n > kill'.at \/ n = kill'.at => n > kill.at
      BY <2>1, <2>2
    <3>2. QED
      BY <2>1, <3>1 DEF OrderInv, KillInv
  <2>4. QED
    BY <2>1, <2>3 DEF OrderInv, SendInv, WriteAhead, LedgerAgrees, Unresolved
<1>4. CASE KillSell
  <2>1. kill.at \in 1 .. MaxKills /\ <<"k", kill.at>> \in KillCid /\ <<"k", kill.at>> \in Cid
    BY <1>4, CidFacts, BoundsAssumption DEF KillSell, TypeOK, OwnerTypeOK
  <2>2. orderStatus[<<"k", kill.at>>] = "none"
    BY <1>4, <2>1 DEF KillSell, OrderInv, KillInv
  <2>3. /\ exch' = [exch EXCEPT ![<<"k", kill.at>>] = "inflight"]
        /\ UNCHANGED <<orderStatus, pc, cur, todo>> /\ kill'.at = kill.at
    BY <1>4 DEF KillSell, TypeOK, OwnerTypeOK
  <2>4. \A c \in EngineCid : exch'[c] = exch[c]
    BY <2>1, <2>3, CidFacts DEF TypeOK, OrderTypeOK
  <2>5. SendInv'
    BY <2>3, <2>4 DEF OrderInv, SendInv, Unresolved, TypeOK, WorkerTypeOK
  <2>6. KillInv'
    <3>1. kill.pc = "close" /\ kill'.pc = "await"
      BY <1>4 DEF KillSell, TypeOK, OwnerTypeOK
    <3>2. ASSUME NEW n \in 1 .. MaxKills, n > kill.at
          PROVE  exch'[<<"k", n>>] = exch[<<"k", n>>]
      BY <2>1, <2>3, <3>2, CidFacts DEF TypeOK, OrderTypeOK
    <3>3. QED
      BY <2>3, <3>1, <3>2 DEF OrderInv, KillInv
  <2>7. WriteAhead' /\ LedgerAgrees'
    BY <2>1, <2>2, <2>3, <2>4, CidFacts DEF OrderInv, WriteAhead, LedgerAgrees, Executed, TypeOK, OrderTypeOK
  <2>8. QED
    BY <2>5, <2>6, <2>7 DEF OrderInv
<1>5. CASE KillRecord
  <2> DEFINE k == <<"k", kill.at>>
  <2>1. kill.at \in 1 .. MaxKills /\ k \in KillCid /\ k \in Cid /\ k \notin EngineCid
    BY <1>5, CidFacts, BoundsAssumption DEF KillRecord, TypeOK, OwnerTypeOK
  <2>2. /\ exch[k] \in Executed /\ UNCHANGED <<exch, pc, cur, todo>> /\ kill' = NoKill(kill.at)
        /\ orderStatus' = orderStatus \/ orderStatus' = [orderStatus EXCEPT ![k] = exch[k]]
    BY <1>5 DEF KillRecord
  <2>3. Unresolved' = Unresolved /\ \A c \in EngineCid : orderStatus'[c] = orderStatus[c]
    BY <2>1, <2>2, CidFacts DEF Unresolved, Open, Executed, TypeOK, OrderTypeOK
  <2>4. SendInv'
    BY <2>2, <2>3 DEF OrderInv, SendInv, TypeOK, WorkerTypeOK
  <2>5. KillInv'
    <3>1. kill'.pc = "idle" /\ kill'.at = kill.at /\ UNCHANGED exch
      BY <2>2 DEF NoKill
    <3>2. ASSUME NEW n \in 1 .. MaxKills, n > kill.at
          PROVE  orderStatus'[<<"k", n>>] = orderStatus[<<"k", n>>]
      BY <2>1, <2>2, <3>2, CidFacts DEF TypeOK, OrderTypeOK
    <3>3. ASSUME NEW n \in 1 .. MaxKills, n > kill'.at \/ (n = kill'.at /\ kill'.pc # "idle")
          PROVE  orderStatus'[<<"k", n>>] = "none" /\ exch'[<<"k", n>>] = "absent"
      <4>1. n > kill.at
        BY <3>1, <3>3
      <4>2. orderStatus[<<"k", n>>] = "none" /\ exch[<<"k", n>>] = "absent"
        BY <4>1 DEF OrderInv, KillInv
      <4>3. QED
        BY <3>1, <3>2, <4>1, <4>2
    <3>4. QED
      BY <3>1, <3>3 DEF KillInv
  <2>6. WriteAhead' /\ LedgerAgrees'
    BY <2>1, <2>2, <2>3 DEF OrderInv, WriteAhead, LedgerAgrees, Executed, TypeOK, OrderTypeOK
  <2>7. QED
    BY <2>4, <2>5, <2>6 DEF OrderInv
<1>6. CASE KillFails
  <2>1. UNCHANGED <<orderStatus, exch, pc, cur, todo>> /\ kill' = NoKill(kill.at)
    BY <1>6 DEF KillFails
  <2>2. QED
    BY <2>1 DEF OrderInv, SendInv, KillInv, WriteAhead, LedgerAgrees, Unresolved, NoKill
<1>7. ASSUME NEW c \in Cid, Fill(c) \/ NotFilled(c)
      PROVE  OrderInv'
  <2>1. PICK end \in {"refused", "lost"} \cup Executed : exch' = [exch EXCEPT ![c] = end]
    BY <1>7, OutcomesAssumption DEF Fill, NotFilled, Executed
  <2>2. exch[c] = "inflight" /\ UNCHANGED <<orderStatus, pc, cur, todo, kill>>
    BY <1>7 DEF Fill, NotFilled
  <2>3. \A d \in Cid : /\ exch'[d] = "absent" <=> exch[d] = "absent"
                       /\ exch[d] # "inflight" => exch'[d] = exch[d]
    BY <2>1, <2>2 DEF Executed, TypeOK, OrderTypeOK
  <2>4. SendInv'
    BY <2>2, <2>3, CidFacts DEF OrderInv, SendInv, Unresolved, TypeOK, WorkerTypeOK
  <2>5. KillInv' /\ WriteAhead'
    BY <2>2, <2>3, CidFacts DEF OrderInv, KillInv, WriteAhead
  <2>6. LedgerAgrees'
    BY <2>2, <2>3 DEF OrderInv, LedgerAgrees, Executed
  <2>7. QED
    BY <2>4, <2>5, <2>6 DEF OrderInv
<1>8. QED
  BY <1>1, <1>2, <1>3, <1>4, <1>5, <1>6, <1>7 DEF KillStep, ExchangeStep

(* One order in doubt at most, rows before requests, closed rows true: the *)
(* invariant of the sending protocol, under every crash and every race.    *)
THEOREM OrdersCorrect == Spec => []OrderInv
<1>1. TypeOK /\ OrderInv /\ [Next]_vars => OrderInv'
  <2>1. CASE TypeOK /\ OrderInv /\ Next
    BY <2>1, OrderInvTick, OrderInvSend, OrderInvOther DEF Next
  <2>2. CASE TypeOK /\ OrderInv /\ UNCHANGED vars
    BY <2>2, OrderInvQuiet DEF vars, dbVars, workerVars, exchVars
  <2>3. QED
    BY <2>1, <2>2
<1>2. QED
  BY <1>1, OrderInvInit, TypeCorrect, PTL DEF Spec

(* The engine never has two orders whose outcome it does not know. *)
THEOREM OneUnresolved == Spec => []AtMostOneUnresolved
<1>1. OrderInv => AtMostOneUnresolved
  <2> SUFFICES ASSUME OrderInv PROVE AtMostOneUnresolved
    OBVIOUS
  <2>1. CASE Unresolved = {}
    BY <2>1, FS_EmptySet DEF AtMostOneUnresolved
  <2>2. CASE Unresolved # {}
    <3>1. PICK c \in Unresolved : TRUE
      BY <2>2
    <3>2. Unresolved = {c}
      BY <3>1 DEF OrderInv, SendInv
    <3>3. Cardinality(Unresolved) = 1
      BY <3>2, FS_Singleton
    <3>4. QED
      BY <3>3 DEF AtMostOneUnresolved
  <2>3. QED
    BY <2>1, <2>2
<1>2. QED
  BY <1>1, OrdersCorrect, PTL

(* No order of a tick is at the exchange without a row in the database. *)
THEOREM RowsFirst == Spec => []WriteAhead
<1>1. OrderInv => WriteAhead
  BY DEF OrderInv
<1>2. QED
  BY <1>1, OrdersCorrect, PTL

(* What a closed row says is what happened at the exchange. *)
THEOREM ClosedRowsTrue == Spec => []LedgerAgrees
<1>1. OrderInv => LedgerAgrees
  BY DEF OrderInv
<1>2. QED
  BY <1>1, OrdersCorrect, PTL

(* The steps that change a row: one that makes it, one that learns or      *)
(* doubts the fate of the open order, one that records the SELL of the     *)
(* kill switch.                                                            *)
LEMMA RowSteps ==
  ASSUME TypeOK, OrderInv, Next
  PROVE  \/ UNCHANGED orderStatus
         \/ \E c \in Cid, st \in {"pending", "unknown"} \cup Final :
              /\ orderStatus' = [orderStatus EXCEPT ![c] = st]
              /\ orderStatus[c] \in {"none"} \cup Open
<1> USE DEF dbVars, orderVars
<1> DEFINE Goal == \/ UNCHANGED orderStatus
                  \/ \E c \in Cid, st \in {"pending", "unknown"} \cup Final :
                       /\ orderStatus' = [orderStatus EXCEPT ![c] = st]
                       /\ orderStatus[c] \in {"none"} \cup Open
<1>1. ASSUME NEW c \in EngineCid, QueryFails(c) \/ QueryOrder(c)
      PROVE  Goal
  <2>1. CASE QueryFails(c)
    BY <2>1 DEF QueryFails
  <2>2. CASE QueryOrder(c)
    <3>1. c \in Cid /\ orderStatus[c] \in Open
      BY <2>2 DEF QueryOrder, OrderInv, SendInv, Unresolved
    <3>2. Answer(c) \in Final
      BY DEF Answer, Executed, Final
    <3>3. QED
      BY <2>2, <3>1, <3>2 DEF QueryOrder
  <2>3. QED
    BY <1>1, <2>1, <2>2
<1>2. CASE TickStep
  <2>1. CASE \/ CycleStart \/ VerifyKey \/ UnsafeKey \/ ReadQuote \/ CallFails \/ GateStopped \/ Gate
             \/ BookReconciled \/ WaitingReconcile \/ NoAuthorization \/ Plan
             \/ NoFreshCandle \/ StrategyFails \/ TakeCandle \/ RiskCheck
    BY <2>1
    DEF CycleStart, VerifyKey, UnsafeKey, ReadQuote, CallFails, GateStopped, Gate, BookReconciled,
        WaitingReconcile, NoAuthorization, Plan, NoFreshCandle, StrategyFails, TakeCandle, RiskCheck
  <2>2. QED
    BY <1>1, <1>2, <2>1 DEF TickStep
<1>3. CASE WriteOrder
  <2>1. cur \in Cid /\ orderStatus[cur] = "none"
    BY <1>3, CidFacts DEF WriteOrder, NewRow, TypeOK, WorkerTypeOK
  <2>2. QED
    BY <1>3, <2>1 DEF WriteOrder
<1>4. CASE OrderAnswered \/ OrderRejected \/ OrderUnknown
  <2>1. cur \in Cid /\ orderStatus[cur] = "pending"
    BY <1>4, CidFacts DEF OrderAnswered, OrderRejected, OrderUnknown, OrderInv, SendInv, TypeOK, WorkerTypeOK
  <2>2. PICK st \in {"unknown"} \cup Final : orderStatus' = [orderStatus EXCEPT ![cur] = st]
    BY <1>4 DEF OrderAnswered, OrderRejected, OrderUnknown, TimeoutStatus, Executed, Final
  <2>3. QED
    BY <2>1, <2>2 DEF Open
<1>5. CASE OrderExists \/ PostOrder \/ BookOrder \/ HaltAfterSend \/ Crash \/ Restart
  BY <1>5 DEF OrderExists, PostOrder, BookOrder, HaltAfterSend, Crash, Restart
<1>6. CASE KillRecord
  <2>1. <<"k", kill.at>> \in Cid /\ orderStatus[<<"k", kill.at>>] = "none"
    BY <1>6, CidFacts, BoundsAssumption DEF KillRecord, OrderInv, KillInv, TypeOK, OwnerTypeOK
  <2>2. exch[<<"k", kill.at>>] \in Final
    BY <1>6 DEF KillRecord, Executed, Final
  <2>3. QED
    BY <1>6, <2>1, <2>2 DEF KillRecord
<1>7. CASE OwnerStep \/ (\E close \in BOOLEAN : KillBegin(close)) \/ KillSell \/ KillFails
           \/ ExchangeStep \/ WorldStep
  BY <1>7
  DEF OwnerStep, Start, Stop, Revoke, Authorize, StoreKey, KillBegin, KillSell, KillFails,
      ExchangeStep, Fill, NotFilled, WorldStep, PriceMoves, CandleCloses, MinutePasses
<1>8. QED
  BY <1>2, <1>3, <1>4, <1>5, <1>6, <1>7 DEF Next, SendStep, KillStep

(* A closed row never changes again. *)
THEOREM ClosedForever == Spec => FinalForever
<1> DEFINE Kept == \A c \in Cid : orderStatus[c] \in Final => orderStatus'[c] = orderStatus[c]
<1>1. TypeOK /\ OrderInv /\ [Next]_vars => [Kept]_orderStatus
  <2>1. CASE TypeOK /\ OrderInv /\ Next
    BY <2>1, RowSteps DEF TypeOK, OrderTypeOK, Open, Final
  <2>2. CASE UNCHANGED vars
    BY <2>2 DEF vars, dbVars
  <2>3. QED
    BY <2>1, <2>2
<1>2. QED
  BY <1>1, TypeCorrect, OrdersCorrect, PTL DEF Spec, FinalForever

(* No client order id leaves twice: the tick sends an id it has just made  *)
(* a row for, the kill switch one that was never used.                     *)
THEOREM NoResend == Spec => SentOnce
<1> DEFINE Once == \A c \in Cid : exch[c] # "absent" /\ exch'[c] # exch[c] => exch'[c] # "inflight"
<1>1. ASSUME TypeOK, OrderInv, NEW c \in Cid, exch[c] = "absent", exch' = [exch EXCEPT ![c] = "inflight"]
      PROVE  Once
  BY <1>1 DEF TypeOK, OrderTypeOK
<1>2. TypeOK /\ OrderInv /\ [Next]_vars => [Once]_exch
  <2> SUFFICES ASSUME TypeOK, OrderInv, [Next]_vars
               PROVE  Once \/ UNCHANGED exch
    OBVIOUS
  <2> USE DEF exchVars
  <2>1. CASE PostOrder
    <3>1. cur \in Cid /\ exch[cur] = "absent"
      BY <2>1, CidFacts DEF PostOrder, OrderInv, SendInv, TypeOK, WorkerTypeOK
    <3>2. QED
      BY <1>1, <2>1, <3>1 DEF PostOrder
  <2>2. CASE KillSell
    <3>1. <<"k", kill.at>> \in Cid /\ exch[<<"k", kill.at>>] = "absent"
      BY <2>2, CidFacts, BoundsAssumption DEF KillSell, OrderInv, KillInv, TypeOK, OwnerTypeOK
    <3>2. QED
      BY <1>1, <2>2, <3>1 DEF KillSell
  <2>3. ASSUME NEW c \in Cid, Fill(c) \/ NotFilled(c)
        PROVE  Once
    <3>1. PICK end \in {"refused", "lost"} \cup Executed : exch' = [exch EXCEPT ![c] = end]
      BY <2>3, OutcomesAssumption DEF Fill, NotFilled, Executed
    <3>2. QED
      BY <3>1 DEF Executed, TypeOK, OrderTypeOK
  <2>4. CASE TickStep
    BY <2>4
    DEF TickStep, CycleStart, VerifyKey, UnsafeKey, ReadQuote, CallFails, GateStopped, Gate, QueryFails,
        QueryOrder, BookReconciled, WaitingReconcile, NoAuthorization, Plan, NoFreshCandle,
        StrategyFails, TakeCandle, RiskCheck
  <2>5. CASE \/ WriteOrder \/ OrderExists \/ OrderAnswered \/ OrderRejected \/ OrderUnknown
             \/ BookOrder \/ HaltAfterSend \/ Crash \/ Restart
    BY <2>5 DEF WriteOrder, OrderExists, OrderAnswered, OrderRejected, OrderUnknown, BookOrder,
                HaltAfterSend, Crash, Restart
  <2>6. CASE OwnerStep \/ (\E close \in BOOLEAN : KillBegin(close)) \/ KillRecord \/ KillFails \/ WorldStep
    BY <2>6 DEF OwnerStep, Start, Stop, Revoke, Authorize, StoreKey, KillBegin, KillRecord, KillFails,
                WorldStep, PriceMoves, CandleCloses, MinutePasses
  <2>7. CASE UNCHANGED vars
    BY <2>7 DEF vars
  <2>8. QED
    BY <2>1, <2>2, <2>3, <2>4, <2>5, <2>6, <2>7 DEF Next, SendStep, KillStep, ExchangeStep
<1>3. QED
  BY <1>2, TypeCorrect, OrdersCorrect, PTL DEF Spec, SentOnce

-----------------------------------------------------------------------------
(* The refinement. *)

LEMMA LedgerInit == Init => Ledger!Init
BY CidFacts DEF Init, Ledger!Init

(* A change of one order, seen through the refinement mapping. *)
LEMMA RowView ==
  ASSUME TypeOK, NEW c \in EngineCid, NEW st, orderStatus' = [orderStatus EXCEPT ![c] = st]
  PROVE  [d \in EngineCid |-> orderStatus'[d]] = [[d \in EngineCid |-> orderStatus[d]] EXCEPT ![c] = st]
<1>1. \A d \in EngineCid : d \in DOMAIN orderStatus
  BY CidFacts DEF TypeOK, OrderTypeOK
<1>2. \A d \in EngineCid : orderStatus'[d] = IF d = c THEN st ELSE orderStatus[d]
  BY <1>1
<1>3. QED
  BY <1>2

LEMMA FateView ==
  ASSUME TypeOK, NEW c \in EngineCid, NEW st, exch' = [exch EXCEPT ![c] = st]
  PROVE  [d \in EngineCid |-> exch'[d]] = [[d \in EngineCid |-> exch[d]] EXCEPT ![c] = st]
<1>1. \A d \in EngineCid : d \in DOMAIN exch
  BY CidFacts DEF TypeOK, OrderTypeOK
<1>2. \A d \in EngineCid : exch'[d] = IF d = c THEN st ELSE exch[d]
  BY <1>1
<1>3. QED
  BY <1>2

(* Every step of the engine, of the owner or of the exchange is a step of  *)
(* the ledger or leaves it alone.                                          *)
LEMMA LedgerStep ==
  ASSUME TypeOK, OrderInv, Next
  PROVE  [Ledger!Next]_<<[c \in EngineCid |-> orderStatus[c]], [c \in EngineCid |-> exch[c]]>>
<1> DEFINE row == [c \in EngineCid |-> orderStatus[c]]
           fate == [c \in EngineCid |-> exch[c]]
           Goal == Ledger!Next \/ (row' = row /\ fate' = fate)
<1> USE DEF dbVars, orderVars, exchVars, localVars, workerVars
<1> SUFFICES Goal
  OBVIOUS
<1>1. CASE UNCHANGED <<orderStatus, exch>>
  BY <1>1
<1>2. ASSUME NEW c \in EngineCid, QueryFails(c) \/ QueryOrder(c)
      PROVE  Goal
  <2>1. CASE QueryFails(c)
    BY <1>1, <2>1 DEF QueryFails
  <2>2. CASE QueryOrder(c)
    <3>1. row[c] \in Open /\ fate[c] # "inflight" /\ fate' = fate
      BY <2>2 DEF QueryOrder, OrderInv, SendInv, Unresolved
    <3>2. row' = [row EXCEPT ![c] = Answer(c)]
      BY <2>2, RowView DEF QueryOrder
    <3>3. Ledger!Settle(c)
      BY <3>1, <3>2 DEF Ledger!Settle, Ledger!Open, Ledger!Executed, Open, Executed, Answer
    <3>4. QED
      BY <3>3 DEF Ledger!Next
  <2>3. QED
    BY <1>2, <2>1, <2>2
<1>3. CASE TickStep
  <2>1. CASE \/ CycleStart \/ VerifyKey \/ UnsafeKey \/ ReadQuote \/ CallFails \/ GateStopped \/ Gate
             \/ BookReconciled \/ WaitingReconcile \/ NoAuthorization \/ Plan
             \/ NoFreshCandle \/ StrategyFails \/ TakeCandle \/ RiskCheck
    BY <1>1, <2>1
    DEF CycleStart, VerifyKey, UnsafeKey, ReadQuote, CallFails, GateStopped, Gate, BookReconciled,
        WaitingReconcile, NoAuthorization, Plan, NoFreshCandle, StrategyFails, TakeCandle, RiskCheck
  <2>2. QED
    BY <1>2, <1>3, <2>1 DEF TickStep
<1>4. ASSUME WriteOrder \/ PostOrder \/ OrderAnswered \/ OrderRejected \/ OrderUnknown
      PROVE  \E c \in EngineCid : c = cur
  BY <1>4 DEF WriteOrder, PostOrder, OrderAnswered, OrderRejected, OrderUnknown, TypeOK, WorkerTypeOK
<1>5. CASE WriteOrder
  <2>0. PICK c \in EngineCid : c = cur
    BY <1>4, <1>5
  <2>1. \A d \in EngineCid : row[d] \notin Open
    BY <1>5, CidFacts DEF WriteOrder, OrderInv, SendInv, Unresolved
  <2>2. row[c] = "none" /\ fate' = fate
    BY <2>0, <1>5 DEF WriteOrder, NewRow
  <2>3. row' = [row EXCEPT ![c] = "pending"]
    BY <2>0, <1>5, RowView DEF WriteOrder
  <2>4. Ledger!Record(c)
    BY <2>1, <2>2, <2>3 DEF Ledger!Record, Ledger!Open, Open
  <2>5. QED
    BY <2>4 DEF Ledger!Next
<1>6. CASE PostOrder
  <2>0. PICK c \in EngineCid : c = cur
    BY <1>4, <1>6
  <2>1. row[c] = "pending" /\ fate[c] = "absent" /\ row' = row
    BY <2>0, <1>6 DEF PostOrder, OrderInv, SendInv
  <2>2. fate' = [fate EXCEPT ![c] = "inflight"]
    BY <2>0, <1>6, FateView DEF PostOrder
  <2>3. Ledger!Send(c)
    BY <2>1, <2>2 DEF Ledger!Send
  <2>4. QED
    BY <2>3 DEF Ledger!Next
<1>7. CASE OrderAnswered \/ OrderRejected
  <2>0. PICK c \in EngineCid : c = cur
    BY <1>4, <1>7
  <2>1. row[c] = "pending" /\ fate[c] \in Executed \cup {"refused"} /\ fate' = fate
    BY <2>0, <1>7 DEF OrderAnswered, OrderRejected, OrderInv, SendInv
  <2>2. row' = [row EXCEPT ![c] = IF fate[c] \in Executed THEN fate[c] ELSE "rejected"]
    BY <2>0, <1>7, RowView DEF OrderAnswered, OrderRejected, Executed
  <2>3. Ledger!Settle(c)
    BY <2>1, <2>2 DEF Ledger!Settle, Ledger!Open, Ledger!Executed, Executed
  <2>4. QED
    BY <2>3 DEF Ledger!Next
<1>8. CASE OrderUnknown
  <2>0. PICK c \in EngineCid : c = cur
    BY <1>4, <1>8
  <2>1. row[c] = "pending" /\ fate[c] # "absent" /\ fate' = fate
    BY <2>0, <1>8 DEF OrderUnknown, OrderInv, SendInv
  <2>2. row' = [row EXCEPT ![c] = "unknown"]
    BY <2>0, <1>8, RowView DEF OrderUnknown, TimeoutStatus
  <2>3. Ledger!Doubt(c)
    BY <2>1, <2>2 DEF Ledger!Doubt
  <2>4. QED
    BY <2>3 DEF Ledger!Next
<1>9. CASE OrderExists \/ BookOrder \/ HaltAfterSend \/ Crash \/ Restart
  BY <1>1, <1>9 DEF OrderExists, BookOrder, HaltAfterSend, Crash, Restart
<1>10. CASE KillSell \/ KillRecord
  <2>1. <<"k", kill.at>> \notin EngineCid
    BY CidFacts DEF EngineCid
  <2>2. \A c \in EngineCid : orderStatus'[c] = orderStatus[c] /\ exch'[c] = exch[c]
    BY <1>10, <2>1, CidFacts DEF KillSell, KillRecord, TypeOK, OrderTypeOK
  <2>3. QED
    BY <2>2
<1>11. ASSUME NEW c \in Cid, Fill(c) \/ NotFilled(c)
       PROVE  Goal
  <2>1. PICK end \in {"refused", "lost"} \cup Executed : exch' = [exch EXCEPT ![c] = end]
    BY <1>11, OutcomesAssumption DEF Fill, NotFilled, Executed
  <2>2. exch[c] = "inflight" /\ row' = row
    BY <1>11 DEF Fill, NotFilled
  <2>3. CASE c \in EngineCid
    <3>1. fate' = [fate EXCEPT ![c] = end] /\ fate[c] = "inflight"
      BY <2>1, <2>2, <2>3, FateView
    <3>2. Ledger!Resolve(c)
      BY <2>1, <2>2, <3>1 DEF Ledger!Resolve, Ledger!Executed, Executed
    <3>3. QED
      BY <2>3, <3>2 DEF Ledger!Next
  <2>4. CASE c \notin EngineCid
    <3>1. \A d \in EngineCid : exch'[d] = exch[d]
      BY <2>1, <2>4, CidFacts DEF TypeOK, OrderTypeOK
    <3>2. QED
      BY <2>2, <3>1
  <2>5. QED
    BY <2>3, <2>4
<1>12. CASE OwnerStep \/ (\E close \in BOOLEAN : KillBegin(close)) \/ KillFails \/ WorldStep
  BY <1>1, <1>12
  DEF OwnerStep, Start, Stop, Revoke, Authorize, StoreKey, KillBegin, KillFails,
      WorldStep, PriceMoves, CandleCloses, MinutePasses
<1>13. QED
  BY <1>3, <1>5, <1>6, <1>7, <1>8, <1>9, <1>10, <1>11, <1>12 DEF Next, SendStep, KillStep, ExchangeStep

(* The live engine keeps the promises of the abstract order ledger. *)
THEOREM RefinesLedger == Spec => LedgerSpec
<1>1. TypeOK /\ OrderInv /\ [Next]_vars
        => [Ledger!Next]_<<[c \in EngineCid |-> orderStatus[c]], [c \in EngineCid |-> exch[c]]>>
  <2>1. CASE TypeOK /\ OrderInv /\ Next
    BY <2>1, LedgerStep
  <2>2. CASE UNCHANGED vars
    BY <2>2 DEF vars, dbVars, exchVars
  <2>3. QED
    BY <2>1, <2>2
<1>2. QED
  BY <1>1, LedgerInit, TypeCorrect, OrdersCorrect, PTL DEF Spec, LedgerSpec, Ledger!Spec

-----------------------------------------------------------------------------
(* The position.  What the account holds and the open trade drift apart    *)
(* between the execution of an order and its booking, and for good when a  *)
(* SELL of the kill switch loses its row.  The invariant says by how much. *)

IsFlat == \A p \in Pairs : holding[p] = 0
Matches(t) == \A p \in Pairs : holding[p] = IF t.pair = p THEN t.qty ELSE 0

(* The orders of ticks that have executed and are not booked.              *)
Unbooked ==
  {c \in EngineCid : /\ exch[c] = "filled"
                     /\ c \in Unresolved \/ (pc \in {"book", "rbook"} /\ c = cur)}
Booked(c) == IF IsBuy(c) THEN [pair |-> orderPair[c], qty |-> 1] ELSE NoTrade

(* A SELL of the kill switch that executed and has no row.                 *)
KillSold == \E c \in KillCid : orderStatus[c] = "none" /\ exch[c] = "filled"

(* The account holds what the trade will be once everything is booked, or  *)
(* a SELL of the kill switch has taken it.                                 *)
Agree ==
  \/ KillSold /\ IsFlat
  \/ /\ Unbooked = {} => Matches(trade)
     /\ \A c \in Unbooked : Matches(Booked(c))

(* While the kill switch has not recorded a SELL that executed, nothing is *)
(* held and a trade is open or about to be: nothing is bought meanwhile.   *)
KillFlat ==
  kill.pc = "await" /\ exch[<<"k", kill.at>>] = "filled" =>
    /\ IsFlat
    /\ Unbooked = {} => trade.qty = 1
    /\ \A c \in Unbooked : IsBuy(c)

(* A fill that is to be booked is of the only order there is.              *)
BookInv ==
  /\ \A c \in Cid : exch[c] # "expired"
  /\ pc \in {"book", "rbook"} => orderStatus[cur] = "filled" /\ Unresolved = {}

(* Whatever is sent, closed or sold has a pair.                            *)
Paired ==
  /\ trade = NoTrade \/ (trade.qty = 1 /\ trade.pair \in Pairs)
  /\ pc \in {"candle", "risk", "write"} => tick.pair \in Pairs
  /\ \A c \in EngineCid : orderStatus[c] # "none" => orderPair[c] \in Pairs
  /\ kill.pc # "idle" => kill.pair \in Pairs
  /\ \A c \in KillCid : exch[c] # "absent" => orderPair[c] \in Pairs

(* An entry that is decided, sent or unresolved is one without a trade.    *)
EntryAlone ==
  /\ pc \in {"candle", "risk"} /\ tick.open = 0 => trade = NoTrade
  /\ pc \in {"write", "post", "await", "book", "rbook"} /\ IsBuy(cur) => trade = NoTrade
  /\ \A c \in Unresolved : IsBuy(c) => trade = NoTrade

PositionInv == BookInv /\ Paired /\ EntryAlone /\ Agree /\ KillFlat

OnlyFills == "expired" \notin Outcomes
BooksSurvive == CrashPoints \cap {"book", "rbook"} = {}

LEMMA PositionInit == Init => PositionInv
<1> SUFFICES ASSUME Init PROVE PositionInv
  OBVIOUS
<1>1. /\ pc = "idle" /\ trade = NoTrade /\ kill.pc = "idle"
      /\ \A c \in Cid : orderStatus[c] = "none" /\ exch[c] = "absent"
      /\ \A p \in Pairs : holding[p] = 0
  BY DEF Init, NoKill
<1>2. Unresolved = {}
  BY <1>1 DEF Unresolved, Open
<1>3. Unbooked = {}
  BY <1>1, <1>2 DEF Unbooked
<1>4. Matches(trade)
  BY <1>1 DEF Matches, NoTrade
<1>5. QED
  BY <1>1, <1>2, <1>3, <1>4, CidFacts
  DEF PositionInv, BookInv, Paired, EntryAlone, Agree, KillFlat

(* What the earlier invariants say of the orders of a tick.                *)
LEMMA TickOrderFacts ==
  ASSUME TypeOK, OrderInv
  PROVE  /\ \A c \in EngineCid : exch[c] = "inflight" => c \in Unresolved
         /\ \A c \in KillCid : exch[c] \in {"inflight", "filled"} => orderStatus[c] \in {"none", "filled", "expired"}
         /\ pc \in {"rbook", "write", "post", "await", "book", "halt"} => cur \in EngineCid /\ cur \in Cid
         /\ Unresolved \subseteq EngineCid
         /\ \A c \in Cid : c \in EngineCid \/ c \in KillCid
<1>1. ASSUME NEW c \in EngineCid, exch[c] = "inflight" PROVE c \in Unresolved
  <2>1. c \in Cid /\ orderStatus[c] # "none"
    BY <1>1, CidFacts DEF OrderInv, WriteAhead
  <2>2. orderStatus[c] \in {"none"} \cup Open \cup Final
    BY <2>1 DEF TypeOK, OrderTypeOK
  <2>3. orderStatus[c] \notin Final
    BY <1>1, <2>1 DEF OrderInv, LedgerAgrees, Final, Executed
  <2>4. QED
    BY <2>1, <2>2, <2>3 DEF Unresolved
<1>2. ASSUME NEW c \in KillCid, exch[c] \in {"inflight", "filled"}
      PROVE  orderStatus[c] \in {"none", "filled", "expired"}
  <2>1. c \in Cid /\ orderStatus[c] \in {"none"} \cup Final
    BY CidFacts DEF TypeOK, OrderTypeOK
  <2>2. QED
    BY <1>2, <2>1 DEF OrderInv, LedgerAgrees, Final, Executed
<1>3. QED
  BY <1>1, <1>2, CidFacts DEF TypeOK, OrderTypeOK, WorkerTypeOK, Unresolved

LEMMA BookInvStep ==
  ASSUME OnlyFills, TypeOK, OrderInv, PositionInv, Next
  PROVE  BookInv'
<1> USE DEF dbVars, orderVars, exchVars, localVars, workerVars, EndCycle
<1>1. BookInv /\ orderStatus \in [Cid -> {"none"} \cup Open \cup Final]
      /\ exch \in [Cid -> {"absent", "inflight", "refused", "lost"} \cup Executed]
  BY DEF PositionInv, TypeOK, OrderTypeOK
<1>2. ASSUME UNCHANGED <<orderStatus, exch>>,
             UNCHANGED <<pc, cur>> \/ pc' \notin {"book", "rbook"}
      PROVE  BookInv'
  BY <1>1, <1>2 DEF BookInv, Unresolved
<1>3. ASSUME NEW c \in EngineCid, QueryOrder(c)
      PROVE  BookInv'
  <2>1. c \in Unresolved /\ c \in Cid /\ Answer(c) \notin Open
    BY <1>3, CidFacts DEF QueryOrder, OrderInv, SendInv, Answer, Executed, Open
  <2>2. orderStatus' = [orderStatus EXCEPT ![c] = Answer(c)] /\ UNCHANGED exch
    BY <1>3 DEF QueryOrder
  <2>3. Unresolved' = {}
    BY <1>1, <2>1, <2>2 DEF OrderInv, SendInv, Unresolved
  <2>4. (pc' = "rbook" /\ cur' = c /\ orderStatus'[c] = "filled") \/ pc' = "reconcile"
    BY <1>1, <1>3, <2>1, <2>2 DEF QueryOrder, BooksAnswer, Answer, Executed
  <2>5. QED
    BY <1>1, <2>2, <2>3, <2>4 DEF BookInv
<1>4. CASE WriteOrder \/ OrderRejected \/ OrderUnknown
  BY <1>1, <1>4 DEF WriteOrder, OrderRejected, OrderUnknown, BookInv
<1>5. CASE PostOrder
  BY <1>1, <1>5, TickOrderFacts DEF PostOrder, BookInv
<1>6. CASE OrderAnswered
  <2>1. cur \in Cid /\ cur \in EngineCid /\ cur \in Unresolved
    BY <1>6, TickOrderFacts DEF OrderAnswered, OrderInv, SendInv, Unresolved, Open
  <2>2. exch[cur] = "filled"
    BY <1>1, <1>6, <2>1 DEF OrderAnswered, BookInv, Executed
  <2>3. orderStatus' = [orderStatus EXCEPT ![cur] = "filled"] /\ UNCHANGED <<exch, cur>>
    BY <1>6, <2>2 DEF OrderAnswered
  <2>4. Unresolved' = {} /\ orderStatus'[cur] = "filled"
    BY <1>1, <2>1, <2>3 DEF OrderInv, SendInv, Unresolved, Open
  <2>5. QED
    BY <1>1, <2>3, <2>4 DEF BookInv
<1>7. CASE TickStep /\ ~\E c \in EngineCid : QueryOrder(c)
  <2>1. CASE CycleStart \/ VerifyKey \/ UnsafeKey \/ ReadQuote \/ CallFails \/ GateStopped \/ Gate
    BY <1>2, <2>1 DEF CycleStart, VerifyKey, UnsafeKey, ReadQuote, CallFails, GateStopped, Gate
  <2>2. ASSUME NEW c \in EngineCid, QueryFails(c)
        PROVE  BookInv'
    BY <1>2, <2>2 DEF QueryFails
  <2>3. CASE BookReconciled \/ WaitingReconcile \/ NoAuthorization \/ Plan \/ NoFreshCandle
             \/ StrategyFails \/ TakeCandle \/ RiskCheck
    BY <1>2, <2>3 DEF BookReconciled, WaitingReconcile, NoAuthorization, Plan, NoFreshCandle,
                      StrategyFails, TakeCandle, RiskCheck
  <2>4. QED
    BY <1>7, <2>1, <2>2, <2>3 DEF TickStep
<1>8. CASE OrderExists \/ BookOrder \/ HaltAfterSend \/ Crash \/ Restart
  BY <1>2, <1>8 DEF OrderExists, BookOrder, HaltAfterSend, Crash, Restart
<1>9. CASE OwnerStep \/ WorldStep \/ KillFails \/ \E close \in BOOLEAN : KillBegin(close)
  BY <1>2, <1>9 DEF OwnerStep, Start, Stop, Revoke, Authorize, StoreKey, WorldStep, PriceMoves,
                    CandleCloses, MinutePasses, KillFails, KillBegin
<1>10. CASE KillSell \/ KillRecord
  <2> DEFINE k == <<"k", kill.at>>
  <2>1. kill.at \in 1 .. MaxKills /\ k \in KillCid /\ k \in Cid /\ k \notin EngineCid
    BY <1>10, CidFacts, BoundsAssumption DEF KillSell, KillRecord, TypeOK, OwnerTypeOK
  <2>2. /\ UNCHANGED <<pc, cur>>
        /\ \/ UNCHANGED orderStatus /\ exch' = [exch EXCEPT ![k] = "inflight"]
           \/ UNCHANGED exch /\ orderStatus' = orderStatus
           \/ UNCHANGED exch /\ orderStatus' = [orderStatus EXCEPT ![k] = "filled"]
    BY <1>1, <1>10, <2>1 DEF KillSell, KillRecord, BookInv, Executed
  <2>3. \A c \in EngineCid : orderStatus'[c] = orderStatus[c]
    BY <1>1, <2>1, <2>2, CidFacts
  <2>4. Unresolved' = Unresolved
    BY <1>1, <2>1, <2>2, CidFacts DEF Unresolved, Open, TypeOK, OrderTypeOK
  <2>5. \A c \in Cid : exch'[c] # "expired"
    BY <1>1, <2>1, <2>2 DEF BookInv
  <2>6. QED
    BY <1>1, <2>2, <2>3, <2>4, <2>5, TickOrderFacts DEF BookInv
<1>11. ASSUME NEW c \in Cid, Fill(c) \/ NotFilled(c)
       PROVE  BookInv'
  <2>1. PICK end \in {"refused", "lost", "filled"} : exch' = [exch EXCEPT ![c] = end]
    BY <1>11, OutcomesAssumption DEF Fill, NotFilled, OnlyFills
  <2>2. UNCHANGED <<orderStatus, pc, cur>>
    BY <1>11 DEF Fill, NotFilled
  <2>3. QED
    BY <1>1, <2>1, <2>2 DEF BookInv, Unresolved
<1>12. QED
  BY <1>3, <1>4, <1>5, <1>6, <1>7, <1>8, <1>9, <1>10, <1>11
  DEF Next, TickStep, SendStep, KillStep, ExchangeStep

(* A booking in a state of the invariant: the trade is what was booked.    *)
LEMMA BookFacts ==
  ASSUME TypeOK, OrderInv, PositionInv, pc \in {"book", "rbook"}, Book(cur)
  PROVE  /\ trade' = Booked(cur)
         /\ cur \in EngineCid /\ exch[cur] = "filled" /\ orderPair[cur] \in Pairs
         /\ Unresolved = {} /\ Unbooked = {cur}
<1>1. cur \in EngineCid /\ cur \in Cid /\ orderStatus[cur] = "filled" /\ Unresolved = {}
  BY TickOrderFacts DEF PositionInv, BookInv
<1>2. exch[cur] = "filled" /\ orderPair[cur] \in Pairs
  BY <1>1 DEF OrderInv, LedgerAgrees, Executed, PositionInv, Paired
<1>3. Unbooked = {cur}
  BY <1>1, <1>2 DEF Unbooked
<1>4. IsBuy(cur) => trade = NoTrade
  BY DEF PositionInv, EntryAlone
<1>5. NoTrade.pair = NoPair
  BY DEF NoTrade
<1>6. trade' = Booked(cur)
  BY <1>2, <1>4, <1>5 DEF Book, Booked
<1>7. QED
  BY <1>1, <1>2, <1>3, <1>6

LEMMA PairedStep ==
  ASSUME TypeOK, OrderInv, PositionInv, Next
  PROVE  Paired'
<1> USE DEF dbVars, orderVars, exchVars, localVars, workerVars, EndCycle
<1>1. /\ Paired /\ BookInv
      /\ orderStatus \in [Cid -> {"none"} \cup Open \cup Final]
      /\ orderPair \in [Cid -> Pairs \cup {NoPair}]
      /\ exch \in [Cid -> {"absent", "inflight", "refused", "lost"} \cup Executed]
  BY DEF PositionInv, TypeOK, OrderTypeOK
<1>2. ASSUME UNCHANGED <<orderStatus, orderPair, trade, exch, kill>>,
             UNCHANGED <<pc, tick>> \/ pc' \notin {"candle", "risk", "write"} \/ tick'.pair \in Pairs
      PROVE  Paired'
  BY <1>1, <1>2 DEF Paired
<1>3. CASE CycleStart \/ VerifyKey \/ UnsafeKey \/ ReadQuote \/ CallFails \/ GateStopped \/ Gate
           \/ WaitingReconcile \/ NoAuthorization \/ NoFreshCandle \/ StrategyFails
  BY <1>2, <1>3 DEF CycleStart, VerifyKey, UnsafeKey, ReadQuote, CallFails, GateStopped, Gate,
                    WaitingReconcile, NoAuthorization, NoFreshCandle, StrategyFails
<1>4. CASE TakeCandle \/ RiskCheck
  <2>1. tick.pair \in Pairs
    BY <1>1, <1>4 DEF TakeCandle, RiskCheck, Paired
  <2>2. QED
    BY <1>2, <1>4, <2>1 DEF TakeCandle, RiskCheck
<1>5. CASE Plan
  <2>1. tick.held \in 1 .. Len(auths)
    BY <1>5 DEF Plan, TypeOK, WorkerTypeOK, OwnerTypeOK
  <2>2. auths[tick.held] \in AuthRow
    BY <2>1, ElementOfSeq DEF TypeOK, OwnerTypeOK
  <2>3. auths[tick.held].pair \in Pairs
    BY <2>2 DEF AuthRow
  <2>4. tick'.pair \in Pairs
    BY <1>5, <2>3 DEF Plan, TypeOK, WorkerTypeOK
  <2>5. QED
    BY <1>2, <1>5, <2>4 DEF Plan
<1>6. ASSUME NEW c \in EngineCid, QueryFails(c) \/ QueryOrder(c)
      PROVE  Paired'
  <2>1. CASE QueryFails(c)
    BY <1>2, <2>1 DEF QueryFails
  <2>2. CASE QueryOrder(c)
    <3>1. c \in Cid /\ orderStatus[c] # "none"
      BY <2>2 DEF QueryOrder, OrderInv, SendInv, Unresolved, Open
    <3>2. UNCHANGED <<orderPair, trade, exch, kill>> /\ pc' \notin {"candle", "risk", "write"}
          /\ \A d \in Cid : d # c => orderStatus'[d] = orderStatus[d]
      BY <1>1, <2>2, <3>1 DEF QueryOrder
    <3>3. \A d \in EngineCid : orderStatus'[d] # "none" => orderStatus[d] # "none"
      BY <3>1, <3>2, CidFacts
    <3>4. QED
      BY <1>1, <3>2, <3>3 DEF Paired
  <2>3. QED
    BY <1>6, <2>1, <2>2
<1>7. CASE BookReconciled \/ BookOrder
  <2>1. trade' = Booked(cur) /\ orderPair[cur] \in Pairs
    BY <1>7, BookFacts DEF BookReconciled, BookOrder
  <2>2. trade' = NoTrade \/ (trade'.qty = 1 /\ trade'.pair \in Pairs)
    BY <2>1 DEF Booked
  <2>3. UNCHANGED <<orderStatus, orderPair, exch, kill>> /\ pc' \notin {"candle", "risk", "write"}
    BY <1>7 DEF BookReconciled, BookOrder
  <2>4. QED
    BY <1>1, <2>2, <2>3 DEF Paired
<1>8. CASE OrderExists \/ HaltAfterSend \/ Crash \/ Restart
  BY <1>2, <1>8 DEF OrderExists, HaltAfterSend, Crash, Restart
<1>9. CASE WriteOrder \/ OrderAnswered \/ OrderRejected \/ OrderUnknown
  <2>1. cur \in EngineCid /\ cur \in Cid
    BY <1>9, TickOrderFacts DEF WriteOrder, OrderAnswered, OrderRejected, OrderUnknown
  <2>2. UNCHANGED <<trade, exch, kill>> /\ pc' \notin {"candle", "risk", "write"}
        /\ \A d \in Cid : d # cur => orderStatus'[d] = orderStatus[d] /\ orderPair'[d] = orderPair[d]
    BY <1>1, <1>9 DEF WriteOrder, OrderAnswered, OrderRejected, OrderUnknown
  <2>3. orderPair'[cur] \in Pairs
    <3>1. CASE WriteOrder
      BY <1>1, <2>1, <3>1 DEF WriteOrder, Paired
    <3>2. CASE OrderAnswered \/ OrderRejected \/ OrderUnknown
      <4>1. orderStatus[cur] = "pending" /\ UNCHANGED orderPair
        BY <3>2 DEF OrderAnswered, OrderRejected, OrderUnknown, OrderInv, SendInv
      <4>2. QED
        BY <1>1, <2>1, <4>1 DEF Paired
    <3>3. QED
      BY <1>9, <3>1, <3>2
  <2>4. \A c \in KillCid : c # cur /\ c \in Cid
    BY <2>1, CidFacts
  <2>5. QED
    BY <1>1, <2>1, <2>2, <2>3, <2>4, CidFacts DEF Paired
<1>10. CASE PostOrder
  <2>1. cur \in EngineCid /\ UNCHANGED <<orderStatus, orderPair, trade, kill>> /\ pc' = "await"
        /\ exch' = [exch EXCEPT ![cur] = "inflight"]
    BY <1>10, TickOrderFacts DEF PostOrder
  <2>2. \A c \in KillCid : exch'[c] = exch[c]
    BY <1>1, <2>1, CidFacts
  <2>3. QED
    BY <1>1, <2>1, <2>2 DEF Paired
<1>11. CASE OwnerStep \/ WorldStep
  BY <1>2, <1>11 DEF OwnerStep, Start, Stop, Revoke, Authorize, StoreKey, WorldStep, PriceMoves,
                     CandleCloses, MinutePasses
<1>12. ASSUME NEW close \in BOOLEAN, KillBegin(close)
       PROVE  Paired'
  <2>1. UNCHANGED <<orderStatus, orderPair, trade, exch, pc, tick>>
    BY <1>12 DEF KillBegin
  <2>2. kill'.pc # "idle" => trade.qty = 1 /\ kill'.pair = trade.pair
    BY <1>12 DEF KillBegin, NoKill
  <2>3. kill'.pc # "idle" => kill'.pair \in Pairs
    BY <1>1, <2>2 DEF Paired, NoTrade
  <2>4. QED
    BY <1>1, <2>1, <2>3 DEF Paired
<1>13. CASE KillFails
  BY <1>1, <1>13 DEF KillFails, NoKill, Paired
<1>14. CASE KillSell
  <2> DEFINE k == <<"k", kill.at>>
  <2>1. kill.at \in 1 .. MaxKills /\ k \in KillCid /\ k \in Cid /\ k \notin EngineCid
    BY <1>14, CidFacts, BoundsAssumption DEF KillSell, TypeOK, OwnerTypeOK
  <2>2. kill.pair \in Pairs
    BY <1>1, <1>14 DEF KillSell, Paired
  <2>3. /\ UNCHANGED <<orderStatus, trade, pc, tick>> /\ kill'.pair = kill.pair
        /\ exch' = [exch EXCEPT ![k] = "inflight"] /\ orderPair' = [orderPair EXCEPT ![k] = kill.pair]
    BY <1>14 DEF KillSell, TypeOK, OwnerTypeOK
  <2> HIDE DEF k
  <2>4. \A c \in EngineCid : orderPair'[c] = orderPair[c]
    BY <1>1, <2>1, <2>3, CidFacts
  <2>5. \A c \in KillCid : exch'[c] # "absent" => orderPair'[c] \in Pairs
    BY <1>1, <2>1, <2>2, <2>3, CidFacts DEF Paired
  <2>6. QED
    BY <1>1, <2>2, <2>3, <2>4, <2>5 DEF Paired
<1>15. CASE KillRecord
  <2> DEFINE k == <<"k", kill.at>>
  <2>1. kill.at \in 1 .. MaxKills /\ k \in KillCid /\ k \in Cid /\ k \notin EngineCid
    BY <1>15, CidFacts, BoundsAssumption DEF KillRecord, TypeOK, OwnerTypeOK
  <2>2. /\ UNCHANGED <<orderPair, exch, pc, tick>> /\ trade' = NoTrade /\ kill'.pc = "idle"
        /\ orderStatus' = orderStatus \/ orderStatus' = [orderStatus EXCEPT ![k] = exch[k]]
    BY <1>15 DEF KillRecord, NoKill
  <2> HIDE DEF k
  <2>3. \A c \in EngineCid : orderStatus'[c] = orderStatus[c]
    BY <1>1, <2>1, <2>2, CidFacts
  <2>4. QED
    BY <1>1, <2>2, <2>3 DEF Paired
<1>16. ASSUME NEW c \in Cid, Fill(c) \/ NotFilled(c)
       PROVE  Paired'
  <2>1. UNCHANGED <<orderStatus, orderPair, trade, kill, pc, tick>> /\ exch[c] = "inflight"
        /\ \A d \in Cid : d # c => exch'[d] = exch[d]
    BY <1>1, <1>16 DEF Fill, NotFilled
  <2>2. \A d \in KillCid : exch'[d] # "absent" => exch[d] # "absent"
    BY <2>1, CidFacts
  <2>3. QED
    BY <1>1, <2>1, <2>2 DEF Paired
<1>17. QED
  BY <1>3, <1>4, <1>5, <1>6, <1>7, <1>8, <1>9, <1>10, <1>11, <1>12, <1>13, <1>14, <1>15, <1>16
  DEF Next, TickStep, SendStep, KillStep, ExchangeStep

LEMMA EntryAloneStep ==
  ASSUME TypeOK, OrderInv, PositionInv, Next
  PROVE  EntryAlone'
<1> USE DEF dbVars, orderVars, exchVars, localVars, workerVars, EndCycle
<1>1. EntryAlone /\ BookInv /\ orderStatus \in [Cid -> {"none"} \cup Open \cup Final]
      /\ trade \in [pair : Pairs \cup {NoPair}, qty : {0, 1}]
  BY DEF PositionInv, TypeOK, OrderTypeOK
<1> DEFINE Sending == {"write", "post", "await", "book", "rbook"}
           Deciding == {"candle", "risk"}
<1>2. ASSUME trade' = trade \/ trade' = NoTrade, Unresolved' \subseteq Unresolved,
             \/ UNCHANGED <<pc, tick, cur>>
             \/ pc' \notin Sending \cup Deciding
             \/ pc' \in Sending /\ pc \in Sending /\ cur' = cur
             \/ pc' \in Deciding /\ pc \in Deciding /\ tick' = tick
      PROVE  EntryAlone'
  BY <1>1, <1>2 DEF EntryAlone
<1>3. CASE CycleStart \/ VerifyKey \/ UnsafeKey \/ ReadQuote \/ CallFails \/ GateStopped \/ Gate
           \/ WaitingReconcile \/ NoAuthorization \/ NoFreshCandle \/ StrategyFails \/ TakeCandle
           \/ OrderExists \/ HaltAfterSend \/ PostOrder \/ Crash \/ Restart
  <2>1. UNCHANGED <<trade, orderStatus>>
    BY <1>3 DEF CycleStart, VerifyKey, UnsafeKey, ReadQuote, CallFails, GateStopped, Gate,
      WaitingReconcile, NoAuthorization, NoFreshCandle, StrategyFails, TakeCandle, OrderExists,
      HaltAfterSend, PostOrder, Crash, Restart
  <2>2. \/ pc' \notin Sending \cup Deciding
        \/ pc' \in Sending /\ pc \in Sending /\ cur' = cur
        \/ pc' \in Deciding /\ pc \in Deciding /\ tick' = tick
    BY <1>3 DEF CycleStart, VerifyKey, UnsafeKey, ReadQuote, CallFails, GateStopped, Gate,
      WaitingReconcile, NoAuthorization, NoFreshCandle, StrategyFails, TakeCandle, OrderExists,
      HaltAfterSend, PostOrder, Crash, Restart
  <2>3. Unresolved' = Unresolved
    BY <2>1 DEF Unresolved
  <2>4. QED
    BY <1>2, <2>1, <2>2, <2>3
<1>4. ASSUME NEW c \in EngineCid, QueryFails(c) \/ QueryOrder(c)
      PROVE  EntryAlone'
  <2>1. CASE QueryFails(c)
    BY <1>2, <2>1 DEF QueryFails, Unresolved
  <2>2. CASE QueryOrder(c)
    <3>1. c \in Unresolved /\ c \in Cid /\ Answer(c) \notin Open
      BY <2>2, CidFacts DEF QueryOrder, OrderInv, SendInv, Answer, Executed, Open
    <3>2. Unresolved' = {}
      BY <1>1, <2>2, <3>1 DEF QueryOrder, OrderInv, SendInv, Unresolved
    <3>3. UNCHANGED trade /\ (pc' = "reconcile" \/ (pc' = "rbook" /\ cur' = c))
      BY <2>2 DEF QueryOrder
    <3>4. QED
      BY <1>1, <3>1, <3>2, <3>3 DEF EntryAlone
  <2>3. QED
    BY <1>4, <2>1, <2>2
<1>5. CASE BookReconciled \/ BookOrder
  <2>1. Unresolved' = {} /\ pc' \notin Sending \cup Deciding
    BY <1>5, BookFacts DEF BookReconciled, BookOrder, Unresolved
  <2>2. QED
    BY <2>1 DEF EntryAlone
<1>6. CASE Plan
  <2>1. Unresolved' = {} /\ UNCHANGED trade
    BY <1>6 DEF Plan, Blocking, Unresolved, Open
  <2>2. PICK hit \in StopTests : pc' = (IF SendsStop(hit) THEN "write" ELSE "candle")
                              /\ cur' = (IF SendsStop(hit) THEN <<"s", tick.at>> ELSE cur)
    BY <1>6 DEF Plan
  <2>3. pc' = "write" => ~IsBuy(cur')
    BY <2>2 DEF IsBuy
  <2>4. pc' \in {"write", "candle"}
    BY <2>2
  <2>5. tick'.open = trade.qty
    BY <1>6 DEF Plan, TypeOK, WorkerTypeOK
  <2>6. trade.qty = 0 => trade = NoTrade
    BY DEF PositionInv, Paired
  <2>7. IsBuy(cur)' = IsBuy(cur')
    BY DEF IsBuy
  <2>8. QED
    BY <2>1, <2>3, <2>4, <2>5, <2>6, <2>7 DEF EntryAlone
<1>7. CASE RiskCheck
  <2>1. Unresolved = {} /\ UNCHANGED <<trade, orderStatus>>
    BY <1>7 DEF RiskCheck, OrderInv, SendInv
  <2>2. \/ pc' = "write" /\ cur' = <<"x", lastCandle>>
        \/ pc' = "write" /\ cur' = <<"e", lastCandle>> /\ tick.open = 0
        \/ pc' = "idle"
    BY <1>7 DEF RiskCheck, MayEnter
  <2>3. pc = "risk"
    BY <1>7 DEF RiskCheck
  <2>4. pc' = "write" /\ IsBuy(cur') => trade = NoTrade
    BY <1>1, <2>2, <2>3 DEF EntryAlone, IsBuy
  <2>5. Unresolved' = {} /\ IsBuy(cur)' = IsBuy(cur') /\ pc' \in {"write", "idle"}
    BY <2>1, <2>2 DEF Unresolved, IsBuy
  <2>6. QED
    BY <2>1, <2>4, <2>5 DEF EntryAlone
<1>8. CASE WriteOrder
  <2>1. cur \in Cid /\ Unresolved = {} /\ UNCHANGED <<trade, cur>> /\ pc = "write" /\ pc' = "post"
        /\ orderStatus' = [orderStatus EXCEPT ![cur] = "pending"]
    BY <1>8, TickOrderFacts DEF WriteOrder, OrderInv, SendInv
  <2>2. Unresolved' \subseteq {cur}
    BY <1>1, <2>1 DEF Unresolved
  <2>3. IsBuy(cur) => trade = NoTrade
    BY <1>1, <2>1 DEF EntryAlone
  <2>4. QED
    BY <2>1, <2>2, <2>3 DEF EntryAlone, IsBuy
<1>9. CASE OrderAnswered \/ OrderRejected \/ OrderUnknown
  <2>1. /\ cur \in Cid /\ orderStatus[cur] \in Open /\ UNCHANGED <<trade, cur>> /\ pc = "await"
        /\ pc' \in {"book", "halt"}
        /\ \E st : orderStatus' = [orderStatus EXCEPT ![cur] = st]
    BY <1>9, TickOrderFacts
    DEF OrderAnswered, OrderRejected, OrderUnknown, OrderInv, SendInv, Open
  <2>2. Unresolved' \subseteq Unresolved
    BY <1>1, <2>1 DEF Unresolved
  <2>3. QED
    BY <1>1, <2>1, <2>2 DEF EntryAlone, IsBuy
<1>10. CASE OwnerStep \/ WorldStep \/ KillFails \/ \E close \in BOOLEAN : KillBegin(close)
  <2>1. UNCHANGED <<trade, orderStatus, pc, tick, cur>>
    BY <1>10 DEF OwnerStep, Start, Stop, Revoke, Authorize, StoreKey, WorldStep, PriceMoves,
                 CandleCloses, MinutePasses, KillFails, KillBegin
  <2>2. QED
    BY <1>2, <2>1 DEF Unresolved
<1>11. CASE KillSell
  <2>1. UNCHANGED <<trade, orderStatus, pc, tick, cur>>
    BY <1>11 DEF KillSell
  <2>2. QED
    BY <1>2, <2>1 DEF Unresolved
<1>12. CASE KillRecord
  <2> DEFINE k == <<"k", kill.at>>
  <2>1. /\ UNCHANGED <<pc, tick, cur>> /\ trade' = NoTrade /\ exch[k] \notin Open
        /\ orderStatus' = orderStatus \/ orderStatus' = [orderStatus EXCEPT ![k] = exch[k]]
    BY <1>12 DEF KillRecord, Open, Executed
  <2> HIDE DEF k
  <2>2. Unresolved' \subseteq Unresolved
    BY <1>1, <2>1 DEF Unresolved
  <2>3. QED
    BY <1>2, <2>1, <2>2
<1>13. ASSUME NEW c \in Cid, Fill(c) \/ NotFilled(c)
       PROVE  EntryAlone'
  <2>1. UNCHANGED <<trade, orderStatus, pc, tick, cur>>
    BY <1>13 DEF Fill, NotFilled
  <2>2. QED
    BY <1>2, <2>1 DEF Unresolved
<1>14. QED
  BY <1>3, <1>4, <1>5, <1>6, <1>7, <1>8, <1>9, <1>10, <1>11, <1>12, <1>13
  DEF Next, TickStep, SendStep, KillStep, ExchangeStep

(* A sale of what is held leaves nothing; a purchase from nothing leaves   *)
(* what is bought.                                                         *)
LEMMA SellFlattens ==
  ASSUME TypeOK, NEW t, t.qty \in {0, 1}, Matches(t),
         NEW p \in Pairs, holding[p] > 0, holding'[p] = holding[p] - 1,
         \A q \in Pairs : q # p => holding'[q] = holding[q]
  PROVE  IsFlat' /\ t.pair = p /\ t.qty = 1
<1>1. holding \in [Pairs -> Nat]
  BY DEF TypeOK, OrderTypeOK
<1>2. t.pair = p /\ t.qty = 1
  BY DEF Matches
<1>3. holding[p] = 1 /\ \A q \in Pairs : q # p => holding[q] = 0
  BY <1>2 DEF Matches
<1>4. QED
  BY <1>1, <1>2, <1>3 DEF IsFlat

LEMMA BuyFills ==
  ASSUME TypeOK, IsFlat, NEW p \in Pairs, holding' = [holding EXCEPT ![p] = @ + 1]
  PROVE  \A q \in Pairs : holding'[q] = IF p = q THEN 1 ELSE 0
BY DEF TypeOK, OrderTypeOK, IsFlat

(* Where the agreement is left alone.                                      *)
LEMMA AgreeKept ==
  ASSUME TypeOK, PositionInv, UNCHANGED <<holding, trade>>, Unbooked' = Unbooked,
         \A c \in Unbooked : orderPair'[c] = orderPair[c],
         \A c \in KillCid : orderStatus'[c] = orderStatus[c] /\ exch'[c] = exch[c],
         kill' = kill \/ kill'.pc # "await"
  PROVE  Agree' /\ KillFlat'
<1>1. kill.pc = "await" => <<"k", kill.at>> \in KillCid
  BY CidFacts, BoundsAssumption DEF TypeOK, OwnerTypeOK
<1>2. Agree /\ KillFlat
  BY DEF PositionInv
<1>3. KillFlat'
  BY <1>1, <1>2 DEF KillFlat, IsFlat
<1>4. \A c \in Unbooked : Booked(c)' = Booked(c)
  BY DEF Booked
<1>5. IsFlat' = IsFlat /\ Matches(trade)' = Matches(trade) /\ KillSold' = KillSold
  BY DEF IsFlat, Matches, KillSold
<1>6. ASSUME \A c \in Unbooked : Matches(Booked(c))
      PROVE  \A c \in Unbooked : Matches(Booked(c))'
  BY <1>4, <1>6 DEF Matches
<1>7. CASE KillSold /\ IsFlat
  BY <1>3, <1>5, <1>7 DEF Agree
<1>8. CASE (Unbooked = {} => Matches(trade)) /\ \A c \in Unbooked : Matches(Booked(c))
  BY <1>3, <1>5, <1>6, <1>8 DEF Agree
<1>9. QED
  BY <1>2, <1>3, <1>7, <1>8 DEF Agree

LEMMA AgreeQuiet ==
  ASSUME TypeOK, PositionInv,
         UNCHANGED <<orderStatus, orderPair, exch, holding, trade>>,
         UNCHANGED <<pc, cur>> \/ {pc, pc'} \cap {"book", "rbook"} = {},
         kill' = kill \/ kill'.pc # "await"
  PROVE  Agree' /\ KillFlat'
<1>1. Unresolved' = Unresolved
  BY DEF Unresolved
<1>2. Unbooked' = Unbooked
  BY <1>1 DEF Unbooked
<1>3. QED
  BY <1>2, AgreeKept

LEMMA AgreeSend ==
  ASSUME TypeOK, OrderInv, PositionInv,
         \/ WriteOrder \/ PostOrder \/ OrderAnswered \/ OrderRejected \/ OrderUnknown
         \/ \E c \in EngineCid : QueryOrder(c)
  PROVE  Agree' /\ KillFlat'
<1> USE DEF dbVars, orderVars, exchVars, localVars, workerVars, EndCycle
<1>1. /\ BookInv
      /\ orderStatus \in [Cid -> {"none"} \cup Open \cup Final]
      /\ orderPair \in [Cid -> Pairs \cup {NoPair}]
      /\ exch \in [Cid -> {"absent", "inflight", "refused", "lost"} \cup Executed]
  BY DEF PositionInv, TypeOK, OrderTypeOK
<1> DEFINE Goal == /\ Unbooked' = Unbooked
                   /\ \A c \in Unbooked : orderPair'[c] = orderPair[c]
                   /\ \A c \in KillCid : orderStatus'[c] = orderStatus[c] /\ exch'[c] = exch[c]
                   /\ UNCHANGED <<holding, trade, kill>>
<1>2. SUFFICES Goal
  BY AgreeKept
<1>3. CASE WriteOrder
  <2>1. /\ cur \in EngineCid /\ cur \in Cid /\ Unresolved = {} /\ orderStatus[cur] = "none"
        /\ pc = "write" /\ pc' = "post" /\ UNCHANGED <<cur, exch, holding, trade, kill>>
        /\ orderStatus' = [orderStatus EXCEPT ![cur] = "pending"]
        /\ orderPair' = [orderPair EXCEPT ![cur] = tick.pair]
    BY <1>3, TickOrderFacts DEF WriteOrder, NewRow, OrderInv, SendInv
  <2>2. exch[cur] = "absent"
    BY <2>1 DEF OrderInv, WriteAhead
  <2>3. Unresolved' \subseteq {cur}
    BY <1>1, <2>1 DEF Unresolved
  <2>4. Unbooked = {} /\ Unbooked' = {}
    BY <2>1, <2>2, <2>3 DEF Unbooked
  <2>5. QED
    BY <1>1, <2>1, <2>4, CidFacts
<1>4. CASE PostOrder
  <2>1. /\ cur \in EngineCid /\ cur \in Cid /\ pc = "post" /\ pc' = "await" /\ exch[cur] = "absent"
        /\ UNCHANGED <<cur, orderStatus, orderPair, holding, trade, kill>>
        /\ exch' = [exch EXCEPT ![cur] = "inflight"]
    BY <1>4, TickOrderFacts DEF PostOrder, OrderInv, SendInv
  <2>2. Unresolved' = Unresolved
    BY <2>1 DEF Unresolved
  <2>3. \A c \in EngineCid : exch'[c] = "filled" <=> exch[c] = "filled"
    BY <1>1, <2>1, CidFacts
  <2>4. Unbooked' = Unbooked
    BY <2>1, <2>2, <2>3 DEF Unbooked
  <2>5. QED
    BY <1>1, <2>1, <2>4, CidFacts
<1>5. CASE OrderAnswered \/ OrderRejected \/ OrderUnknown
  <2>1. /\ cur \in EngineCid /\ cur \in Cid /\ pc = "await" /\ orderStatus[cur] = "pending"
        /\ UNCHANGED <<cur, exch, orderPair, holding, trade, kill>>
    BY <1>5, TickOrderFacts DEF OrderAnswered, OrderRejected, OrderUnknown, OrderInv, SendInv
  <2>2. Unresolved = {cur}
    BY <2>1 DEF Unresolved, Open, OrderInv, SendInv
  <2>3. \/ pc' = "book" /\ exch[cur] \in Executed /\ orderStatus' = [orderStatus EXCEPT ![cur] = exch[cur]]
        \/ pc' = "halt" /\ exch[cur] = "refused" /\ orderStatus' = [orderStatus EXCEPT ![cur] = "rejected"]
        \/ pc' = "halt" /\ orderStatus' = [orderStatus EXCEPT ![cur] = "unknown"]
    BY <1>5 DEF OrderAnswered, OrderRejected, OrderUnknown, TimeoutStatus
  <2>4. exch[cur] # "expired"
    BY <1>1, <2>1 DEF BookInv
  <2>5. \A d \in Cid : d # cur => orderStatus'[d] = orderStatus[d]
    BY <1>1, <2>3
  <2>6. Unresolved' \subseteq {cur}
    BY <2>2, <2>5 DEF Unresolved
  <2>7. \/ pc' = "book" /\ exch[cur] = "filled"
        \/ exch[cur] = "refused" /\ pc' = "halt"
        \/ pc' = "halt" /\ cur \in Unresolved'
    BY <1>1, <2>1, <2>3, <2>4 DEF Executed, Unresolved, Open
  <2>8. Unbooked' = Unbooked
    BY <2>1, <2>2, <2>6, <2>7 DEF Unbooked
  <2>9. QED
    BY <1>1, <2>1, <2>5, <2>8, CidFacts
<1>6. ASSUME NEW c \in EngineCid, QueryOrder(c)
      PROVE  Goal
  <2>1. /\ c \in Unresolved /\ c \in Cid /\ Answer(c) \notin Open /\ pc = "reconcile"
        /\ UNCHANGED <<exch, orderPair, holding, trade, kill>>
        /\ orderStatus' = [orderStatus EXCEPT ![c] = Answer(c)]
    BY <1>6, CidFacts DEF QueryOrder, OrderInv, SendInv, Answer, Executed, Open
  <2>2. Unresolved = {c}
    BY <2>1 DEF OrderInv, SendInv
  <2>3. \A d \in Cid : d # c => orderStatus'[d] = orderStatus[d]
    BY <1>1, <2>1
  <2>4. Unresolved' = {}
    BY <1>1, <2>1, <2>2, <2>3 DEF Unresolved
  <2>5. \/ exch[c] = "filled" /\ pc' = "rbook" /\ cur' = c
        \/ exch[c] # "filled" /\ pc' = "reconcile"
    BY <1>6 DEF QueryOrder, BooksAnswer
  <2>6. Unbooked' = Unbooked
    BY <2>1, <2>2, <2>4, <2>5 DEF Unbooked
  <2>7. QED
    BY <1>1, <2>1, <2>3, <2>6, CidFacts
<1>7. QED
  BY <1>3, <1>4, <1>5, <1>6

(* The booking of an executed order.                                       *)
LEMMA AgreeBook ==
  ASSUME TypeOK, OrderInv, PositionInv, BookReconciled \/ BookOrder
  PROVE  Agree' /\ KillFlat'
<1> USE DEF dbVars, orderVars, exchVars, EndCycle
<1>1. /\ trade' = Booked(cur) /\ cur \in EngineCid /\ exch[cur] = "filled"
      /\ Unresolved = {} /\ Unbooked = {cur}
  BY BookFacts DEF BookReconciled, BookOrder
<1>2. UNCHANGED <<orderStatus, orderPair, exch, holding, kill>> /\ pc' \in {"reconcile", "idle"}
  BY DEF BookReconciled, BookOrder
<1>3. Unbooked' = {}
  BY <1>1, <1>2 DEF Unbooked, Unresolved
<1>4. IsFlat' = IsFlat /\ KillSold' = KillSold /\ Matches(trade)' = Matches(Booked(cur))
  BY <1>1, <1>2 DEF IsFlat, KillSold, Matches
<1>5. Agree'
  BY <1>1, <1>3, <1>4 DEF Agree, PositionInv
<1>6. KillFlat'
  <2>1. SUFFICES ASSUME kill.pc = "await", exch[<<"k", kill.at>>] = "filled"
                 PROVE  IsFlat' /\ trade'.qty = 1
    BY <1>2, <1>3 DEF KillFlat
  <2>2. IsFlat /\ IsBuy(cur)
    BY <1>1, <2>1 DEF PositionInv, KillFlat
  <2>3. QED
    BY <1>1, <1>4, <2>2 DEF Booked
<1>7. QED
  BY <1>5, <1>6

(* The kill switch reads the position, sells it and records the sale.      *)
LEMMA AgreeKill ==
  ASSUME OnlyFills, TypeOK, OrderInv, PositionInv, KillStep
  PROVE  Agree' /\ KillFlat'
<1> USE DEF dbVars, orderVars, exchVars, localVars, workerVars
<1>1. /\ BookInv
      /\ orderStatus \in [Cid -> {"none"} \cup Open \cup Final]
      /\ orderPair \in [Cid -> Pairs \cup {NoPair}]
      /\ exch \in [Cid -> {"absent", "inflight", "refused", "lost"} \cup Executed]
  BY DEF PositionInv, TypeOK, OrderTypeOK
<1>2. ASSUME NEW close \in BOOLEAN, KillBegin(close)
      PROVE  Agree' /\ KillFlat'
  <2>1. UNCHANGED <<orderStatus, orderPair, exch, holding, trade, pc, cur>> /\ kill'.pc # "await"
    BY <1>2 DEF KillBegin, NoKill
  <2>2. QED
    BY <2>1, AgreeQuiet
<1>3. CASE KillFails
  <2>1. UNCHANGED <<orderStatus, orderPair, exch, holding, trade, pc, cur>> /\ kill'.pc # "await"
    BY <1>3 DEF KillFails, NoKill
  <2>2. QED
    BY <2>1, AgreeQuiet
<1> DEFINE k == <<"k", kill.at>>
<1>4. ASSUME KillSell \/ KillRecord
      PROVE  kill.at \in 1 .. MaxKills /\ k \in KillCid /\ k \in Cid /\ k \notin EngineCid
  BY <1>4, CidFacts, BoundsAssumption DEF KillSell, KillRecord, TypeOK, OwnerTypeOK
<1>5. CASE KillSell
  <2>1. /\ UNCHANGED <<orderStatus, trade, holding, pc, cur>> /\ kill'.at = kill.at /\ kill'.pc = "await"
        /\ exch' = [exch EXCEPT ![k] = "inflight"] /\ orderPair' = [orderPair EXCEPT ![k] = kill.pair]
    BY <1>5 DEF KillSell, TypeOK, OwnerTypeOK
  <2>2. exch[k] = "absent"
    BY <1>4, <1>5 DEF KillSell, OrderInv, KillInv
  <2>3. exch'[<<"k", kill'.at>>] = "inflight"
    BY <1>1, <1>4, <1>5, <2>1
  <2>4. k \in Cid /\ k \notin EngineCid /\ k \in KillCid
    BY <1>4, <1>5
  <2> HIDE DEF k
  <2>5. \A c \in Cid : exch'[c] = "filled" <=> exch[c] = "filled"
    BY <1>1, <2>1, <2>2, <2>4
  <2>6. \A c \in EngineCid : orderPair'[c] = orderPair[c]
    BY <1>1, <2>1, <2>4, CidFacts
  <2>7. Unresolved' = Unresolved
    BY <2>1 DEF Unresolved
  <2>8. Unbooked' = Unbooked
    BY <2>1, <2>5, <2>7, CidFacts DEF Unbooked
  <2>9. KillSold' = KillSold /\ IsFlat' = IsFlat /\ Matches(trade)' = Matches(trade)
    BY <2>1, <2>5, CidFacts DEF KillSold, IsFlat, Matches
  <2>10. ASSUME NEW c \in Unbooked PROVE Matches(Booked(c))' = Matches(Booked(c))
    <3>1. c \in EngineCid
      BY DEF Unbooked
    <3>2. QED
      BY <2>1, <2>6, <3>1 DEF Matches, Booked
  <2>11. Agree'
    <3>1. CASE KillSold /\ IsFlat
      BY <2>9, <3>1 DEF Agree
    <3>2. CASE (Unbooked = {} => Matches(trade)) /\ \A c \in Unbooked : Matches(Booked(c))
      BY <2>8, <2>9, <2>10, <3>2 DEF Agree
    <3>3. QED
      BY <3>1, <3>2 DEF PositionInv, Agree
  <2>12. KillFlat'
    BY <2>3 DEF KillFlat
  <2>13. QED
    BY <2>11, <2>12
<1>6. CASE KillRecord
  <2>1. /\ UNCHANGED <<orderPair, exch, holding, pc, cur>> /\ kill.pc = "await" /\ kill'.pc = "idle"
        /\ trade' = NoTrade /\ exch[k] \in Executed
        /\ orderStatus' = IF trade.pair = NoPair THEN orderStatus ELSE [orderStatus EXCEPT ![k] = exch[k]]
    BY <1>6 DEF KillRecord, NoKill
  <2>2. exch[k] = "filled"
    BY <1>1, <1>4, <1>6, <2>1 DEF BookInv, Executed
  <2>3. /\ IsFlat /\ Agree
        /\ Unbooked = {} => trade.qty = 1
        /\ \A c \in Unbooked : IsBuy(c)
    BY <2>1, <2>2 DEF PositionInv, KillFlat
  <2>4. orderStatus[k] = "none"
    BY <1>4, <1>6, <2>1 DEF OrderInv, KillInv
  <2>5. KillFlat'
    BY <2>1 DEF KillFlat
  <2>6. IsFlat' /\ Matches(NoTrade)'
    BY <2>1, <2>3 DEF IsFlat, Matches, NoTrade
  <2>7. \A c \in EngineCid : orderStatus'[c] = orderStatus[c]
    BY <1>1, <1>4, <1>6, <2>1, CidFacts
  <2>8. Unresolved' = Unresolved
    BY <1>1, <1>4, <1>6, <2>1, <2>2, <2>4 DEF Unresolved, Open
  <2>9. Unbooked' = Unbooked
    BY <2>1, <2>8 DEF Unbooked
  <2>10. CASE Unbooked = {}
    BY <2>1, <2>5, <2>6, <2>9, <2>10 DEF Agree
  <2>11. CASE Unbooked # {}
    <3>1. PICK c \in Unbooked : IsBuy(c)
      BY <2>3, <2>11
    <3>2. trade = NoTrade
      BY <3>1 DEF PositionInv, EntryAlone, Unbooked
    <3>3. orderStatus' = orderStatus
      BY <2>1, <3>2 DEF NoTrade
    <3>4. KillSold'
      BY <1>4, <1>6, <2>1, <2>2, <2>4, <3>3 DEF KillSold
    <3>5. QED
      BY <2>5, <2>6, <3>4 DEF Agree
  <2>12. QED
    BY <2>10, <2>11
<1>7. QED
  BY <1>2, <1>3, <1>5, <1>6 DEF KillStep

(* The exchange ends a request, with or without an execution.              *)
LEMMA AgreeExchange ==
  ASSUME OnlyFills, TypeOK, OrderInv, PositionInv, NEW c \in Cid, Fill(c) \/ NotFilled(c)
  PROVE  Agree' /\ KillFlat'
<1> USE DEF dbVars, orderVars, workerVars
<1>1. /\ exch \in [Cid -> {"absent", "inflight", "refused", "lost"} \cup Executed]
      /\ holding \in [Pairs -> Nat] /\ exch[c] = "inflight"
      /\ UNCHANGED <<orderStatus, orderPair, trade, pc, cur, kill>>
      /\ Agree /\ KillFlat /\ Paired
  BY DEF PositionInv, TypeOK, OrderTypeOK, Fill, NotFilled
<1>2. Unresolved' = Unresolved
  BY <1>1 DEF Unresolved
<1>3. kill.pc = "await" => kill.at \in 1 .. MaxKills /\ <<"k", kill.at>> \in KillCid
  BY CidFacts, BoundsAssumption DEF TypeOK, OwnerTypeOK
<1>4. kill.pc = "await" => orderStatus[<<"k", kill.at>>] = "none"
  BY <1>3 DEF OrderInv, KillInv
<1>5. CASE NotFilled(c)
  <2>1. PICK end \in {"refused", "lost"} : exch' = [exch EXCEPT ![c] = end]
    BY <1>5, OutcomesAssumption DEF NotFilled, OnlyFills
  <2>2. UNCHANGED holding /\ \A d \in Cid : exch'[d] = "filled" <=> exch[d] = "filled"
    BY <1>1, <1>5, <2>1 DEF NotFilled
  <2>3. Unbooked' = Unbooked
    BY <1>1, <1>2, <2>2, CidFacts DEF Unbooked
  <2>4. KillSold' = KillSold /\ IsFlat' = IsFlat /\ Matches(trade)' = Matches(trade)
    BY <1>1, <2>2, CidFacts DEF KillSold, IsFlat, Matches
  <2>5. \A d \in Unbooked : Matches(Booked(d))' = Matches(Booked(d))
    BY <1>1, <2>2 DEF Matches, Booked
  <2>6. Agree'
    BY <1>1, <2>3, <2>4, <2>5 DEF Agree
  <2>7. KillFlat'
    BY <1>1, <1>3, <2>2, <2>3, <2>4, CidFacts DEF KillFlat
  <2>8. QED
    BY <2>6, <2>7
<1>6. CASE Fill(c)
  <2>1. /\ exch' = [exch EXCEPT ![c] = "filled"] /\ (IsBuy(c) \/ holding[orderPair[c]] > 0)
        /\ holding' = [holding EXCEPT ![orderPair[c]] = IF IsBuy(c) THEN @ + 1 ELSE @ - 1]
    BY <1>6 DEF Fill
  <2>2. \A d \in Cid : exch'[d] = "filled" <=> (d = c \/ exch[d] = "filled")
    BY <1>1, <2>1
  <2>3. orderPair[c] \in Pairs
    <3>1. c \in EngineCid => c \in Unresolved
      BY <1>1, TickOrderFacts
    <3>2. c \in EngineCid => orderStatus[c] # "none"
      BY <3>1 DEF Unresolved, Open
    <3>3. QED
      BY <1>1, <3>2, CidFacts DEF Paired
  <2> DEFINE p == orderPair[c]
  <2> HIDE DEF p
  <2>4. p \in Pairs /\ p = orderPair[c]
    BY <2>3 DEF p
  <2>5. CASE c \in EngineCid
    <3>1. c \in Unresolved /\ (\A d \in Unresolved : d = c) /\ pc \notin {"book", "rbook"}
      BY <1>1, <2>5, TickOrderFacts DEF OrderInv, SendInv, PositionInv, BookInv
    <3>2. Unbooked = {}
      BY <1>1, <3>1 DEF Unbooked
    <3>3. Unbooked' = {c}
      BY <1>1, <1>2, <2>2, <2>5, <3>1, CidFacts DEF Unbooked
    <3>4. <<"k", kill.at>> # c
      BY <2>5 DEF EngineCid
    <3>5. kill.pc = "await" /\ exch'[<<"k", kill.at>>] = "filled" => IsFlat /\ trade.qty = 1
      BY <1>1, <1>3, <2>2, <3>2, <3>4, CidFacts DEF KillFlat
    <3>6. CASE IsBuy(c)
      <4>1. trade = NoTrade
        BY <3>1, <3>6 DEF PositionInv, EntryAlone
      <4>2. IsFlat
        BY <1>1, <3>2, <4>1 DEF Agree, Matches, IsFlat, NoTrade
      <4>3. \A q \in Pairs : holding'[q] = IF p = q THEN 1 ELSE 0
        BY <2>1, <2>4, <3>6, <4>2, BuyFills
      <4>4. Matches(Booked(c))'
        BY <1>1, <2>4, <3>6, <4>3 DEF Matches, Booked, IsBuy
      <4>5. KillFlat'
        BY <1>1, <3>5, <4>1 DEF KillFlat, NoTrade
      <4>6. QED
        BY <3>3, <4>4, <4>5 DEF Agree
    <3>7. CASE ~IsBuy(c)
      <4>1. /\ holding[p] > 0 /\ holding'[p] = holding[p] - 1 /\ ~IsFlat
            /\ \A q \in Pairs : q # p => holding'[q] = holding[q]
        BY <1>1, <2>1, <2>4, <3>7 DEF IsFlat
      <4>2. Matches(trade) /\ trade.qty \in {0, 1}
        BY <1>1, <3>2, <4>1 DEF Agree, TypeOK, OrderTypeOK
      <4>3. IsFlat'
        BY <2>4, <4>1, <4>2, SellFlattens
      <4>4. Matches(Booked(c))'
        BY <3>7, <4>3 DEF Matches, Booked, IsFlat, NoTrade, IsBuy
      <4>5. KillFlat'
        BY <1>1, <3>5, <4>1 DEF KillFlat
      <4>6. QED
        BY <3>3, <4>4, <4>5 DEF Agree
    <3>8. QED
      BY <3>6, <3>7
  <2>6. CASE c \in KillCid
    <3>1. c \notin EngineCid /\ ~IsBuy(c)
      BY <2>6, CidFacts DEF KillCid, IsBuy
    <3>2. Unbooked' = Unbooked
      BY <1>1, <1>2, <2>2, <3>1, CidFacts DEF Unbooked
    <3>3. /\ holding[p] > 0 /\ holding'[p] = holding[p] - 1 /\ ~IsFlat
          /\ \A q \in Pairs : q # p => holding'[q] = holding[q]
      BY <1>1, <2>1, <2>4, <3>1 DEF IsFlat
    <3>4. (Unbooked = {} => Matches(trade)) /\ \A d \in Unbooked : Matches(Booked(d))
      BY <1>1, <3>3 DEF Agree
    <3>5. IsFlat' /\ (Unbooked = {} => trade.qty = 1) /\ \A d \in Unbooked : IsBuy(d)
      <4>1. CASE Unbooked = {}
        <5>1. trade.qty \in {0, 1}
          BY DEF TypeOK, OrderTypeOK
        <5>2. QED
          BY <2>4, <3>3, <3>4, <4>1, <5>1, SellFlattens
      <4>2. ASSUME NEW d \in Unbooked
            PROVE  IsFlat' /\ IsBuy(d)
        <5>1. Booked(d).qty \in {0, 1}
          BY DEF Booked, NoTrade
        <5>2. IsFlat' /\ Booked(d).qty = 1
          BY <2>4, <3>3, <3>4, <5>1, SellFlattens
        <5>3. QED
          BY <5>2 DEF Booked, NoTrade
      <4>3. QED
        BY <4>1, <4>2
    <3>6. orderStatus[c] = "none"
      BY <1>1, <2>6, TickOrderFacts DEF OrderInv, LedgerAgrees, Executed
    <3>7. KillSold'
      BY <1>1, <2>2, <2>6, <3>6 DEF KillSold
    <3>8. Agree'
      BY <3>5, <3>7 DEF Agree
    <3>9. KillFlat'
      BY <1>1, <3>2, <3>5 DEF KillFlat, IsBuy
    <3>10. QED
      BY <3>8, <3>9
  <2>7. QED
    BY <2>5, <2>6, CidFacts
<1>7. QED
  BY <1>5, <1>6

LEMMA AgreeStep ==
  ASSUME OnlyFills, BooksSurvive, TypeOK, OrderInv, PositionInv, Next
  PROVE  Agree' /\ KillFlat'
<1> USE DEF dbVars, orderVars, exchVars, localVars, workerVars, EndCycle
<1> DEFINE Quiet == /\ UNCHANGED <<orderStatus, orderPair, exch, holding, trade, kill>>
                    /\ UNCHANGED <<pc, cur>> \/ {pc, pc'} \cap {"book", "rbook"} = {}
<1>1. ASSUME Quiet
      PROVE  Agree' /\ KillFlat'
  BY <1>1, AgreeQuiet
<1> HIDE DEF Quiet
<1>2. CASE \/ CycleStart \/ VerifyKey \/ UnsafeKey \/ ReadQuote \/ CallFails \/ GateStopped \/ Gate
           \/ WaitingReconcile \/ NoAuthorization \/ NoFreshCandle
  BY <1>1, <1>2 DEF Quiet, CycleStart, VerifyKey, UnsafeKey, ReadQuote, CallFails, GateStopped, Gate,
       WaitingReconcile, NoAuthorization, NoFreshCandle
<1>3. CASE Plan \/ StrategyFails \/ TakeCandle \/ RiskCheck \/ OrderExists \/ HaltAfterSend \/ Restart
  BY <1>1, <1>3 DEF Quiet, Plan, StrategyFails, TakeCandle, RiskCheck, OrderExists, HaltAfterSend, Restart
<1>4. CASE \E c \in EngineCid : QueryFails(c)
  BY <1>1, <1>4 DEF Quiet, QueryFails
<1>5. CASE Crash
  BY <1>1, <1>5 DEF Quiet, Crash, BooksSurvive
<1>6. CASE OwnerStep \/ WorldStep
  BY <1>1, <1>6 DEF Quiet, OwnerStep, Start, Stop, Revoke, Authorize, StoreKey, WorldStep, PriceMoves,
                    CandleCloses, MinutePasses
<1>7. QED
  BY <1>2, <1>3, <1>4, <1>5, <1>6, AgreeSend, AgreeBook, AgreeKill, AgreeExchange
  DEF Next, TickStep, SendStep, ExchangeStep

THEOREM PositionHolds ==
  ASSUME OnlyFills, BooksSurvive
  PROVE  Spec => []PositionInv
<1>1. ASSUME TypeOK, OrderInv, PositionInv, Next
      PROVE  PositionInv'
  BY <1>1, BookInvStep, PairedStep, EntryAloneStep, AgreeStep DEF PositionInv
<1>2. ASSUME PositionInv, UNCHANGED vars
      PROVE  PositionInv'
  BY <1>2 DEF vars, dbVars, exchVars, workerVars, PositionInv, BookInv, Paired, EntryAlone,
       Agree, KillFlat, KillSold, IsFlat, Matches, Booked, Unbooked, Unresolved, IsBuy
<1>3. TypeOK /\ OrderInv /\ PositionInv /\ [Next]_vars => PositionInv'
  BY <1>1, <1>2
<1>4. QED
  BY <1>3, PositionInit, TypeCorrect, OrdersCorrect, PTL DEF Spec

(* When nothing is unresolved and no fill waits to be booked, the open     *)
(* trade in the database is exactly what the account holds.                *)
THEOREM PositionIsKnown ==
  ASSUME OnlyFills, BooksSurvive
  PROVE  Spec => []PositionKnown
<1>1. ASSUME TypeOK, PositionInv
      PROVE  PositionKnown
  <2>1. SUFFICES ASSUME Unresolved = {}, pc \notin {"book", "rbook"}, ~KillUnrecorded
                 PROVE  Matches(trade)
    BY DEF PositionKnown, Matches
  <2>2. Unbooked = {} /\ ~KillSold
    BY <2>1 DEF Unbooked, KillSold, KillUnrecorded, Executed
  <2>3. QED
    BY <1>1, <2>2 DEF PositionInv, Agree
<1>2. QED
  BY <1>1, PositionHolds, TypeCorrect, PTL

(* Crashes, timeouts and restarts never make the engine buy a second       *)
(* position on top of the first.                                           *)
THEOREM OnePositionOnly ==
  ASSUME OnlyFills, BooksSurvive
  PROVE  Spec => []OnePosition
<1>1. ASSUME TypeOK, PositionInv
      PROVE  OnePosition
  <2>1. ASSUME NEW t, t.qty \in {0, 1}, Matches(t)
        PROVE  OnePosition
    BY <2>1 DEF Matches, OnePosition
  <2>2. ASSUME IsFlat
        PROVE  OnePosition
    BY <2>2 DEF IsFlat, OnePosition
  <2>3. trade.qty \in {0, 1} /\ \A c : Booked(c).qty \in {0, 1}
    BY <1>1 DEF TypeOK, OrderTypeOK, Booked, NoTrade
  <2>4. QED
    BY <1>1, <2>1, <2>2, <2>3 DEF PositionInv, Agree
<1>2. QED
  BY <1>1, PositionHolds, TypeCorrect, PTL

(* What is between a halt, a stop or a kill and the last entry: an entry   *)
(* leaves late only if it was decided while the engine was running, and no *)
(* other is decided until the owner starts it again.                       *)
LateInv ==
  /\ lateEntries \in {0, 1}
  /\ status = "running" => lateEntries = 0
  /\ pc \in {"write", "post"} /\ IsBuy(cur) => lateEntries = 0

(* After a halt, a stop or a kill at most the one entry that the running   *)
(* tick had already decided leaves; the next tick opens nothing.           *)
THEOREM OneLateEntry == Spec => []LateEntryBound
<1> USE DEF dbVars, orderVars, exchVars, localVars, workerVars, worldVars, EndCycle
<1>1. Init => LateInv
  BY DEF Init, LateInv
<1>2. ASSUME LateInv, UNCHANGED lateEntries,
             status' = status \/ status' # "running",
             UNCHANGED <<pc, cur>> \/ pc' \notin {"write", "post"}
                \/ (pc = "write" /\ pc' = "post" /\ UNCHANGED cur)
      PROVE  LateInv'
  BY <1>2 DEF LateInv, IsBuy
<1>3. ASSUME LateInv, TickStep
      PROVE  LateInv'
  <2>1. CASE Plan
    <3>1. PICK hit \in StopTests : pc' = (IF SendsStop(hit) THEN "write" ELSE "candle")
                                /\ cur' = (IF SendsStop(hit) THEN <<"s", tick.at>> ELSE cur)
      BY <2>1 DEF Plan
    <3>2. pc' = "candle" \/ (pc' = "write" /\ ~IsBuy(cur'))
      BY <3>1 DEF IsBuy
    <3>3. UNCHANGED <<status, lateEntries>>
      BY <2>1 DEF Plan
    <3>4. QED
      BY <1>3, <3>2, <3>3 DEF LateInv, IsBuy
  <2>2. CASE RiskCheck
    <3>1. /\ UNCHANGED lateEntries /\ (status' = status \/ status' # "running")
          /\ \/ pc' = "write" /\ cur' = <<"x", lastCandle>>
             \/ pc' = "write" /\ status = "running"
             \/ pc' = "idle"
      BY <2>2 DEF RiskCheck, MayEnter
    <3>2. QED
      BY <1>3, <3>1 DEF LateInv, IsBuy
  <2>3. CASE \/ CycleStart \/ VerifyKey \/ UnsafeKey \/ ReadQuote \/ CallFails \/ GateStopped \/ Gate
             \/ WaitingReconcile \/ NoAuthorization \/ NoFreshCandle
    BY <1>2, <1>3, <2>3 DEF CycleStart, VerifyKey, UnsafeKey, ReadQuote, CallFails, GateStopped, Gate,
         WaitingReconcile, NoAuthorization, NoFreshCandle
  <2>4. CASE \/ StrategyFails \/ TakeCandle \/ BookReconciled
             \/ \E c \in EngineCid : QueryFails(c) \/ QueryOrder(c)
    BY <1>2, <1>3, <2>4 DEF StrategyFails, TakeCandle, BookReconciled, QueryFails, QueryOrder
  <2>5. QED
    BY <1>3, <2>1, <2>2, <2>3, <2>4 DEF TickStep
<1>4. ASSUME LateInv, SendStep
      PROVE  LateInv'
  <2>1. CASE PostOrder
    BY <1>4, <2>1 DEF PostOrder, LateInv
  <2>2. CASE \/ WriteOrder \/ OrderExists \/ OrderAnswered \/ OrderRejected \/ OrderUnknown
             \/ BookOrder \/ HaltAfterSend
    BY <1>2, <1>4, <2>2 DEF WriteOrder, OrderExists, OrderAnswered, OrderRejected, OrderUnknown,
                            BookOrder, HaltAfterSend
  <2>3. QED
    BY <1>4, <2>1, <2>2 DEF SendStep
<1>5. ASSUME LateInv, Crash \/ Restart \/ OwnerStep \/ KillStep
      PROVE  LateInv'
  <2>1. CASE Start
    BY <1>5, <2>1 DEF Start, LateInv, IsBuy
  <2>2. CASE Crash \/ Restart \/ KillStep
    BY <1>2, <1>5, <2>2 DEF Crash, Restart, KillStep, KillBegin, KillSell, KillRecord, KillFails
  <2>3. CASE \/ Stop \/ Revoke \/ (\E p \in Pairs : Authorize(p))
             \/ \E k \in Keys \cup {NoKey} : StoreKey(k)
    BY <1>2, <1>5, <2>3 DEF Stop, Revoke, Authorize, StoreKey
  <2>4. QED
    BY <1>5, <2>1, <2>2, <2>3 DEF OwnerStep
<1>6. ASSUME LateInv, ExchangeStep \/ WorldStep \/ UNCHANGED vars
      PROVE  LateInv'
  BY <1>2, <1>6 DEF ExchangeStep, Fill, NotFilled, WorldStep, PriceMoves, CandleCloses, MinutePasses, vars
<1>7. LateInv /\ [Next]_vars => LateInv'
  BY <1>3, <1>4, <1>5, <1>6 DEF Next
<1>8. LateInv => LateEntryBound
  BY DEF LateInv, LateEntryBound
<1>9. QED
  BY <1>1, <1>7, <1>8, PTL DEF Spec

=============================================================================
