----------------------------- MODULE TrainerProofs -----------------------------
(***************************************************************************)
(* The two halves of the trainer's loop, which share no row they both      *)
(* write.                                                                  *)
(*                                                                         *)
(* Evidence before authorization, one run at a time and revocation, for    *)
(* any number of requests at once, any length of a run and any bounds.     *)
(*                                                                         *)
(* What a review of the challengers leaves behind, for any number of       *)
(* models, sessions, deaths of the trainer and of sessions kept.           *)
(***************************************************************************)
EXTENDS Evaluation, Challengers, SequenceTheorems, NumberFacts

-----------------------------------------------------------------------------
(* The evaluation.                                                         *)
RunRow == [start : 0 .. MaxDay, finished : BOOLEAN, seen : 0 .. MaxRuns]
ReportRow == [run : Nat, eligible : BOOLEAN, whole : BOOLEAN]
GrantRow == [report : ReportRow, active : BOOLEAN]
Desk ==
  [step : {"free", "start", "rows", "save", "grant", "revoke"}, run : Nat,
   over : BOOLEAN, whole : BOOLEAN, report : SUBSET ReportRow, set : SUBSET Nat]

RunsInv ==
  /\ day \in 0 .. MaxDay /\ reviewed \in -1 .. day
  /\ runs \in Seq(RunRow) /\ Len(runs) <= MaxRuns
  /\ \A r \in DOMAIN runs : runs[r].start <= day
  /\ todo \subseteq DOMAIN runs
  /\ OneRun

(* A report that is kept was made of a run when it was over.               *)
ReportsInv ==
  /\ reports \subseteq ReportRow
  /\ \A rep \in reports : rep.run \in DOMAIN runs /\ rep.whole /\ runs[rep.run].finished

GrantsInv ==
  /\ grants \in Seq(GrantRow)
  /\ \A a \in DOMAIN grants : grants[a].report \in reports /\ grants[a].report.eligible
  /\ withdrawn \subseteq DOMAIN grants /\ RevokedStays

(* What a process knows between its two steps is still true when it        *)
(* writes: no run that it has not seen is running, the run it was told to  *)
(* report on was over when that was decided, so when its rows were read;   *)
(* the report it authorizes on is there; what it is about to revoke covers *)
(* all that was active when it was asked and still is.                     *)
KnowsRuns(v) == v.step = "start" => v.run <= Len(runs) /\ \A r \in Running : v.run < r
KnowsReport(v) ==
  /\ v.step \in {"rows", "save"} => v.run \in DOMAIN runs
  /\ v.step = "rows" /\ v.over => Ended(v.run)
  /\ v.step = "save" /\ v.over => v.whole
KnowsEvidence(v) == v.step = "grant" => \E rep \in reports : v.report = {rep} /\ rep.eligible
KnowsGrants(v) ==
  v.step = "revoke" =>
    v.run <= Len(grants) /\ \A a \in 1 .. v.run : grants[a].active => a \in v.set
Knows(v) == KnowsRuns(v) /\ KnowsReport(v) /\ KnowsEvidence(v) /\ KnowsGrants(v)

DesksInv == desk \in [Staff -> Desk] /\ \A p \in Staff : Knows(desk[p])

EvalIInv == RunsInv /\ ReportsInv /\ GrantsInv /\ DesksInv

-----------------------------------------------------------------------------
LEMMA FunctionIsSeq ==
  ASSUME NEW S, NEW s, Len(s) \in Nat, s \in [1 .. Len(s) -> S]
  PROVE  s \in Seq(S)
OBVIOUS

LEMMA FreeFacts == Free0 \in Desk /\ Free0.step = "free"
BY DEF Free0, Desk

LEMMA ReportDesk ==
  ASSUME NEW r \in Nat, NEW b \in BOOLEAN
  PROVE  LET v == [Free0 EXCEPT !.step = "rows", !.run = r, !.over = b]
         IN  v \in Desk /\ v.step = "rows" /\ v.run = r /\ v.over = b
BY FreeFacts DEF Desk

LEMMA InitEvaluation == EvalInit => EvalIInv
<1> SUFFICES ASSUME EvalInit PROVE EvalIInv
  OBVIOUS
<1>1. runs = <<>> /\ grants = <<>> /\ DOMAIN runs = {} /\ DOMAIN grants = {}
  BY DEF EvalInit
<1>2. RunsInv
  BY <1>1, EvalBounds DEF EvalInit, RunsInv, OneRun, Running
<1>3. ReportsInv /\ GrantsInv
  BY <1>1 DEF EvalInit, ReportsInv, GrantsInv, RevokedStays
<1>4. desk \in [Staff -> Desk] /\ \A p \in Staff : desk[p].step = "free"
  BY FreeFacts DEF EvalInit
<1>5. DesksInv
  BY <1>4 DEF DesksInv, Knows, KnowsRuns, KnowsReport, KnowsEvidence, KnowsGrants
<1>6. QED
  BY <1>2, <1>3, <1>5 DEF EvalIInv

(* A step that changes one desk only.                                      *)
LEMMA DeskKeepsIInv ==
  ASSUME EvalIInv, NEW p \in Staff, NEW v \in Desk, Knows(v),
         desk' = [desk EXCEPT ![p] = v],
         UNCHANGED <<day, runs, reports, grants, todo, reviewed, withdrawn>>
  PROVE  EvalIInv'
<1>1. RunsInv' /\ ReportsInv' /\ GrantsInv'
  BY DEF EvalIInv, RunsInv, ReportsInv, GrantsInv, OneRun, Running, RevokedStays
<1>2. desk' \in [Staff -> Desk]
  BY DEF EvalIInv, DesksInv
<1>3. ASSUME NEW q \in Staff PROVE Knows(desk[q])'
  <2>1. Knows(desk'[q])
    BY DEF EvalIInv, DesksInv
  <2>2. QED
    BY <2>1 DEF Knows, KnowsRuns, KnowsReport, KnowsEvidence, KnowsGrants, Running, Ended
<1>4. QED
  BY <1>1, <1>2, <1>3 DEF EvalIInv, DesksInv

(* What a process knows lasts: runs and reports stay, a run that was not   *)
(* running does not start, an authorization that was not active is not.    *)
TablesGrow ==
  /\ day <= day' /\ day' \in Nat
  /\ Len(runs) <= Len(runs') /\ Len(runs') \in Nat /\ DOMAIN runs \subseteq DOMAIN runs'
  /\ \A r \in DOMAIN runs : runs'[r].start = runs[r].start
  /\ Running' \subseteq Running \cup {Len(runs) + 1}
  /\ reports \subseteq reports'
  /\ Len(grants) <= Len(grants') /\ Len(grants') \in Nat
  /\ \A a \in DOMAIN grants : grants'[a].active => grants[a].active

LEMMA KnowledgeLasts ==
  ASSUME EvalIInv, TablesGrow, NEW q \in Staff, desk'[q] \in {desk[q], Free0}
  PROVE  Knows(desk[q])'
<1>1. desk[q] \in Desk /\ Knows(desk[q])
  BY DEF EvalIInv, DesksInv
<1>2. /\ Len(runs) \in Nat /\ DOMAIN runs = 1 .. Len(runs)
      /\ Len(grants) \in Nat /\ DOMAIN grants = 1 .. Len(grants)
      /\ day \in Nat /\ \A r \in DOMAIN runs : runs[r].start \in Nat
  <2>1. \A r \in DOMAIN runs : runs[r] \in RunRow
    BY DEF EvalIInv, RunsInv
  <2>2. QED
    BY <2>1, EvalBounds DEF EvalIInv, RunsInv, GrantsInv, RunRow
<1>3. CASE desk'[q] = Free0
  BY <1>3, FreeFacts DEF Knows, KnowsRuns, KnowsReport, KnowsEvidence, KnowsGrants
<1>4. CASE desk'[q] = desk[q]
  <2>1. KnowsRuns(desk[q])'
    BY <1>1, <1>2, <1>4 DEF Knows, KnowsRuns, TablesGrow, Desk
  <2>2. KnowsReport(desk[q])'
    BY <1>1, <1>2, <1>4, EvalBounds DEF Knows, KnowsReport, TablesGrow, Ended
  <2>3. KnowsEvidence(desk[q])'
    BY <1>1, <1>4 DEF Knows, KnowsEvidence, TablesGrow
  <2>4. KnowsGrants(desk[q])'
    BY <1>1, <1>2, <1>4 DEF Knows, KnowsGrants, TablesGrow, Desk
  <2>5. QED
    BY <2>1, <2>2, <2>3, <2>4 DEF Knows
<1>5. QED
  BY <1>3, <1>4

LEMMA LastingDesks ==
  ASSUME EvalIInv, TablesGrow, NEW p \in Staff, desk' = [desk EXCEPT ![p] = Free0] \/ desk' = desk
  PROVE  DesksInv'
<1>1. desk' \in [Staff -> Desk] /\ \A q \in Staff : desk'[q] \in {desk[q], Free0}
  BY FreeFacts DEF EvalIInv, DesksInv
<1>2. QED
  BY <1>1, KnowledgeLasts DEF DesksInv

(* Requests are read.                                                      *)
LEMMA AsksKeepIInv ==
  ASSUME EvalIInv, NEW p \in Staff,
         \/ AskRun(p) \/ AskReport(p) \/ ReadRows(p) \/ AskRevoke(p)
         \/ (\E rep \in reports : AskGrant(p, rep)) \/ \E r \in DOMAIN runs : p = Trainer /\ ReviewRun(r)
  PROVE  EvalIInv'
<1> DEFINE old == desk[p]
<1>1. old \in Desk /\ Knows(old)
  BY DEF EvalIInv, DesksInv
<1>2. Len(runs) \in Nat /\ Len(grants) \in Nat /\ DOMAIN runs = 1 .. Len(runs) /\ DOMAIN grants = 1 .. Len(grants)
  BY DEF EvalIInv, RunsInv, GrantsInv
<1>3. CASE AskRun(p)
  <2> DEFINE v == [Free0 EXCEPT !.step = "start", !.run = Len(runs)]
  <2>1. v \in Desk /\ v.step = "start" /\ v.run = Len(runs)
    BY <1>2, FreeFacts DEF Desk
  <2>2. Knows(v)
    BY <1>2, <1>3, <2>1 DEF AskRun, NoneRunning, Knows, KnowsRuns, KnowsReport, KnowsEvidence, KnowsGrants
  <2>3. QED
    BY <1>3, <2>1, <2>2, DeskKeepsIInv DEF AskRun
<1>4. ASSUME NEW r \in DOMAIN runs, Report(p, r),
             UNCHANGED <<day, runs, reports, grants, todo, reviewed, withdrawn>>
      PROVE  EvalIInv'
  <2> DEFINE v == [Free0 EXCEPT !.step = "rows", !.run = r, !.over = Ended(r)]
  <2>1. v \in Desk /\ v.step = "rows" /\ v.run = r /\ v.over = Ended(r)
    <3>1. Ended(r) \in BOOLEAN /\ r \in Nat
      BY <1>2 DEF Ended
    <3>2. QED
      BY <3>1, ReportDesk
  <2>2. Knows(v)
    BY <2>1 DEF Knows, KnowsRuns, KnowsReport, KnowsEvidence, KnowsGrants
  <2>3. QED
    BY <1>4, <2>1, <2>2, DeskKeepsIInv DEF Report
<1>5. CASE AskReport(p)
  <2>1. Len(runs) \in DOMAIN runs
    BY <1>2, <1>5 DEF AskReport, EvalIInv, RunsInv
  <2>2. QED
    BY <1>4, <1>5, <2>1 DEF AskReport
<1>6. CASE \E r \in DOMAIN runs : p = Trainer /\ ReviewRun(r)
  BY <1>4, <1>6 DEF ReviewRun
(* Whoever was told that the run is over reads rows of a run that is.      *)
<1>7. CASE ReadRows(p)
  <2> DEFINE v == [old EXCEPT !.step = "save", !.whole = Ended(old.run)]
  <2>1. v \in Desk /\ v.step = "save" /\ v.run = old.run /\ v.over = old.over /\ v.whole = Ended(old.run)
    <3>1. Ended(old.run) \in BOOLEAN
      BY DEF Ended
    <3>2. QED
      BY <1>1, <3>1 DEF Desk
  <2>2. Knows(v)
    BY <1>1, <1>7, <2>1 DEF ReadRows, Knows, KnowsRuns, KnowsReport, KnowsEvidence, KnowsGrants
  <2>3. QED
    BY <1>7, <2>1, <2>2, DeskKeepsIInv DEF ReadRows
<1>8. ASSUME NEW rep \in reports, AskGrant(p, rep) PROVE EvalIInv'
  <2> DEFINE v == [Free0 EXCEPT !.step = "grant", !.report = {rep}, !.set = Active]
  <2>1. rep \in ReportRow /\ Active \in SUBSET Nat
    BY <1>2 DEF EvalIInv, ReportsInv, Active
  <2>2. v \in Desk /\ v.step = "grant" /\ v.report = {rep}
    BY <2>1, FreeFacts DEF Desk
  <2>3. Knows(v)
    BY <1>8, <2>2 DEF AskGrant, Qualifies, Knows, KnowsRuns, KnowsReport, KnowsEvidence, KnowsGrants
  <2>4. QED
    BY <1>8, <2>2, <2>3, DeskKeepsIInv DEF AskGrant
<1>9. CASE AskRevoke(p)
  <2> DEFINE v == [Free0 EXCEPT !.step = "revoke", !.run = Len(grants), !.set = ToRevoke]
  <2>1. ToRevoke \in SUBSET Nat /\ \A a \in 1 .. Len(grants) : grants[a].active => a \in ToRevoke
    BY <1>2 DEF ToRevoke, Active
  <2>2. v \in Desk /\ v.step = "revoke" /\ v.run = Len(grants) /\ v.set = ToRevoke
    BY <1>2, <2>1, FreeFacts DEF Desk
  <2>3. Knows(v)
    BY <1>2, <2>1, <2>2 DEF Knows, KnowsRuns, KnowsReport, KnowsEvidence, KnowsGrants
  <2>4. QED
    BY <1>9, <2>2, <2>3, DeskKeepsIInv DEF AskRevoke
<1>10. QED
  BY <1>3, <1>5, <1>6, <1>7, <1>8, <1>9

(* A run is inserted: what was running when its request came has ended.    *)
LEMMA StartKeepsIInv ==
  ASSUME EvalIInv, NEW p \in Staff, StartRun(p)
  PROVE  EvalIInv'
<1> DEFINE row == [start |-> day, finished |-> FALSE, seen |-> desk[p].run]
<1> DEFINE n == Len(runs)
<1>1. n \in Nat /\ DOMAIN runs = 1 .. n /\ day \in 0 .. MaxDay /\ desk[p] \in Desk /\ Knows(desk[p])
  BY DEF EvalIInv, RunsInv, DesksInv
<1>2. desk[p].run \in 0 .. n /\ \A r \in Running : desk[p].run < r
  BY <1>1 DEF StartRun, Knows, KnowsRuns, Desk
<1>3. row \in RunRow /\ n + 1 <= MaxRuns
  BY <1>1, <1>2, EvalBounds DEF RunRow, StartRun
<1>4. /\ runs' \in Seq(RunRow) /\ Len(runs') = n + 1 /\ DOMAIN runs' = 1 .. (n + 1)
      /\ \A r \in 1 .. n : runs'[r] = runs[r]
      /\ runs'[n + 1] = row
      /\ desk' = [desk EXCEPT ![p] = Free0]
      /\ UNCHANGED <<day, reports, grants, todo, reviewed, withdrawn>>
  BY <1>1, <1>3 DEF StartRun, EvalIInv, RunsInv
<1>5. Running' = Running \cup {n + 1}
  BY <1>1, <1>4 DEF Running
<1>6. RunsInv'
  <2>1. OneRun'
    <3> SUFFICES ASSUME NEW r \in Running', NEW q \in DOMAIN runs', q > r
                 PROVE  runs'[q].seen < r
      BY DEF OneRun
    <3>1. CASE q \in 1 .. n
      BY <1>1, <1>4, <1>5, <3>1 DEF EvalIInv, RunsInv, OneRun, Running
    <3>2. CASE q = n + 1
      BY <1>1, <1>2, <1>4, <1>5, <3>2 DEF Running
    <3>3. QED
      BY <1>1, <1>4, <3>1, <3>2
  <2>2. QED
    BY <1>1, <1>3, <1>4, <2>1 DEF EvalIInv, RunsInv
<1>7. ReportsInv' /\ GrantsInv'
  BY <1>1, <1>4 DEF EvalIInv, ReportsInv, GrantsInv, RevokedStays
<1>8. TablesGrow
  BY <1>1, <1>4, <1>5, EvalBounds DEF TablesGrow, EvalIInv, GrantsInv
<1>9. QED
  BY <1>4, <1>6, <1>7, <1>8, LastingDesks DEF EvalIInv

(* A report is saved, and its run with it if it was over.                  *)
LEMMA SaveKeepsIInv ==
  ASSUME EvalIInv, NEW p \in Staff, desk[p].step = "save", Saved(p),
         todo' \subseteq todo, reviewed' \in {reviewed, day}, UNCHANGED <<day, grants, withdrawn>>
  PROVE  EvalIInv'
<1> DEFINE r == desk[p].run
<1>1. /\ desk[p] \in Desk /\ r \in DOMAIN runs
      /\ desk[p].over => desk[p].whole
      /\ Len(runs) \in Nat /\ DOMAIN runs = 1 .. Len(runs) /\ runs \in [1 .. Len(runs) -> RunRow]
      /\ day \in 0 .. MaxDay
  BY DEF EvalIInv, RunsInv, DesksInv, Knows, KnowsReport
<1>2. /\ Len(runs') = Len(runs) /\ runs' \in Seq(RunRow) /\ DOMAIN runs' = DOMAIN runs
      /\ \A q \in DOMAIN runs : /\ runs'[q].start = runs[q].start /\ runs'[q].seen = runs[q].seen
                                /\ runs[q].finished => runs'[q].finished
                                /\ q = r /\ desk[p].over => runs'[q].finished
  <2>1. CASE UNCHANGED runs /\ ~desk[p].over
    BY <1>1, <2>1 DEF EvalIInv, RunsInv
  <2>2. CASE runs' = [runs EXCEPT ![r].finished = TRUE]
    <3>1. runs' \in [1 .. Len(runs) -> RunRow]
      BY <1>1, <2>2 DEF RunRow
    <3>2. \A q \in DOMAIN runs : /\ runs'[q].start = runs[q].start /\ runs'[q].seen = runs[q].seen
                                 /\ runs[q].finished => runs'[q].finished
                                 /\ q = r => runs'[q].finished
      BY <1>1, <2>2 DEF RunRow
    <3>3. QED
      BY <1>1, <3>1, <3>2
  <2>3. QED
    BY <2>1, <2>2 DEF Saved, Over
<1>3. Running' \subseteq Running
  BY <1>2 DEF Running
<1>4. RunsInv'
  <2>1. OneRun'
    BY <1>2, <1>3 DEF EvalIInv, RunsInv, OneRun
  <2>2. QED
    BY <1>1, <1>2, <2>1, EvalBounds DEF EvalIInv, RunsInv
<1>5. ReportsInv' /\ reports \subseteq reports'
  <2>1. CASE UNCHANGED reports
    BY <1>2, <2>1 DEF EvalIInv, ReportsInv
  <2>2. ASSUME desk[p].over, NEW passed \in BOOLEAN,
               reports' = reports \cup {[run |-> r, eligible |-> passed, whole |-> desk[p].whole]}
        PROVE  ReportsInv' /\ reports \subseteq reports'
    <3> DEFINE rep == [run |-> r, eligible |-> passed, whole |-> desk[p].whole]
    <3>1. rep \in ReportRow /\ rep.run = r /\ rep.whole
      BY <1>1, <2>2 DEF ReportRow, Desk
    <3>2. QED
      BY <1>1, <1>2, <2>2, <3>1 DEF EvalIInv, ReportsInv
  <2>3. QED
    BY <2>1, <2>2 DEF Saved, Over
<1>6. GrantsInv'
  BY <1>5 DEF EvalIInv, GrantsInv, RevokedStays
<1>7. TablesGrow
  BY <1>1, <1>2, <1>3, <1>5, EvalBounds DEF TablesGrow, EvalIInv, GrantsInv
<1>8. desk' = [desk EXCEPT ![p] = Free0]
  BY DEF Saved
<1>9. QED
  BY <1>4, <1>5, <1>6, <1>7, <1>8, LastingDesks DEF EvalIInv

LEMMA RevokedFacts ==
  ASSUME EvalIInv, NEW S
  PROVE  /\ Revoked(S) \in Seq(GrantRow) /\ Len(Revoked(S)) = Len(grants)
         /\ \A a \in DOMAIN grants : /\ Revoked(S)[a].report = grants[a].report
                                     /\ Revoked(S)[a].active <=> grants[a].active /\ a \notin S
<1>1. Len(grants) \in Nat /\ DOMAIN grants = 1 .. Len(grants) /\ grants \in [1 .. Len(grants) -> GrantRow]
  BY DEF EvalIInv, GrantsInv
<1>2. ASSUME NEW a \in DOMAIN grants
      PROVE  /\ [grants[a] EXCEPT !.active = @ /\ a \notin S] \in GrantRow
             /\ [grants[a] EXCEPT !.active = @ /\ a \notin S].report = grants[a].report
             /\ [grants[a] EXCEPT !.active = @ /\ a \notin S].active <=> grants[a].active /\ a \notin S
  <2> DEFINE b == grants[a].active /\ a \notin S
  <2>1. b \in BOOLEAN /\ grants[a] \in GrantRow
    BY <1>1
  <2>2. [grants[a] EXCEPT !.active = b] \in GrantRow /\ [grants[a] EXCEPT !.active = b].report = grants[a].report
        /\ [grants[a] EXCEPT !.active = b].active = b
    BY <2>1 DEF GrantRow
  <2>3. QED
    BY <2>2
<1>3. Revoked(S) \in [1 .. Len(grants) -> GrantRow]
  BY <1>1, <1>2 DEF Revoked
<1>4. \A a \in DOMAIN grants : Revoked(S)[a] = [grants[a] EXCEPT !.active = @ /\ a \notin S]
  BY DEF Revoked
<1>5. Revoked(S) \in Seq(GrantRow) /\ Len(Revoked(S)) = Len(grants)
  BY <1>1, <1>3
<1>6. QED
  BY <1>2, <1>4, <1>5

(* An authorization is inserted, what was seen active revoked with it.     *)
LEMMA GrantKeepsIInv ==
  ASSUME EvalIInv, NEW p \in Staff, Grant(p)
  PROVE  EvalIInv'
<1> DEFINE n == Len(grants)
<1>1. PICK rep \in reports : desk[p].report = {rep} /\ rep.eligible
  BY DEF Grant, EvalIInv, DesksInv, Knows, KnowsEvidence
<1> DEFINE row == [report |-> rep, active |-> TRUE]
<1>2. n \in Nat /\ DOMAIN grants = 1 .. n /\ row \in GrantRow
  BY DEF EvalIInv, GrantsInv, ReportsInv, GrantRow
<1>3. grants' = Append(Revoked(desk[p].set), row)
  <2>1. (CHOOSE x \in desk[p].report : TRUE) = rep
    BY <1>1
  <2>2. QED
    BY <2>1 DEF Grant
<1>4. /\ grants' \in Seq(GrantRow) /\ Len(grants') = n + 1 /\ DOMAIN grants' = 1 .. (n + 1)
      /\ \A a \in 1 .. n : grants'[a].report = grants[a].report /\ (grants'[a].active => grants[a].active)
      /\ grants'[n + 1] = row
  BY <1>2, <1>3, RevokedFacts
<1>5. UNCHANGED <<day, runs, reports, todo, reviewed, withdrawn>> /\ desk' = [desk EXCEPT ![p] = Free0]
  BY DEF Grant
<1>6. RunsInv' /\ ReportsInv'
  BY <1>5 DEF EvalIInv, RunsInv, ReportsInv, OneRun, Running
<1>7. GrantsInv'
  BY <1>1, <1>2, <1>4, <1>5 DEF EvalIInv, GrantsInv, RevokedStays
<1>8. TablesGrow
  BY <1>2, <1>4, <1>5, EvalBounds DEF TablesGrow, EvalIInv, RunsInv, Running
<1>9. QED
  BY <1>5, <1>6, <1>7, <1>8, LastingDesks DEF EvalIInv

LEMMA RevokeKeepsIInv ==
  ASSUME EvalIInv, NEW p \in Staff, Revoke(p)
  PROVE  EvalIInv'
<1> DEFINE n == Len(grants)
<1>1. n \in Nat /\ DOMAIN grants = 1 .. n /\ desk[p] \in Desk /\ Knows(desk[p])
  BY DEF EvalIInv, GrantsInv, DesksInv
<1>2. /\ grants' \in Seq(GrantRow) /\ Len(grants') = n /\ DOMAIN grants' = 1 .. n
      /\ \A a \in 1 .. n : /\ grants'[a].report = grants[a].report
                           /\ grants'[a].active <=> grants[a].active /\ a \notin desk[p].set
  BY <1>1, RevokedFacts DEF Revoke
<1>3. /\ UNCHANGED <<day, runs, reports, todo, reviewed>> /\ desk' = [desk EXCEPT ![p] = Free0]
      /\ withdrawn' = withdrawn \cup 1 .. desk[p].run
  BY DEF Revoke
<1>4. RunsInv' /\ ReportsInv'
  BY <1>3 DEF EvalIInv, RunsInv, ReportsInv, OneRun, Running
<1>5. desk[p].run \in 0 .. n /\ \A a \in 1 .. desk[p].run : grants[a].active => a \in desk[p].set
  BY <1>1 DEF Revoke, Knows, KnowsGrants, Desk
<1>6. GrantsInv'
  BY <1>1, <1>2, <1>3, <1>5 DEF EvalIInv, GrantsInv, RevokedStays
<1>7. TablesGrow
  BY <1>1, <1>2, <1>3, EvalBounds DEF TablesGrow, EvalIInv, RunsInv, Running
<1>8. QED
  BY <1>3, <1>4, <1>6, <1>7, LastingDesks DEF EvalIInv

(* The review, the date and the deaths of the trainer.                     *)
LEMMA RestKeepsIInv ==
  ASSUME EvalIInv, StartReview \/ Midnight \/ TrainerDies \/ UNCHANGED evalVars
  PROVE  EvalIInv'
<1>1. /\ UNCHANGED <<runs, reports, grants, withdrawn>>
      /\ day' \in {day, day + 1} /\ day' \in 0 .. MaxDay
      /\ todo' \subseteq DOMAIN runs /\ reviewed' \in -1 .. day'
      /\ \/ desk' = desk
         \/ desk' = [desk EXCEPT ![Trainer] = Free0]
  BY EvalBounds DEF EvalIInv, RunsInv, StartReview, Midnight, TrainerDies, evalVars, ToReview, ReviewDay, Running
<1>2. RunsInv'
  <2>1. \A r \in DOMAIN runs : runs[r].start \in Nat
    <3>1. \A r \in DOMAIN runs : runs[r] \in RunRow
      BY DEF EvalIInv, RunsInv
    <3>2. QED
      BY <3>1, EvalBounds DEF RunRow
  <2>2. ASSUME NEW r \in DOMAIN runs' PROVE runs'[r].start <= day'
    <3>1. r \in DOMAIN runs /\ runs'[r].start = runs[r].start /\ runs[r].start \in Nat
      BY <1>1, <2>1
    <3>2. runs[r].start <= day /\ day \in Nat
      BY <3>1, EvalBounds DEF EvalIInv, RunsInv
    <3>3. day' \in Nat /\ day <= day'
      BY <1>1, <3>2
    <3> QED
      BY <3>1, <3>2, <3>3
  <2>3. OneRun'
    BY <1>1 DEF EvalIInv, RunsInv, OneRun, Running
  <2>4. QED
    BY <1>1, <2>2, <2>3 DEF EvalIInv, RunsInv
<1>3. ReportsInv' /\ GrantsInv'
  BY <1>1 DEF EvalIInv, ReportsInv, GrantsInv, RevokedStays
<1>4. TablesGrow
  BY <1>1, EvalBounds DEF TablesGrow, EvalIInv, RunsInv, GrantsInv, Running
<1>5. Trainer \in Staff
  BY DEF Staff
<1>6. QED
  BY <1>1, <1>2, <1>3, <1>4, <1>5, LastingDesks DEF EvalIInv

LEMMA NextKeepsIInv == EvalIInv /\ [EvalNext]_evalVars => EvalIInv'
<1> SUFFICES ASSUME EvalIInv, [EvalNext]_evalVars PROVE EvalIInv'
  OBVIOUS
<1>1. ASSUME NEW c \in Clients, Serve(c) PROVE EvalIInv'
  <2>1. c \in Staff
    BY DEF Staff
  <2>2. CASE SaveReport(c)
    BY <2>1, <2>2, SaveKeepsIInv DEF SaveReport
  <2>3. CASE ~SaveReport(c)
    BY <1>1, <2>1, <2>3, AsksKeepIInv, StartKeepsIInv, GrantKeepsIInv, RevokeKeepsIInv DEF Serve
  <2>4. QED
    BY <2>2, <2>3
<1>2. CASE Review
  <2>1. Trainer \in Staff
    BY DEF Staff
  <2>2. CASE SaveReview
    <3>1. todo' \subseteq todo /\ reviewed' \in {reviewed, day}
      BY <2>2 DEF SaveReview, ReviewDay
    <3>2. QED
      BY <2>1, <2>2, <3>1, SaveKeepsIInv DEF SaveReview
  <2>3. CASE ~SaveReview
    BY <1>2, <2>1, <2>3, AsksKeepIInv, RestKeepsIInv DEF Review
  <2>4. QED
    BY <2>2, <2>3
<1>3. CASE Midnight \/ TrainerDies \/ UNCHANGED evalVars
  BY <1>3, RestKeepsIInv
<1>4. QED
  BY <1>1, <1>2, <1>3 DEF EvalNext

LEMMA Invariant == EvalSpec => []EvalIInv
BY InitEvaluation, NextKeepsIInv, PTL DEF EvalSpec

(* The rows are what they should be; two runs are active at once only when *)
(* the second was asked for before the first was there (start_run); what   *)
(* was active when a revocation was asked for is revoked once it is told   *)
(* (revoke).                                                               *)
THEOREM RunsAndRevocations == EvalSpec => []EvalInv
<1>1. EvalIInv => EvalInv
  <2> SUFFICES ASSUME EvalIInv PROVE EvalInv
    OBVIOUS
  <2>1. runs \in Seq([start : 0 .. day, finished : BOOLEAN, seen : 0 .. MaxRuns])
    <3>1. Len(runs) \in Nat /\ runs \in [1 .. Len(runs) -> RunRow]
      BY DEF EvalIInv, RunsInv
    <3>2. ASSUME NEW r \in 1 .. Len(runs)
          PROVE  runs[r] \in [start : 0 .. day, finished : BOOLEAN, seen : 0 .. MaxRuns]
      <4>1. runs[r] \in RunRow /\ runs[r].start <= day /\ day \in Nat
        BY <3>1, EvalBounds DEF EvalIInv, RunsInv
      <4>2. runs[r].start \in 0 .. day
        BY <4>1, EvalBounds DEF RunRow
      <4>3. QED
        BY <4>1, <4>2 DEF RunRow
    <3>3. runs \in [1 .. Len(runs) -> [start : 0 .. day, finished : BOOLEAN, seen : 0 .. MaxRuns]]
      BY <3>1, <3>2
    <3>4. QED
      BY <3>1, <3>3, FunctionIsSeq, Zenon
  <2>2. reports \subseteq [run : DOMAIN runs, eligible : BOOLEAN, whole : BOOLEAN]
    BY DEF EvalIInv, ReportsInv, ReportRow
  <2>3. \A a \in DOMAIN grants : grants[a].report \in reports /\ grants[a].active \in BOOLEAN
    <3>1. \A a \in DOMAIN grants : grants[a] \in GrantRow
      BY DEF EvalIInv, GrantsInv
    <3>2. QED
      BY <3>1 DEF EvalIInv, GrantsInv, GrantRow
  <2>4. \A p \in Staff :
          /\ desk[p].step \in {"free", "start", "rows", "save", "grant", "revoke"}
          /\ desk[p].step \in {"rows", "save"} => desk[p].run \in DOMAIN runs
          /\ desk[p].over \in BOOLEAN /\ desk[p].whole \in BOOLEAN
    BY DEF EvalIInv, DesksInv, Desk, Knows, KnowsReport
  <2>5. QED
    BY <2>1, <2>2, <2>3, <2>4 DEF EvalInv, EvalTypeOK, EvalIInv, RunsInv, GrantsInv
<1>2. QED
  BY Invariant, <1>1, PTL

(* Real money is authorized only on a final report of a finished run in    *)
(* which the strategy passed, whose rows were read when the run was over   *)
(* (generate_report, authorize).                                           *)
THEOREM EvidenceFirst == EvalSpec => []GrantedOnEvidence
<1>1. EvalIInv => GrantedOnEvidence
  BY DEF EvalIInv, ReportsInv, GrantsInv, GrantedOnEvidence
<1>2. QED
  BY Invariant, <1>1, PTL

-----------------------------------------------------------------------------
(* The challengers.                                                        *)
Session == [model : 0 .. MaxModels, active : BOOLEAN]

(* No model that a review has not considered has a session; what a review  *)
(* that can still stop all of it has left to stop would leave no more than *)
(* CHALLENGERS_KEPT active.                                                *)
Considered == \A i \in Ids : sessions[i].model <= upto
WillTrim == whole => Cardinality(ActiveOf(sessions) \ toStop) <= ChallengersKept

ChallengerIInv ==
  /\ ChallengerTypeOK /\ sessions \in Seq(Session)
  /\ Considered /\ WillTrim /\ TriedOnce /\ NewestStays

-----------------------------------------------------------------------------
LEMMA ActiveAreFew ==
  ASSUME NEW ss \in Seq(Session)
  PROVE  ActiveOf(ss) \subseteq 1 .. Len(ss) /\ IsFiniteSet(ActiveOf(ss))
<1>1. ActiveOf(ss) \in SUBSET (1 .. Len(ss)) /\ Len(ss) \in Nat
  BY DEF ActiveOf
<1>2. IsFiniteSet(1 .. Len(ss))
  BY <1>1, FS_Interval
<1> QED
  BY <1>1, <1>2, FS_Subset

(* What is beyond the newest that are kept has a newer active session.     *)
LEMMA BeyondIsOlder ==
  ASSUME NEW ss \in Seq(Session), NEW i \in Beyond(ss)
  PROVE  i \in 1 .. Len(ss) /\ i < Len(ss)
<1>1. i \in ActiveOf(ss) /\ i \in 1 .. Len(ss) /\ Len(ss) \in Nat
  BY ActiveAreFew DEF Beyond
<1>2. {j \in ActiveOf(ss) : j > i} # {}
  BY KeptAssumption, FS_EmptySet DEF Beyond
<1>3. PICK j \in ActiveOf(ss) : j > i
  BY <1>2
<1> QED
  BY <1>1, <1>3, ActiveAreFew

LEMMA InitChallengers == ChallengerInit => ChallengerIInv
<1> SUFFICES ASSUME ChallengerInit PROVE ChallengerIInv
  OBVIOUS
<1>1. sessions = <<>> /\ sessions \in Seq(Session) /\ DOMAIN sessions = {} /\ Len(sessions) = 0
  BY DEF ChallengerInit
<1>2. ActiveOf(sessions) \ toStop = {}
  BY <1>1 DEF ActiveOf
<1>3. WillTrim
  BY <1>2, FS_EmptySet, KeptAssumption DEF WillTrim
<1> QED
  BY <1>1, <1>3, ChallengerBounds
  DEF ChallengerInit, ChallengerIInv, ChallengerTypeOK, Considered, TriedOnce, NewestStays, Ids

LEMMA RowsAreTyped ==
  ASSUME NEW ss \in Seq(Session)
  PROVE  \A j \in DOMAIN ss : ss[j].model \in 0 .. MaxModels /\ ss[j].active \in BOOLEAN
<1>1. \A j \in DOMAIN ss : ss[j] \in Session
  OBVIOUS
<1> QED
  BY <1>1 DEF Session

(* A session of a model that no review considered, added to the table.     *)
LEMMA Appending ==
  ASSUME ChallengerIInv, NEW m \in 0 .. models, Len(sessions) < MaxSessions,
         NEW s, s = [model |-> m, active |-> TRUE], sessions' = Append(sessions, s)
  PROVE  /\ sessions' \in Seq(Session) /\ Len(sessions') = Len(sessions) + 1
         /\ Len(sessions') <= MaxSessions /\ Len(sessions) \in Nat
         /\ Ids = 1 .. Len(sessions) /\ Ids' = 1 .. Len(sessions')
         /\ \A i \in Ids : sessions'[i] = sessions[i]
         /\ sessions'[Len(sessions')].model = m /\ sessions'[Len(sessions')].active
<1>1. s \in Session /\ sessions \in Seq(Session) /\ Len(sessions) \in Nat
  BY ChallengerBounds DEF ChallengerIInv, ChallengerTypeOK, Session
<1>2. /\ sessions' \in Seq(Session) /\ Len(sessions') = Len(sessions) + 1
      /\ \A i \in 1 .. Len(sessions) : sessions'[i] = sessions[i]
      /\ sessions'[Len(sessions) + 1] = s
  BY <1>1
<1> QED
  BY <1>1, <1>2, ChallengerBounds DEF Ids

(* A session that is stopped or reset is the one it was otherwise.         *)
LEMMA Flipping ==
  ASSUME ChallengerIInv, NEW i \in Ids, NEW b \in BOOLEAN,
         sessions' = [sessions EXCEPT ![i].active = b]
  PROVE  /\ sessions' \in Seq(Session) /\ Len(sessions') = Len(sessions) /\ Ids' = Ids
         /\ \A j \in Ids : sessions'[j].model = sessions[j].model
         /\ sessions'[i].active = b
         /\ \A j \in Ids \ {i} : sessions'[j].active = sessions[j].active
<1>1. /\ sessions \in Seq(Session) /\ Ids = 1 .. Len(sessions) /\ Len(sessions) \in Nat
      /\ sessions[i] \in Session
  BY DEF ChallengerIInv, Ids
<1> DEFINE s == [sessions[i] EXCEPT !.active = b]
<1>2. s \in Session /\ s.model = sessions[i].model /\ s.active = b
  BY <1>1 DEF Session
<1>3. sessions' = [sessions EXCEPT ![i] = s]
  OBVIOUS
<1> HIDE DEF s
<1>4. sessions' \in Seq(Session) /\ Len(sessions') = Len(sessions)
  BY <1>1, <1>2, <1>3
<1>5. sessions'[i] = s /\ \A j \in Ids \ {i} : sessions'[j] = sessions[j]
  BY <1>1, <1>3
<1> QED
  BY <1>1, <1>2, <1>4, <1>5 DEF Ids

(* The parts of the invariant that speak of models only outlive a step     *)
(* that keeps every session and its model.                                 *)
LEMMA SameModels ==
  ASSUME ChallengerIInv, Ids' = Ids, \A i \in Ids : sessions'[i].model = sessions[i].model,
         upto' = upto, toStop' \subseteq toStop
  PROVE  Considered' /\ TriedOnce' /\ NewestStays'
BY DEF ChallengerIInv, Considered, TriedOnce, NewestStays

LEMMA StopStep ==
  ASSUME ChallengerIInv, NEW i \in Ids, sessions[i].active,
         sessions' = [sessions EXCEPT ![i].active = FALSE],
         toStop' = toStop \ {i} \/ toStop' = toStop,
         UNCHANGED <<models, upto, whole, restarts>>
  PROVE  ChallengerIInv'
<1>1. FALSE \in BOOLEAN
  OBVIOUS
<1>2. /\ sessions' \in Seq(Session) /\ Len(sessions') = Len(sessions) /\ Ids' = Ids
      /\ \A j \in Ids : sessions'[j].model = sessions[j].model
      /\ sessions'[i].active = FALSE
      /\ \A j \in Ids \ {i} : sessions'[j].active = sessions[j].active
  BY <1>1, Flipping
<1>3. Considered' /\ TriedOnce' /\ NewestStays'
  BY <1>2, SameModels
<1>4. ActiveOf(sessions)' \ toStop' \subseteq ActiveOf(sessions) \ toStop
  BY <1>2 DEF ActiveOf, Ids
<1>5. IsFiniteSet(ActiveOf(sessions) \ toStop)
  BY ActiveAreFew, FS_Subset DEF ChallengerIInv
<1>6. WillTrim'
  BY <1>4, <1>5, SmallerIsSmaller, KeptAssumption DEF ChallengerIInv, WillTrim
<1>7. ChallengerTypeOK'
  <2>1. \A j \in Ids' : sessions'[j].active \in BOOLEAN
    BY <1>2, RowsAreTyped DEF Ids
  <2> QED
    BY <1>2, <2>1 DEF ChallengerIInv, ChallengerTypeOK
<1> QED
  BY <1>2, <1>3, <1>6, <1>7 DEF ChallengerIInv

LEMMA ResetStep ==
  ASSUME ChallengerIInv, NEW i \in Ids, OwnerResets(i)
  PROVE  ChallengerIInv'
<1>1. TRUE \in BOOLEAN
  OBVIOUS
<1>2. /\ sessions' \in Seq(Session) /\ Len(sessions') = Len(sessions) /\ Ids' = Ids
      /\ \A j \in Ids : sessions'[j].model = sessions[j].model
  BY <1>1, Flipping DEF OwnerResets
<1>3. Considered' /\ TriedOnce' /\ NewestStays'
  BY <1>2, SameModels DEF OwnerResets
<1>4. ChallengerTypeOK' /\ WillTrim'
  <2>1. \A j \in Ids' : sessions'[j].active \in BOOLEAN
    BY <1>2, RowsAreTyped DEF Ids
  <2> QED
    BY <1>2, <2>1 DEF ChallengerIInv, ChallengerTypeOK, OwnerResets, WillTrim
<1> QED
  BY <1>2, <1>3, <1>4 DEF ChallengerIInv

LEMMA BegunStep ==
  ASSUME ChallengerIInv, StartChallengers
  PROVE  ChallengerIInv'
<1>1. PICK best \in {0} \cup (upto + 1 .. models) :
         /\ best # 0 => Len(sessions) < MaxSessions
         /\ Begun(best)
  BY DEF StartChallengers
<1>2. /\ upto' = models /\ upto < models /\ models \in Nat /\ upto \in Nat
      /\ models <= MaxModels
      /\ UNCHANGED <<models, restarts>> /\ toStop = {}
  BY ChallengerBounds DEF StartChallengers, Mark, ChallengerIInv, ChallengerTypeOK
<1>3. CASE best = 0
  <2>1. sessions' = sessions /\ toStop' = toStop /\ whole' = whole
    BY <1>1, <1>2, <1>3 DEF Begun, ChallengerIInv, ChallengerTypeOK
  <2>2. \A j \in Ids : sessions[j].model \in 0 .. MaxModels
    BY RowsAreTyped DEF ChallengerIInv, Ids
  <2>3. Considered'
    BY <1>2, <2>1, <2>2 DEF ChallengerIInv, Considered, Ids
  <2> QED
    BY <1>2, <2>1, <2>3
    DEF ChallengerIInv, ChallengerTypeOK, WillTrim, TriedOnce, NewestStays, Ids, ActiveOf
<1>4. CASE best # 0
  <2> DEFINE s == [model |-> best, active |-> TRUE]
             n == Len(sessions')
  <2>1. best \in upto + 1 .. models /\ best \in 0 .. models
    BY <1>1, <1>2, <1>4
  <2>2. sessions' = Append(sessions, s) /\ Len(sessions) < MaxSessions /\ whole' = TRUE
    BY <1>1, <1>4 DEF Begun, ChallengerIInv, ChallengerTypeOK
  <2>3. toStop' = Beyond(sessions')
    BY <1>1, <1>4 DEF Begun, Surplus
  <2>4. /\ sessions' \in Seq(Session) /\ n = Len(sessions) + 1
        /\ n <= MaxSessions /\ Len(sessions) \in Nat
        /\ Ids = 1 .. Len(sessions) /\ Ids' = 1 .. n
        /\ \A i \in Ids : sessions'[i] = sessions[i]
        /\ sessions'[n].model = best /\ sessions'[n].active
    BY <2>1, <2>2, Appending
  <2> HIDE DEF s, n
  <2>5. /\ \A i \in Ids : sessions[i].model \in 0 .. upto
        /\ \A i \in Ids' : i = n \/ i \in Ids
    <3>1. \A i \in Ids : sessions[i].model \in 0 .. MaxModels
      BY RowsAreTyped DEF ChallengerIInv, Ids
    <3> QED
      BY <1>2, <2>4, <3>1 DEF ChallengerIInv, Considered
  <2>6. Considered'
    BY <1>2, <2>1, <2>4, <2>5 DEF Considered
  <2>7. TriedOnce'
    <3>1. ASSUME NEW i \in Ids PROVE sessions[i].model # best
      <4>1. sessions[i].model <= upto /\ sessions[i].model \in Nat /\ upto \in Nat
        BY <1>2, <2>5
      <4>2. best > upto
        BY <2>1, <4>1
      <4> QED
        BY <4>1, <4>2
    <3>2. SUFFICES ASSUME NEW i \in Ids', NEW j \in Ids', sessions'[i].model # 0,
                          sessions'[i].model = sessions'[j].model
                   PROVE  i = j
      BY DEF TriedOnce
    <3>3. CASE i \in Ids /\ j \in Ids
      BY <2>4, <3>2, <3>3 DEF TriedOnce, ChallengerIInv
    <3>4. CASE i = n \/ j = n
      BY <2>4, <2>5, <3>1, <3>2, <3>4
    <3> QED
      BY <2>5, <3>3, <3>4
  <2>8. \A i \in toStop' : i \in Ids' /\ i < n
    BY <2>3, <2>4, BeyondIsOlder DEF n
  <2>9. NewestStays'
    <3>1. n \in Ids' /\ sessions'[n].model # 0
      BY <1>4, <2>4
    <3> QED
      BY <2>8, <3>1 DEF NewestStays
  <2>10. WillTrim'
    <3>1. ActiveOf(sessions') \ toStop' \subseteq
            {i \in ActiveOf(sessions') :
               Cardinality({j \in ActiveOf(sessions') : j > i}) < ChallengersKept}
      <4>1. ASSUME NEW i \in ActiveOf(sessions') \ toStop'
            PROVE  Cardinality({j \in ActiveOf(sessions') : j > i}) < ChallengersKept
        <5>1. IsFiniteSet({j \in ActiveOf(sessions') : j > i})
          BY <2>4, ActiveAreFew, FS_Subset
        <5>2. Cardinality({j \in ActiveOf(sessions') : j > i}) \in Nat
          BY <5>1, FS_CardinalityType
        <5>3. ~(Cardinality({j \in ActiveOf(sessions') : j > i}) >= ChallengersKept)
          BY <2>3 DEF Beyond
        <5> QED
          BY <5>2, <5>3, KeptAssumption
      <4> QED
        BY <4>1
    <3>2. ActiveOf(sessions') \subseteq 1 .. n /\ n \in Nat
      BY <2>4, ActiveAreFew DEF n
    <3>3. Cardinality(ActiveOf(sessions') \ toStop') <= ChallengersKept
      BY <3>1, <3>2, FewHaveFewAbove, KeptAssumption
    <3> QED
      BY <3>3 DEF WillTrim
  <2>11. ChallengerTypeOK'
    <3>1. \A i \in Ids' : sessions'[i].active \in BOOLEAN
      BY <2>4, RowsAreTyped DEF Ids
    <3>2. \A i \in Ids' : sessions'[i].model \in 0 .. models
      BY <1>2, <2>1, <2>4, <2>5
    <3> QED
      BY <1>2, <2>2, <2>4, <2>8, <3>1, <3>2 DEF ChallengerTypeOK, ChallengerIInv, n
  <2> QED
    BY <2>4, <2>6, <2>7, <2>9, <2>10, <2>11 DEF ChallengerIInv
<1> QED
  BY <1>3, <1>4

LEMMA EvaluatedStep ==
  ASSUME ChallengerIInv, StartEvaluated
  PROVE  ChallengerIInv'
<1> DEFINE s == [model |-> 0, active |-> TRUE]
<1>1. /\ UNCHANGED <<models, upto, toStop, restarts>> /\ whole' = FALSE
      /\ models \in Nat /\ upto \in Nat /\ 0 \in 0 .. models
  BY ChallengerBounds DEF StartEvaluated, ChallengerIInv, ChallengerTypeOK
<1>2. sessions' = Append(sessions, s) /\ Len(sessions) < MaxSessions
  BY DEF StartEvaluated
<1>3. /\ sessions' \in Seq(Session) /\ Len(sessions') = Len(sessions) + 1
      /\ Len(sessions') <= MaxSessions /\ Len(sessions) \in Nat
      /\ Ids = 1 .. Len(sessions) /\ Ids' = 1 .. Len(sessions')
      /\ \A i \in Ids : sessions'[i] = sessions[i]
      /\ sessions'[Len(sessions')].model = 0
  BY <1>1, <1>2, Appending
<1>4. \A i \in Ids' : i \in Ids \/ sessions'[i].model = 0
  BY <1>3
<1>5. Considered' /\ TriedOnce'
  BY <1>1, <1>3, <1>4 DEF ChallengerIInv, Considered, TriedOnce
<1>6. NewestStays'
  BY <1>1, <1>3 DEF ChallengerIInv, NewestStays
<1>7. ChallengerTypeOK' /\ WillTrim'
  <2>1. \A i \in Ids' : sessions'[i].active \in BOOLEAN
    BY <1>3, RowsAreTyped DEF Ids
  <2>2. \A i \in Ids' : sessions'[i].model \in 0 .. models
    BY <1>1, <1>3, <1>4 DEF ChallengerIInv, ChallengerTypeOK
  <2>3. toStop' \subseteq Ids'
    BY <1>1, <1>3 DEF ChallengerIInv, ChallengerTypeOK
  <2>4. ChallengerTypeOK'
    BY <1>1, <1>3, <2>1, <2>2, <2>3 DEF ChallengerIInv, ChallengerTypeOK
  <2> QED
    BY <1>1, <2>4 DEF WillTrim
<1> QED
  BY <1>3, <1>5, <1>6, <1>7 DEF ChallengerIInv

-----------------------------------------------------------------------------
LEMMA NextIInv == ChallengerIInv /\ [ChallengerNext]_challengerVars => ChallengerIInv'
<1> SUFFICES ASSUME ChallengerIInv, [ChallengerNext]_challengerVars PROVE ChallengerIInv'
  OBVIOUS
<1>1. ASSUME Train PROVE ChallengerIInv'
  <2>1. models \in Nat /\ models' = models + 1 /\ upto \in Nat
    BY <1>1, ChallengerBounds DEF Train, ChallengerIInv, ChallengerTypeOK
  <2>2. ChallengerTypeOK'
    BY <1>1, <2>1, ChallengerBounds DEF Train, ChallengerIInv, ChallengerTypeOK, Ids
  <2> QED
    BY <1>1, <2>2
    DEF Train, ChallengerIInv, WillTrim, TriedOnce, NewestStays, Considered, Ids, ActiveOf
<1>2. ASSUME StopNext PROVE ChallengerIInv'
  <2> DEFINE i == Max(toStop)
  <2>1. i \in toStop /\ i \in Ids
    <3>1. toStop \subseteq 1 .. Len(sessions) /\ Len(sessions) \in Nat /\ toStop # {}
      BY <1>2 DEF StopNext, ChallengerIInv, ChallengerTypeOK, Ids
    <3> QED
      BY <3>1, MaxIsGreatest DEF ChallengerIInv, ChallengerTypeOK
  <2>2. CASE /\ sessions[i].active
             /\ sessions' = [sessions EXCEPT ![i].active = FALSE]
             /\ toStop' = toStop \ {i} /\ UNCHANGED whole
    BY <1>2, <2>1, <2>2, StopStep DEF StopNext
  <2>3. CASE toStop' = {} /\ whole' = FALSE /\ UNCHANGED sessions
    <3>1. UNCHANGED <<models, upto, sessions, restarts>> /\ toStop' = {} /\ whole' = FALSE
      BY <1>2, <2>3 DEF StopNext
    <3>2. ChallengerTypeOK' /\ WillTrim'
      BY <3>1 DEF ChallengerIInv, ChallengerTypeOK, WillTrim, Ids
    <3> QED
      BY <3>1, <3>2 DEF ChallengerIInv, Considered, TriedOnce, NewestStays, Ids
  <2> QED
    BY <1>2, <2>2, <2>3 DEF StopNext
<1>3. ASSUME TrainerRestarts PROVE ChallengerIInv'
  <2>1. UNCHANGED <<models, upto, sessions>> /\ toStop' = {}
    BY <1>3 DEF TrainerRestarts
  <2>2. ChallengerTypeOK'
    BY <1>3, <2>1, ChallengerBounds DEF TrainerRestarts, ChallengerIInv, ChallengerTypeOK, Ids
  <2>3. WillTrim'
    <3>1. whole' => whole /\ toStop' = toStop
      BY <1>3 DEF TrainerRestarts, ChallengerIInv, ChallengerTypeOK
    <3> QED
      BY <2>1, <3>1 DEF ChallengerIInv, WillTrim
  <2> QED
    BY <2>1, <2>2, <2>3 DEF ChallengerIInv, Considered, TriedOnce, NewestStays, Ids
<1>4. ASSUME NEW i \in Ids, OwnerStops(i) PROVE ChallengerIInv'
  BY <1>4, StopStep DEF OwnerStops
<1>5. ASSUME UNCHANGED challengerVars PROVE ChallengerIInv'
  BY <1>5
  DEF challengerVars, ChallengerIInv, ChallengerTypeOK, WillTrim, Considered, TriedOnce,
      NewestStays, Ids, ActiveOf
<1> QED
  BY <1>1, <1>2, <1>3, <1>4, <1>5, BegunStep, EvaluatedStep, ResetStep DEF ChallengerNext

(* Whatever cuts a review of the challengers off, at most CHALLENGERS_KEPT *)
(* sessions are active after one that could stop all it listed, no model   *)
(* is tried twice and the newest in trial is not among those to be stopped *)
(* (analysis.py start_challengers, run_challengers).                       *)
THEOREM ReviewsKeepTheNewest == ChallengerSpec => []ChallengerInv
<1>1. ChallengerIInv => ChallengerInv
  <2> SUFFICES ASSUME ChallengerIInv PROVE ChallengerInv
    OBVIOUS
  <2>1. toStop = {} => ActiveOf(sessions) \ toStop = ActiveOf(sessions)
    OBVIOUS
  <2>2. Trimmed
    BY <2>1 DEF ChallengerIInv, WillTrim, Trimmed
  <2> QED
    BY <2>2 DEF ChallengerIInv, ChallengerInv
<1> QED
  BY InitChallengers, NextIInv, <1>1, PTL DEF ChallengerSpec
=============================================================================
