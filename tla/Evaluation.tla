------------------------------ MODULE Evaluation ------------------------------
(***************************************************************************)
(* The 30-day evaluation and the authorization it leads to                 *)
(* (quantlab/evaluation/report.py, evaluation/approval.py, the daily       *)
(* review of worker.run_trainer, the handlers of api/app.py).  Requests    *)
(* are served by several threads and the trainer is a process of its own.  *)
(* A transaction that reads rows and writes by what it read is two steps:  *)
(* under READ COMMITTED others commit in between.  Environment "live".     *)
(***************************************************************************)
EXTENDS Integers, Sequences, FiniteSets

CONSTANTS
  Clients,     \* requests the API serves at once
  Duration,    \* duration_days of a run
  MaxDay,      \* bound: days
  MaxRuns,     \* bound: evaluation runs
  MaxGrants,   \* bound: authorizations
  MaxLosses    \* bound: deaths of the trainer

ASSUME EvalBounds ==
  /\ Duration \in Nat /\ MaxDay \in Nat /\ MaxRuns \in Nat /\ MaxGrants \in Nat
  /\ MaxLosses \in Nat

VARIABLES
  day,       \* the date
  runs,      \* EvaluationRun, by id
  reports,   \* the final ones of EvaluationReport (equal rows are one)
  grants,    \* LiveAuthorization, by id
  desk,      \* what each process is doing
  todo,      \* runs the review of the trainer has yet to report on
  reviewed,  \* SystemSetting "review": day of the last review
  withdrawn, \* authorizations that existed when a finished revocation was asked for
  losses     \* deaths of the trainer

evalVars == <<day, runs, reports, grants, desk, todo, reviewed, withdrawn, losses>>

Trainer == "trainer"
Staff == Clients \cup {Trainer}
Free0 == [step |-> "free", run |-> 0, over |-> FALSE, whole |-> FALSE, report |-> {}, set |-> {}]
Running == {r \in DOMAIN runs : ~runs[r].finished}
Active == {a \in DOMAIN grants : grants[a].active}

EvalTypeOK ==
  /\ day \in 0 .. MaxDay /\ reviewed \in -1 .. day
  /\ runs \in Seq([start : 0 .. day, finished : BOOLEAN, seen : 0 .. MaxRuns])
  /\ reports \subseteq [run : DOMAIN runs, eligible : BOOLEAN, whole : BOOLEAN]
  /\ \A a \in DOMAIN grants : grants[a].report \in reports /\ grants[a].active \in BOOLEAN
  /\ \A p \in Staff :
       /\ desk[p].step \in {"free", "start", "rows", "save", "grant", "revoke"}
       /\ desk[p].step \in {"rows", "save"} => desk[p].run \in DOMAIN runs
       /\ desk[p].over \in BOOLEAN /\ desk[p].whole \in BOOLEAN
  /\ todo \subseteq DOMAIN runs /\ withdrawn \subseteq DOMAIN grants

EvalInit ==
  /\ day = 0 /\ reviewed = -1
  /\ runs = <<>> /\ reports = {} /\ grants = <<>>
  /\ desk = [p \in Staff |-> Free0]
  /\ todo = {} /\ withdrawn = {} /\ losses = 0

-----------------------------------------------------------------------------
(* start_run: no run may be running; then the run and its sessions are     *)
(* inserted.  Slip: nothing is looked at.                                  *)
AnyTime == TRUE
NoneRunning == Running = {}

AskRun(c) ==
  /\ desk[c].step = "free" /\ NoneRunning
  /\ Len(runs) < MaxRuns /\ day + Duration <= MaxDay
  /\ desk' = [desk EXCEPT ![c] = [Free0 EXCEPT !.step = "start", !.run = Len(runs)]]
  /\ UNCHANGED <<day, runs, reports, grants, todo, reviewed, withdrawn, losses>>

StartRun(c) ==
  /\ desk[c].step = "start" /\ Len(runs) < MaxRuns /\ day + Duration <= MaxDay
  /\ runs' = Append(runs, [start |-> day, finished |-> FALSE, seen |-> desk[c].run])
  /\ desk' = [desk EXCEPT ![c] = Free0]
  /\ UNCHANGED <<day, reports, grants, todo, reviewed, withdrawn, losses>>

-----------------------------------------------------------------------------
(* generate_report: whether the run is over is decided first, then its     *)
(* sessions are read, then the report is saved.                            *)
Ended(r) == day >= runs[r].start + Duration
Report(p, r) ==
  desk' = [desk EXCEPT ![p] = [Free0 EXCEPT !.step = "rows", !.run = r, !.over = Ended(r)]]

(* The request is for the newest run.                                      *)
AskReport(c) ==
  /\ desk[c].step = "free" /\ runs # <<>>
  /\ Report(c, Len(runs))
  /\ UNCHANGED <<day, runs, reports, grants, todo, reviewed, withdrawn, losses>>

(* build_rows: the rows tell of the sessions as they are now.  `whole`     *)
(* keeps whether that is at the end of the run.                            *)
ReadRows(p) ==
  /\ desk[p].step = "rows"
  /\ desk' = [desk EXCEPT ![p].step = "save", ![p].whole = Ended(desk[p].run)]
  /\ UNCHANGED <<day, runs, reports, grants, todo, reviewed, withdrawn, losses>>

(* Slip: whether the run is over is asked when the report is saved.        *)
OverNow(p) == Ended(desk[p].run)
Over(p) == desk[p].over

(* A report that is not final is not kept here: nothing depends on one.    *)
(* Whether the strategy passed is up to its trades.                        *)
Saved(p) ==
  /\ IF Over(p)
     THEN /\ \E passed \in BOOLEAN :
               reports' = reports \cup {[run |-> desk[p].run, eligible |-> passed, whole |-> desk[p].whole]}
          /\ runs' = [runs EXCEPT ![desk[p].run].finished = TRUE]
     ELSE UNCHANGED <<reports, runs>>
  /\ desk' = [desk EXCEPT ![p] = Free0]

SaveReport(p) ==
  /\ desk[p].step = "save"
  /\ Saved(p)
  /\ UNCHANGED <<day, grants, todo, reviewed, withdrawn, losses>>

(* The review of the trainer: once a day, every run that is running.       *)
(* The last day stands for all that follow.  Slip: only the newest run is  *)
(* reported on.                                                            *)
NewestRunning == {r \in Running : r = Len(runs)}
ToReview == Running
ReviewDay == day

StartReview ==
  /\ desk[Trainer].step = "free" /\ todo = {} /\ (reviewed < day \/ day = MaxDay)
  /\ todo' = ToReview
  /\ IF ToReview = {} THEN reviewed' = ReviewDay ELSE UNCHANGED reviewed
  /\ UNCHANGED <<day, runs, reports, grants, desk, withdrawn, losses>>

ReviewRun(r) ==
  /\ desk[Trainer].step = "free" /\ r \in todo /\ \A o \in todo : r <= o
  /\ Report(Trainer, r)
  /\ UNCHANGED <<day, runs, reports, grants, todo, reviewed, withdrawn, losses>>

(* The report of the trainer, after which the review goes on or is noted.  *)
SaveReview ==
  /\ desk[Trainer].step = "save"
  /\ Saved(Trainer)
  /\ todo' = todo \ {desk[Trainer].run}
  /\ reviewed' = IF todo' = {} THEN ReviewDay ELSE reviewed
  /\ UNCHANGED <<day, grants, withdrawn, losses>>

-----------------------------------------------------------------------------
(* authorize: a final report of a finished run in which the strategy       *)
(* passed; the authorizations that are active then are revoked with it.    *)
Qualifies(rep) == runs[rep.run].finished /\ rep.eligible

AskGrant(c, rep) ==
  /\ desk[c].step = "free" /\ Qualifies(rep) /\ Len(grants) < MaxGrants
  /\ desk' = [desk EXCEPT ![c] = [Free0 EXCEPT !.step = "grant", !.report = {rep}, !.set = Active]]
  /\ UNCHANGED <<day, runs, reports, grants, todo, reviewed, withdrawn, losses>>

Revoked(S) == [a \in DOMAIN grants |-> [grants[a] EXCEPT !.active = @ /\ a \notin S]]

Grant(c) ==
  /\ desk[c].step = "grant" /\ Len(grants) < MaxGrants
  /\ grants' = Append(Revoked(desk[c].set), [report |-> CHOOSE rep \in desk[c].report : TRUE, active |-> TRUE])
  /\ desk' = [desk EXCEPT ![c] = Free0]
  /\ UNCHANGED <<day, runs, reports, todo, reviewed, withdrawn, losses>>

(* revoke.  `run` keeps how many there were.  Slip: the one in force.      *)
InForce == {a \in Active : \A b \in Active : b <= a}
ToRevoke == Active

AskRevoke(c) ==
  /\ desk[c].step = "free" /\ Active # {}
  /\ desk' = [desk EXCEPT ![c] = [Free0 EXCEPT !.step = "revoke", !.run = Len(grants), !.set = ToRevoke]]
  /\ UNCHANGED <<day, runs, reports, grants, todo, reviewed, withdrawn, losses>>

Revoke(c) ==
  /\ desk[c].step = "revoke"
  /\ grants' = Revoked(desk[c].set)
  /\ withdrawn' = withdrawn \cup 1 .. desk[c].run
  /\ desk' = [desk EXCEPT ![c] = Free0]
  /\ UNCHANGED <<day, runs, reports, todo, reviewed, losses>>

-----------------------------------------------------------------------------
Midnight ==
  /\ day < MaxDay /\ day' = day + 1
  /\ UNCHANGED <<runs, reports, grants, desk, todo, reviewed, withdrawn, losses>>

TrainerDies ==
  /\ losses < MaxLosses /\ losses' = losses + 1
  /\ desk' = [desk EXCEPT ![Trainer] = Free0] /\ todo' = {}
  /\ UNCHANGED <<day, runs, reports, grants, reviewed, withdrawn>>

Review == StartReview \/ (\E r \in DOMAIN runs : ReviewRun(r)) \/ ReadRows(Trainer) \/ SaveReview
Serve(c) ==
  \/ AskRun(c) \/ StartRun(c) \/ AskReport(c) \/ ReadRows(c) \/ SaveReport(c)
  \/ (\E rep \in reports : AskGrant(c, rep)) \/ Grant(c) \/ AskRevoke(c) \/ Revoke(c)
EvalNext == Review \/ (\E c \in Clients : Serve(c)) \/ Midnight \/ TrainerDies

EvalSpec == EvalInit /\ [][EvalNext]_evalVars

(* The trainer goes on and days pass; nobody has to ask for anything.      *)
EvalFairness == WF_evalVars(Review) /\ WF_evalVars(Midnight)

-----------------------------------------------------------------------------
(* Real money is only ever authorized by a final report: its run is        *)
(* finished, its strategy passed, and its rows were read when all the days *)
(* of the run were over, however long the report took (authorize,          *)
(* generate_report).                                                       *)
GrantedOnEvidence ==
  \A a \in DOMAIN grants :
    LET rep == grants[a].report IN
    rep.eligible /\ rep.whole /\ runs[rep.run].finished

(* "an evaluation run is already active": two runs are active at once only *)
(* if the second was asked for before the first was there (start_run).     *)
OneRun == \A r \in Running, q \in DOMAIN runs : q > r => runs[q].seen < r

(* When the owner has been told that the authorization is revoked, none    *)
(* that was there when it was asked for is active, though two              *)
(* authorizations at once may both have been (revoke).                     *)
RevokedStays == \A a \in withdrawn : ~grants[a].active

(* The rows of runs and authorizations.                                    *)
EvalInv == EvalTypeOK /\ OneRun /\ RevokedStays

(* Every run comes to its end and its final report without the owner,      *)
(* through a death of the trainer and with two runs active at once         *)
(* (run_trainer).                                                          *)
RunsFinish ==
  \A r \in 1 .. MaxRuns : r \in DOMAIN runs ~> \E rep \in reports : rep.run = r
=============================================================================
