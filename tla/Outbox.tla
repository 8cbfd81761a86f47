-------------------------------- MODULE Outbox --------------------------------
(***************************************************************************)
(* Notifications (notify/service.py): rows that every component adds in    *)
(* the transaction of what they tell about, and the notify worker that     *)
(* sends them to Telegram in one transaction per batch.  The owner deletes *)
(* rows and mutes categories meanwhile; the messenger refuses messages,    *)
(* loses them, or takes one and loses the answer; the worker dies.         *)
(***************************************************************************)
EXTENDS Integers, Sequences, FiniteSetsExt

CONSTANTS
  Problems,    \* what a "system" message can be about
  Limit,       \* rows in one batch
  MaxPosts,    \* bound: rows of the other components
  MaxTurns     \* bound: deletions, changes of the settings, deaths

ASSUME LimitAssumption == Limit \in Nat \ {0}
ASSUME OutboxBounds == MaxPosts \in Nat /\ MaxTurns \in Nat

VARIABLES
  rows,       \* Notification, by id
  muted,      \* categories switched off in SystemSetting "notifications"
  at,         \* where the worker is: check, read, send
  batch,      \* ids read and not sent yet
  marks,      \* ids with telegram_sent set in the open transaction
  told,       \* ids that have reached the owner
  skipped,    \* ids that were muted when a batch was read
  posts, turns  \* events so far

outboxVars == <<rows, muted, at, batch, marks, told, skipped, posts, turns>>

Kinds == {"news", "virtual", "system"}
Row(kind, refused, about, time) ==
  [kind |-> kind, refused |-> refused, about |-> about, time |-> time,
   sent |-> FALSE, deleted |-> FALSE]
Ids == DOMAIN rows

OutboxTypeOK ==
  /\ \A i \in Ids : rows[i].kind \in Kinds /\ rows[i].about \subseteq Problems
  /\ muted \subseteq Kinds
  /\ at \in {"check", "read", "send"}
  /\ batch \cup marks \cup told \cup skipped \subseteq Ids
  /\ batch \cap marks = {} /\ Cardinality(batch \cup marks) <= Limit
  /\ posts \in 0 .. MaxPosts /\ turns \in 0 .. MaxTurns

OutboxInit ==
  /\ rows = <<>> /\ muted = {}
  /\ at = "check" /\ batch = {} /\ marks = {}
  /\ told = {} /\ skipped = {}
  /\ posts = 0 /\ turns = 0

-----------------------------------------------------------------------------
(* The other components and the owner.                                     *)

(* notify, from paper sessions (virtual alerts) or anything else.  Some    *)
(* messages Telegram will never take.                                      *)
Post ==
  /\ posts < MaxPosts
  /\ posts' = posts + 1
  /\ \E k \in {"news", "virtual"}, bad \in BOOLEAN :
       rows' = Append(rows, Row(k, bad /\ k = "news", {}, 0))
  /\ UNCHANGED <<muted, at, batch, marks, told, skipped, turns>>

DeleteRow ==
  /\ turns < MaxTurns
  /\ turns' = turns + 1
  /\ \E i \in Ids : ~rows[i].deleted /\ rows' = [rows EXCEPT ![i].deleted = TRUE]
  /\ UNCHANGED <<muted, at, batch, marks, told, skipped, posts>>

SetPrefs ==
  /\ turns < MaxTurns
  /\ turns' = turns + 1
  /\ \E k \in Kinds : muted' = IF k \in muted THEN muted \ {k} ELSE muted \cup {k}
  /\ UNCHANGED <<rows, at, batch, marks, told, skipped, posts>>

-----------------------------------------------------------------------------
(* dispatch_telegram.                                                      *)

Unsent == {i \in Ids : ~rows[i].sent /\ ~rows[i].deleted}
First(S, n) == {i \in S : Cardinality({j \in S : j < i}) < n}

ReadBatch ==
  /\ at = "read"
  /\ LET read == First(Unsent, Limit)
         off  == {i \in read : rows[i].kind \in muted}
     IN /\ batch' = read \ off
        /\ marks' = off
        /\ skipped' = skipped \cup off
  /\ at' = "send"
  /\ UNCHANGED <<rows, muted, told, posts, turns>>

Virtual == {i \in batch : rows[i].kind = "virtual"}
(* One message for all virtual alerts, before anything else.               *)
NextGroup == IF Virtual # {} THEN Virtual ELSE {Min(batch)}
Refused == \E i \in NextGroup : rows[i].refused

(* What a failed send does to the batch.  Slip: the next one is tried.     *)
GoOn == batch \ NextGroup
GiveUp == {}

(* Which rows are marked.  Slip: also those whose answer did not come.     *)
MarkedAnyway(ok) == marks \cup NextGroup
Marked(ok) == IF ok THEN marks \cup NextGroup ELSE marks

Send ==
  /\ at = "send" /\ batch # {}
  /\ \/ /\ ~Refused                             \* HTTP 200
        /\ told' = told \cup NextGroup
        /\ batch' = batch \ NextGroup
        /\ marks' = Marked(TRUE)
     \/ /\ told' = told                          \* an error, or another status
        /\ batch' = GiveUp
        /\ marks' = Marked(FALSE)
     \/ /\ ~Refused                             \* taken, but the answer is lost
        /\ told' = told \cup NextGroup
        /\ batch' = GiveUp
        /\ marks' = Marked(FALSE)
  /\ UNCHANGED <<rows, muted, at, skipped, posts, turns>>

(* An UPDATE of a row that is gone fails and undoes the whole transaction. *)
Commit ==
  /\ at = "send" /\ batch = {}
  /\ rows' = IF \E i \in marks : rows[i].deleted THEN rows
             ELSE [i \in Ids |-> IF i \in marks THEN [rows[i] EXCEPT !.sent = TRUE] ELSE rows[i]]
  /\ marks' = {}
  /\ at' = "check"
  /\ UNCHANGED <<muted, batch, told, skipped, posts, turns>>

(* The worker dies, or an exception other than an HTTP error ends the      *)
(* cycle: the transaction is rolled back.                                  *)
Lose ==
  /\ turns < MaxTurns /\ at # "check"
  /\ turns' = turns + 1
  /\ at' = "check" /\ batch' = {} /\ marks' = {}
  /\ UNCHANGED <<rows, muted, told, skipped, posts>>

Dispatch == ReadBatch \/ Send \/ Commit
OutboxNext == Post \/ DeleteRow \/ SetPrefs \/ Dispatch \/ Lose

-----------------------------------------------------------------------------
(* A row is marked only after the owner got it or did not want it, through *)
(* deaths, rollbacks and lost answers (notify/service.py:70-86).           *)
SentMeansTold == \A i \in Ids : rows[i].sent => i \in told \cup skipped

(* Messages other than virtual alerts arrive in the order of their ids:    *)
(* a failure stops the batch (82-83), so none overtakes an older one.      *)
InOrder ==
  \A i, j \in Ids :
    /\ i < j /\ j \in told
    /\ rows[i].kind # "virtual" /\ rows[j].kind # "virtual"
    => i \in told \cup skipped \/ rows[i].deleted

(* Nothing keeps a message from the owner except his own settings and an   *)
(* older one that Telegram refuses, which holds up all that follow.        *)
Settled(i) ==
  \/ i \in told \cup skipped \/ rows[i].deleted
  \/ \E j \in 1 .. i : rows[j].refused /\ j \in Unsent
=============================================================================
