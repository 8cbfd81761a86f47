----------------------------- MODULE CandleStore -----------------------------
(***************************************************************************)
(* The candle file of one pair and timeframe (market/store.py) and the     *)
(* processes that bring it up to date with services.sync_dataset: the      *)
(* market worker after every candle, and the jobs worker whenever a job    *)
(* needs data.  Both write through the same temporary file.                *)
(*                                                                         *)
(* A candle is its number; a file is an inode, because a name can be moved *)
(* to another inode while a process still writes to the old one.           *)
(***************************************************************************)
EXTENDS Integers, FiniteSets, FiniteSetsExt

CONSTANTS
  Syncers,     \* the processes; "market" is one of them
  Listed,      \* the candles the exchange has (it can have gaps)
  MarketStart, \* `since` of the market worker
  Starts,      \* values of `since` in jobs; 0 is None
  FirstFetch,  \* candles fetched when there is no file and no `since`
  MaxClosed,   \* bound: candles closed
  MaxJobs,     \* bound: synchronisations asked of the other processes
  MaxDeaths    \* bound: processes killed

ASSUME StoreBounds ==
  /\ IsFiniteSet(Syncers) /\ "market" \in Syncers
  /\ Listed \subseteq Nat \ {0}
  /\ MarketStart \in Nat /\ Starts \subseteq Nat /\ FirstFetch \in Nat
  /\ MaxClosed \in Nat \ {0} /\ MaxJobs \in Nat /\ MaxDeaths \in Nat

VARIABLES
  closed,      \* candles closed so far
  file,        \* inode the dataset's name points to
  temp,        \* inode the temporary name points to
  inode,       \* content of the inodes
  syncer,      \* the processes
  synced,      \* run_market's last_sync
  jobs,        \* synchronisations asked for so far
  deaths,      \* processes killed so far
  overlapped,  \* two saves were at work on the temporary file at once
  overtaken    \* a save replaced a file that had changed since it began

storeVars == <<closed, file, temp, inode, syncer, synced, jobs, deaths, overlapped, overtaken>>

(* Enough inodes: one behind each name, one for each open file.            *)
NoInode == 0
Inodes  == 1 .. (Cardinality(Syncers) + 2)
Candles == 1 .. MaxClosed
Empty   == [data |-> {}, state |-> "partial", by |-> "nobody"]
Resting == [pc |-> "idle", since |-> 0, want |-> 0, limit |-> 0, buf |-> {},
            then |-> "idle", fd |-> NoInode, stale |-> FALSE]

StoreTypeOK ==
  /\ closed \in Candles /\ synced \in 0 .. MaxClosed
  /\ file \in {NoInode} \cup Inodes /\ temp \in {NoInode} \cup Inodes
  /\ inode \in [Inodes -> [data : SUBSET (1 .. (MaxClosed + 1)),
                           state : {"partial", "good", "mixed"},
                           by : Syncers \cup {"nobody"}]]
  /\ \A p \in Syncers : syncer[p].pc \in
       {"idle", "look", "begin", "load", "fetch", "open", "write", "replace"}
  /\ jobs \in 0 .. MaxJobs /\ deaths \in 0 .. MaxDeaths
  /\ overlapped \in BOOLEAN /\ overtaken \in BOOLEAN

StoreInit ==
  /\ closed = 1 /\ synced = 0
  /\ file = NoInode /\ temp = NoInode
  /\ inode = [i \in Inodes |-> Empty]
  /\ syncer = [p \in Syncers |-> Resting]
  /\ jobs = 0 /\ deaths = 0
  /\ overlapped = FALSE /\ overtaken = FALSE

-----------------------------------------------------------------------------
(* load: an empty frame when there is no file, an exception when the file  *)
(* is not a complete one.                                                  *)
Readable == file # NoInode => inode[file].state = "good"
Data     == IF file = NoInode THEN {} ELSE inode[file].data
From(a, b) == {c \in Listed : a <= c /\ c <= b}

(* The newest candle to store.  Slip: the one still forming.               *)
Forming == closed + 1
LastClosed == closed

(* Where a download begins.  Slip: one candle after that.                  *)
SkipsOne(have, since, limit) ==
  IF have # {} THEN Max(have) + 2
  ELSE IF since > 0 THEN since
  ELSE Max({1, limit - FirstFetch})
Cursor(have, since, limit) ==
  IF have # {} THEN Max(have) + 1
  ELSE IF since > 0 THEN since
  ELSE Max({1, limit - FirstFetch})
Step(p, next) == syncer' = [syncer EXCEPT ![p] = next]
Fails(p)      == Step(p, Resting)
UnchangedFile == UNCHANGED <<file, temp, inode, overlapped, overtaken>>
UnchangedWorld == UNCHANGED <<closed, jobs, deaths>>

(* run_market: once per candle, again when it failed.                      *)
StartMarket ==
  /\ syncer["market"].pc = "idle" /\ synced < closed
  /\ Step("market", [Resting EXCEPT !.pc = "look", !.since = MarketStart, !.want = closed])
  /\ UnchangedFile /\ UnchangedWorld /\ UNCHANGED synced

(* _ensure_data and _do_sync of the jobs worker.                           *)
StartJob(p) ==
  /\ p # "market" /\ syncer[p].pc = "idle" /\ jobs < MaxJobs
  /\ jobs' = jobs + 1
  /\ \E s \in Starts : Step(p, [Resting EXCEPT !.pc = "look", !.since = s])
  /\ UnchangedFile /\ UNCHANGED <<closed, deaths, synced>>

(* sync_dataset: candles older than the file holds are fetched first, and  *)
(* saved with what was loaded here.                                        *)
NeedsOlder(have, since) == since > 0 /\ have # {} /\ Min(have) > since + 1

Look(p) ==
  /\ syncer[p].pc = "look"
  /\ LET s == syncer[p]
         older == From(s.since, Min(Data) - 1)
     IN \/ ~Readable /\ Fails(p)
        \/ /\ Readable /\ NeedsOlder(Data, s.since)
           /\ \/ Fails(p)
              \/ Step(p, IF older = {} THEN [s EXCEPT !.pc = "begin"]
                         ELSE [s EXCEPT !.pc = "open", !.then = "begin",
                                        !.buf = older \cup Data, !.stale = FALSE])
        \/ /\ Readable /\ ~NeedsOlder(Data, s.since)
           /\ Step(p, [s EXCEPT !.pc = "begin"])
  /\ UnchangedFile /\ UnchangedWorld /\ UNCHANGED synced

(* sync: the clock is read first, then the file.                           *)
ReadClock(p) ==
  /\ syncer[p].pc = "begin"
  /\ Step(p, [syncer[p] EXCEPT !.pc = "load", !.limit = LastClosed, !.stale = FALSE])
  /\ UnchangedFile /\ UnchangedWorld /\ UNCHANGED synced

(* What sync continues.  Slip: the file is not loaded again.               *)
Nothing == {}
Existing == Data

Load(p) ==
  /\ syncer[p].pc = "load"
  /\ IF Readable
       THEN Step(p, [syncer[p] EXCEPT !.pc = "fetch", !.buf = Existing])
       ELSE Fails(p)
  /\ UnchangedFile /\ UnchangedWorld /\ UNCHANGED synced

(* last_sync, set when no exception came (worker.py:95).  Slip: an         *)
(* exception counts as well.                                               *)
Finish(p) == synced' = IF p = "market" THEN syncer[p].want ELSE synced
Counts(p) == Finish(p)
Abandon(p) == UNCHANGED synced

(* Pages of candles up to the last closed one; `clean` merges them.  With  *)
(* nothing to save the synchronisation is done.                            *)
Fetch(p) ==
  /\ syncer[p].pc = "fetch"
  /\ LET s   == syncer[p]
         all == s.buf \cup From(Cursor(s.buf, s.since, s.limit), s.limit)
     IN \/ Fails(p) /\ Abandon(p)
        \/ all = {} /\ Step(p, Resting) /\ Finish(p)
        \/ /\ all # {} /\ UNCHANGED synced
           /\ Step(p, [s EXCEPT !.pc = "open", !.then = "idle",
                                !.buf = {c \in all : c <= s.limit}])
  /\ UnchangedFile /\ UnchangedWorld

-----------------------------------------------------------------------------
(* save: open the temporary name, write, move it over the dataset's name.  *)

Saving(p) == syncer[p].pc \in {"write", "replace"}
Unused == CHOOSE i \in Inodes : i # file /\ i # temp /\ \A p \in Syncers : syncer[p].fd # i

(* The inode behind p.with_suffix(".tmp").  Slip: no temporary name.       *)
InPlace == IF file # NoInode THEN file ELSE Unused
TempInode == IF temp # NoInode THEN temp ELSE Unused

OpenTemp(p) ==
  /\ syncer[p].pc = "open"
  /\ LET i == TempInode
     IN /\ temp' = i
        /\ inode' = [inode EXCEPT ![i] = [Empty EXCEPT !.by = p]]
        /\ Step(p, [syncer[p] EXCEPT !.pc = "write", !.fd = i])
  /\ overlapped' = (overlapped \/ \E q \in Syncers \ {p} : Saving(q))
  /\ UnchangedWorld /\ UNCHANGED <<file, overtaken, synced>>

(* to_parquet.  Two writers of one inode leave either a complete file or a *)
(* mixture of both.                                                        *)
WriteTemp(p) ==
  /\ syncer[p].pc = "write"
  /\ LET s     == syncer[p]
         alone == inode[s.fd].by = p /\ \A q \in Syncers \ {p} : syncer[q].fd # s.fd
     IN /\ \E st \in (IF alone THEN {"good"} ELSE {"good", "mixed"}) :
             inode' = [inode EXCEPT ![s.fd] = [@ EXCEPT !.data = s.buf, !.state = st]]
        /\ Step(p, [s EXCEPT !.pc = "replace"])
  /\ UnchangedWorld /\ UNCHANGED <<file, temp, overlapped, overtaken, synced>>

(* An inode without a name or a writer is gone.                            *)
Kept(p) == {temp} \cup {syncer[q].fd : q \in Syncers \ {p}}

(* replace fails when another process has moved the name away.  What       *)
(* sync_dataset does after it (the file loaded, its figures written to     *)
(* the database) leaves the file alone and is left out.                    *)
Replace(p) ==
  /\ syncer[p].pc = "replace"
  /\ LET s == syncer[p]
     IN \/ /\ temp = NoInode /\ Fails(p)
           /\ UNCHANGED <<file, temp, inode, overtaken, synced>>
        \/ /\ temp # NoInode
           /\ file' = temp /\ temp' = NoInode
           /\ overtaken' = (overtaken \/ s.stale)
           /\ syncer' = [q \in Syncers |->
                IF q # p THEN [syncer[q] EXCEPT !.stale = (@ \/ syncer[q].pc # "idle")]
                ELSE IF s.then = "idle" THEN Resting
                ELSE [s EXCEPT !.pc = s.then, !.fd = NoInode]]
           /\ IF s.then = "idle" THEN Finish(p) ELSE UNCHANGED synced
           /\ inode' = [i \in Inodes |-> IF i \in Kept(p) THEN inode[i] ELSE Empty]
  /\ UnchangedWorld /\ UNCHANGED overlapped

-----------------------------------------------------------------------------
CandleCloses ==
  /\ closed < MaxClosed
  /\ closed' = closed + 1
  /\ UnchangedFile /\ UNCHANGED <<syncer, synced, jobs, deaths>>

(* The process dies and is started again; last_sync was in its memory.     *)
Dies(p) ==
  /\ deaths < MaxDeaths /\ syncer[p].pc # "idle"
  /\ deaths' = deaths + 1
  /\ Fails(p)
  /\ synced' = IF p = "market" THEN 0 ELSE synced
  /\ UnchangedFile /\ UNCHANGED <<closed, jobs>>

SyncStep(p) ==
  \/ Look(p) \/ ReadClock(p) \/ Load(p) \/ Fetch(p)
  \/ OpenTemp(p) \/ WriteTemp(p) \/ Replace(p)

StoreNext ==
  \/ StartMarket
  \/ \E p \in Syncers : StartJob(p) \/ SyncStep(p) \/ Dies(p)
  \/ CandleCloses

StoreSpec == StoreInit /\ [][StoreNext]_storeVars

(* Both workers loop for ever (worker.py:72, 118); a download that is      *)
(* tried again on every cycle does not fail every time.                    *)
StoreFairness ==
  /\ WF_storeVars(StartMarket)
  /\ \A p \in Syncers : WF_storeVars(SyncStep(p))
  /\ SF_storeVars(Look("market") /\ syncer["market"]' # Resting)
  /\ SF_storeVars(Fetch("market") /\ syncer["market"]'.pc = "open")

-----------------------------------------------------------------------------
(* "Only closed candles are stored: keeping a forming candle would leak    *)
(* its final values into earlier decisions" (store.py:83-84).              *)
ClosedOnly == Readable => Data \subseteq 1 .. closed

(* "atomic, so a crash never leaves a half-written dataset" (store.py:80). *)
(* True as long as two processes do not save at the same time.             *)
WholeFile == ~Readable => overlapped

(* The file has no hole that the exchange does not have: backfills and     *)
(* continuations of both processes join what is there.                     *)
NoHole == Readable /\ Data # {} => Data = From(Min(Data), Max(Data))

(* What a reader of the file can rely on.                                  *)
StoreInv == StoreTypeOK /\ ClosedOnly /\ WholeFile /\ NoHole

(* A candle that readers have seen stays, unless a save was overtaken by   *)
(* another one since it read the clock, or two of them overlapped.        *)
NothingForgotten ==
  [][Readable /\ Readable' /\ ~overlapped' /\ ~overtaken' => Data \subseteq Data']_storeVars

(* The newest candle reaches the file, unless one of the two races undid   *)
(* it after the market worker was done with this candle.                   *)
NewestArrives ==
  closed = MaxClosed ~> \/ Max(Listed) \in Data
                        \/ overlapped \/ overtaken
=============================================================================
