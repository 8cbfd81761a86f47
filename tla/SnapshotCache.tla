---------------------------- MODULE SnapshotCache ----------------------------
(***************************************************************************)
(* The snapshot cache of the API process (api/app.py:225-248): requests    *)
(* that read one shared snapshot, requests that change the database and    *)
(* then clear it, and the worker processes that change the database too.   *)
(*                                                                         *)
(* Handlers run on threads, the middleware on the event loop, so a thread  *)
(* can be suspended between any two accesses of the shared dictionary.     *)
(* The content of the database is the number of commits it contains.       *)
(***************************************************************************)
EXTENDS Integers

CONSTANTS
  Readers,     \* requests for the snapshot that can be served at once
  Writers,     \* requests that change something, served at once
  SnapshotTTL, \* SNAPSHOT_TTL, in ticks of the clock
  MaxVersion,  \* bound: commits
  MaxNow       \* bound: ticks of the clock

ASSUME CacheBounds == MaxVersion \in Nat /\ MaxNow \in Nat

VARIABLES
  version,  \* commits the database contains
  value,    \* cache["value"]: NoValue, or the commits it contains
  at,       \* cache["at"]
  gen,      \* cache["gen"]
  lock,     \* holder of cache_lock
  reader,   \* the snapshot requests
  writer,   \* the requests that change something
  told,     \* commits the owner has been told of by an answered request
  raced,    \* the cached value was stored by a build that a write had overtaken
  now       \* the clock

cacheVars == <<version, value, at, gen, lock, reader, writer, told, raced, now>>

NoValue == -1
Free    == "free"

Idle == [pc |-> "idle", need |-> 0, gen |-> 0, seen |-> NoValue, raced |-> FALSE]

CacheTypeOK ==
  /\ version \in 0 .. MaxVersion /\ told \in 0 .. MaxVersion
  /\ value \in {NoValue} \cup (0 .. MaxVersion)
  /\ at \in 0 .. MaxNow /\ now \in 0 .. MaxNow
  /\ gen \in Nat
  /\ lock \in Readers \cup {Free}
  /\ reader \in [Readers ->
       [pc : {"idle", "wait", "check", "hit", "mark", "build", "compare", "store", "answered"},
        need : 0 .. MaxVersion, gen : Nat,
        seen : {NoValue} \cup (0 .. MaxVersion), raced : BOOLEAN]]
  /\ writer \in [Writers -> [pc : {"idle", "commit", "clear"}, made : 0 .. MaxVersion]]
  /\ raced \in BOOLEAN

CacheInit ==
  /\ version = 0 /\ told = 0 /\ now = 0
  /\ value = NoValue /\ at = 0 /\ gen = 0 /\ lock = Free /\ raced = FALSE
  /\ reader = [r \in Readers |-> Idle]
  /\ writer = [w \in Writers |-> [pc |-> "idle", made |-> 0]]

-----------------------------------------------------------------------------
(* A snapshot request.  What the owner was told when it began is its need. *)

Ask(r) ==
  /\ reader[r].pc \in {"idle", "answered"}
  /\ reader' = [reader EXCEPT ![r] = [Idle EXCEPT !.pc = "wait", !.need = told]]
  /\ UNCHANGED <<version, value, at, gen, lock, writer, told, raced, now>>

Acquire(r) ==
  /\ reader[r].pc = "wait" /\ lock = Free
  /\ lock' = r
  /\ reader' = [reader EXCEPT ![r].pc = "check"]
  /\ UNCHANGED <<version, value, at, gen, writer, told, raced, now>>

Fresh == value # NoValue /\ now - at < SnapshotTTL
CheckEntry(r) ==
  /\ reader[r].pc = "check"
  /\ reader' = [reader EXCEPT ![r].pc = IF Fresh THEN "hit" ELSE "mark"]
  /\ UNCHANGED <<version, value, at, gen, lock, writer, told, raced, now>>

(* The entry is read again to be returned: a write may have cleared it.    *)
ReturnEntry(r) ==
  /\ reader[r].pc = "hit"
  /\ reader' = [reader EXCEPT ![r].pc = "answered", ![r].seen = value, ![r].raced = raced]
  /\ lock' = Free
  /\ UNCHANGED <<version, value, at, gen, writer, told, raced, now>>

MarkGen(r) ==
  /\ reader[r].pc = "mark"
  /\ reader' = [reader EXCEPT ![r].pc = "build", ![r].gen = gen]
  /\ UNCHANGED <<version, value, at, gen, lock, writer, told, raced, now>>

(* snap.build: many queries.  The oldest of them decides what the snapshot *)
(* is sure to contain.  A build that fails releases the lock and answers   *)
(* with an error.                                                          *)
Build(r) ==
  /\ reader[r].pc = "build"
  /\ \/ /\ reader' = [reader EXCEPT ![r].pc = "compare", ![r].seen = version]
        /\ UNCHANGED lock
     \/ /\ reader' = [reader EXCEPT ![r] = Idle]
        /\ lock' = Free
  /\ UNCHANGED <<version, value, at, gen, writer, told, raced, now>>

(* The value is stored only if no write was answered meanwhile.            *)
(* Slip: it always is.                                                     *)
AlwaysCurrent(r) == TRUE
Current(r) == reader[r].gen = gen

CompareGen(r) ==
  /\ reader[r].pc = "compare"
  /\ \/ /\ Current(r)
        /\ reader' = [reader EXCEPT ![r].pc = "store", ![r].gen = gen]
        /\ UNCHANGED lock
     \/ /\ ~Current(r)
        /\ reader' = [reader EXCEPT ![r].pc = "answered", ![r].gen = 0]
        /\ lock' = Free
  /\ UNCHANGED <<version, value, at, gen, writer, told, raced, now>>

Store(r) ==
  /\ reader[r].pc = "store"
  /\ value' = reader[r].seen /\ at' = now
  /\ raced' = (reader[r].gen # gen)
  /\ reader' = [reader EXCEPT ![r].pc = "answered", ![r].raced = (reader[r].gen # gen)]
  /\ lock' = Free
  /\ UNCHANGED <<version, gen, writer, told, now>>

-----------------------------------------------------------------------------
(* A request that changes something: its handler commits, the middleware   *)
(* counts the generation up and drops the entry, and the answer goes out.  *)

CommitWrite(w) ==
  /\ writer[w].pc = "idle" /\ version < MaxVersion
  /\ version' = version + 1
  /\ writer' = [writer EXCEPT ![w] = [pc |-> "commit", made |-> version + 1]]
  /\ UNCHANGED <<value, at, gen, lock, reader, told, raced, now>>

(* Slip: the generation stays.                                             *)
NotCounted == gen
Counted == gen + 1

NextGen(w) ==
  /\ writer[w].pc = "commit"
  /\ \A v \in Writers : writer[v].pc # "clear"    \* no await between the two: one event loop
  /\ gen' = Counted
  /\ writer' = [writer EXCEPT ![w].pc = "clear"]
  /\ UNCHANGED <<version, value, at, lock, reader, told, raced, now>>
Clear(w) ==
  /\ writer[w].pc = "clear"
  /\ value' = NoValue
  /\ told' = IF writer[w].made > told THEN writer[w].made ELSE told
  /\ writer' = [writer EXCEPT ![w].pc = "idle"]
  /\ UNCHANGED <<version, at, gen, lock, reader, raced, now>>

(* The workers commit without telling the API process.                     *)
WorkerCommit ==
  /\ version < MaxVersion
  /\ version' = version + 1
  /\ UNCHANGED <<value, at, gen, lock, reader, writer, told, raced, now>>

ClockTick ==
  /\ now < MaxNow
  /\ now' = now + 1
  /\ UNCHANGED <<version, value, at, gen, lock, reader, writer, told, raced>>

ServeRead(r) ==
  \/ Acquire(r) \/ CheckEntry(r) \/ ReturnEntry(r) \/ MarkGen(r) \/ Build(r)
  \/ CompareGen(r) \/ Store(r)
ServeWrite(w) == NextGen(w) \/ Clear(w)

CacheNext ==
  \/ \E r \in Readers : Ask(r) \/ ServeRead(r)
  \/ \E w \in Writers : CommitWrite(w) \/ ServeWrite(w)
  \/ WorkerCommit
  \/ ClockTick

CacheSpec == CacheInit /\ [][CacheNext]_cacheVars

-----------------------------------------------------------------------------
(* "any write clears it so the owner sees the result of an action at once" *)
(* (api/app.py:226): an answer contains every write the owner had been     *)
(* told of when it was asked for, except from an entry stored by a build   *)
(* that a write overtook between the comparison of the generation and the  *)
(* store (246-247).                                                        *)
OwnWritesSeen ==
  \A r \in Readers :
    reader[r].pc = "answered" /\ reader[r].seen # NoValue /\ ~reader[r].raced =>
      reader[r].seen >= reader[r].need

(* An entry that no write has overtaken is newer than every write that was *)
(* answered: it is dropped before the answer goes out (234-235).           *)
EntryCurrent == value # NoValue /\ ~raced => value >= told

(* What the owner is shown, and that the cache stays in its range.         *)
CacheInv == CacheTypeOK /\ OwnWritesSeen /\ EntryCurrent
=============================================================================
