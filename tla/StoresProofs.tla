----------------------------- MODULE StoresProofs -----------------------------
(***************************************************************************)
(* What a reader can rely on in the two stores that several processes fill *)
(* without knowing of each other.                                          *)
(*                                                                         *)
(* The snapshot cache shows every answered write, for any number of        *)
(* requests, any time to live and any bounds.  The lock is not needed for  *)
(* it: the generation alone keeps a build that a write has overtaken from  *)
(* being stored as current.                                                *)
(*                                                                         *)
(* The candle file is whole and without holes, and forgets nothing, for    *)
(* any number of processes, any candles of the exchange and any deaths,    *)
(* until two saves overlap on the temporary file: what the proof needs of  *)
(* a save is that the temporary file is its own.                           *)
(***************************************************************************)
EXTENDS SnapshotCache, CandleStore, NumberFacts

-----------------------------------------------------------------------------
(* The snapshot cache.                                                     *)

Building == {"compare", "store"}

(* Nobody is told of, needs or holds more than the database contains, and  *)
(* a generation is only ever counted up.                                   *)
Bounded ==
  /\ told <= version
  /\ \A w \in Writers : writer[w].made <= version
  /\ \A r \in Readers :
       /\ reader[r].need <= told /\ reader[r].gen <= gen
       /\ reader[r].pc # "answered" => ~reader[r].raced

(* A finished build contains what its reader needs.  While the generation  *)
(* is the one it began with, it also contains every write that has been or *)
(* is about to be answered: such a write was committed before the build.   *)
BuildsAreValid ==
  \A r \in Readers : reader[r].pc \in Building =>
    /\ reader[r].seen # NoValue
    /\ reader[r].seen >= reader[r].need
    /\ reader[r].gen = gen =>
         /\ reader[r].seen >= told
         /\ \A w \in Writers : writer[w].pc = "clear" => reader[r].seen >= writer[w].made

CacheIInv == CacheInv /\ Bounded /\ BuildsAreValid

Request ==
  [pc : {"idle", "wait", "check", "hit", "mark", "build", "compare", "store", "answered"},
   need : 0 .. MaxVersion, gen : Nat,
   seen : {NoValue} \cup (0 .. MaxVersion), raced : BOOLEAN]

(* What the invariant asks of one request.                                 *)
Good(v) ==
  /\ v \in Request
  /\ v.need <= told /\ v.gen <= gen
  /\ v.pc # "answered" => ~v.raced
  /\ v.pc = "answered" /\ v.seen # NoValue /\ ~v.raced => v.seen >= v.need
  /\ v.pc \in Building =>
       /\ v.seen # NoValue /\ v.seen >= v.need
       /\ v.gen = gen =>
            /\ v.seen >= told
            /\ \A w \in Writers : writer[w].pc = "clear" => v.seen >= writer[w].made

LEMMA IdleFacts ==
  /\ Idle \in Request
  /\ Idle.pc = "idle" /\ Idle.need = 0 /\ Idle.gen = 0 /\ Idle.seen = NoValue /\ ~Idle.raced
BY CacheBounds DEF Idle, Request, NoValue

LEMMA InitIInv == CacheInit => CacheIInv
<1> SUFFICES ASSUME CacheInit PROVE CacheIInv
  OBVIOUS
<1>2. reader \in [Readers -> Request] /\ \A r \in Readers : reader[r] = Idle
  BY IdleFacts DEF CacheInit
<1>3. CacheTypeOK
  <2>1. writer \in [Writers -> [pc : {"idle", "commit", "clear"}, made : 0 .. MaxVersion]]
    BY CacheBounds DEF CacheInit
  <2>2. /\ version \in 0 .. MaxVersion /\ told \in 0 .. MaxVersion
        /\ at \in 0 .. MaxNow /\ now \in 0 .. MaxNow /\ gen \in Nat
    BY CacheBounds DEF CacheInit
  <2>3. value = NoValue /\ lock = Free /\ raced \in BOOLEAN
    BY DEF CacheInit
  <2>4. QED
    BY <1>2, <2>1, <2>2, <2>3, Zenon DEF CacheTypeOK, Request
<1>4. OwnWritesSeen /\ EntryCurrent /\ BuildsAreValid
  BY IdleFacts, <1>2 DEF CacheInit, OwnWritesSeen, EntryCurrent, BuildsAreValid, Building
<1>5. Bounded
  BY IdleFacts, <1>2 DEF CacheInit, Bounded
<1>6. QED
  BY <1>3, <1>4, <1>5 DEF CacheIInv, CacheInv

(* The invariant, read for one request.                                     *)
LEMMA EveryRequestIsGood ==
  ASSUME CacheIInv, NEW r \in Readers
  PROVE  Good(reader[r])
BY DEF CacheIInv, CacheInv, CacheTypeOK, OwnWritesSeen, Bounded, BuildsAreValid, Good, Request

(* A step that only moves a request, to a good one.                        *)
LEMMA MoveKeepsIInv ==
  ASSUME CacheIInv, NEW r \in Readers, NEW v, Good(v),
         reader' = [reader EXCEPT ![r] = v], lock' \in {lock, r, Free},
         UNCHANGED <<version, value, at, gen, writer, told, raced, now>>
  PROVE  CacheIInv'
<1>1. \A q \in Readers : reader'[q] = IF q = r THEN v ELSE reader[q]
  BY DEF CacheIInv, CacheInv, CacheTypeOK
<1>2. CacheTypeOK'
  BY DEF CacheIInv, CacheInv, CacheTypeOK, Request, Good
<1>3. Bounded'
  BY <1>1 DEF CacheIInv, Bounded, Good
<1>4. BuildsAreValid'
  BY <1>1 DEF CacheIInv, BuildsAreValid, Good
<1>5. OwnWritesSeen' /\ EntryCurrent'
  BY <1>1 DEF CacheIInv, CacheInv, OwnWritesSeen, EntryCurrent, Good
<1>6. QED
  BY <1>2, <1>3, <1>4, <1>5 DEF CacheIInv, CacheInv

(* The steps of a request for the snapshot.                                *)
LEMMA ReadKeepsIInv ==
  ASSUME CacheIInv, NEW r \in Readers, Ask(r) \/ ServeRead(r)
  PROVE  CacheIInv'
<1> USE DEF NoValue
<1> DEFINE old == reader[r]
<1>1. Good(old) /\ old \in Request
  BY EveryRequestIsGood DEF Good
<1>2. told <= version /\ version \in 0 .. MaxVersion /\ told \in 0 .. MaxVersion /\ gen \in Nat
      /\ value \in {NoValue} \cup (0 .. MaxVersion) /\ raced \in BOOLEAN
      /\ \A w \in Writers : writer[w].made <= version
  BY DEF CacheIInv, CacheInv, CacheTypeOK, Bounded
<1>3. CASE Ask(r)
  <2> DEFINE v == [Idle EXCEPT !.pc = "wait", !.need = told]
  <2>1. v \in Request /\ v.pc = "wait" /\ v.need = told /\ v.gen = 0 /\ ~v.raced
    BY <1>2, IdleFacts DEF Request
  <2>2. Good(v)
    BY <1>2, <2>1 DEF Good, Building
  <2>3. QED
    BY <1>3, <2>2, MoveKeepsIInv DEF Ask
<1>4. CASE Acquire(r)
  <2> DEFINE v == [old EXCEPT !.pc = "check"]
  <2>1. Good(v)
    BY <1>1, <1>4 DEF Good, Request, Building, Acquire
  <2>2. QED
    BY <1>4, <2>1, MoveKeepsIInv DEF Acquire
<1>5. CASE CheckEntry(r)
  <2> DEFINE v == [old EXCEPT !.pc = IF Fresh THEN "hit" ELSE "mark"]
  <2>1. Good(v)
    BY <1>1, <1>5 DEF Good, Request, Building, CheckEntry
  <2>2. QED
    BY <1>5, <2>1, MoveKeepsIInv DEF CheckEntry
(* What is read again from the entry contains every answered write.        *)
<1>6. CASE ReturnEntry(r)
  <2> DEFINE v == [old EXCEPT !.pc = "answered", !.seen = value, !.raced = raced]
  <2>1. value # NoValue /\ ~raced => value >= old.need
    BY <1>1, <1>2 DEF CacheIInv, CacheInv, EntryCurrent, Good, Request
  <2>2. Good(v)
    BY <1>1, <1>2, <2>1 DEF Good, Request, Building
  <2>3. QED
    BY <1>6, <2>2, MoveKeepsIInv DEF ReturnEntry
<1>7. CASE MarkGen(r)
  <2> DEFINE v == [old EXCEPT !.pc = "build", !.gen = gen]
  <2>1. v \in Request /\ v.pc = "build" /\ v.need = old.need /\ v.gen = gen /\ v.raced = old.raced
    BY <1>1, <1>2 DEF Request
  <2>2. Good(v)
    BY <1>1, <1>2, <1>7, <2>1 DEF Good, Building, MarkGen
  <2>3. QED
    BY <1>7, <2>2, MoveKeepsIInv DEF MarkGen
(* A build contains all that was committed, so all that was answered or is *)
(* about to be.                                                            *)
<1>8. CASE Build(r)
  <2> old.pc = "build" /\ UNCHANGED <<version, value, at, gen, writer, told, raced, now>>
    BY <1>8 DEF Build
  <2>1. CASE reader' = [reader EXCEPT ![r].pc = "compare", ![r].seen = version] /\ UNCHANGED lock
    <3> DEFINE v == [old EXCEPT !.pc = "compare", !.seen = version]
    <3>1. /\ v \in Request /\ v.pc = "compare" /\ v.seen = version
          /\ v.need = old.need /\ v.gen = old.gen /\ v.raced = old.raced
      BY <1>1, <1>2 DEF Request
    <3>2. old.need \in 0 .. MaxVersion
      BY <1>1 DEF Request
    <3>3. Good(v)
      BY <1>1, <1>2, <3>1, <3>2 DEF Good, Building, CacheIInv, CacheInv, CacheTypeOK
    <3>4. QED
      BY <2>1, <3>3, MoveKeepsIInv
  <2>2. CASE reader' = [reader EXCEPT ![r] = Idle] /\ lock' = Free
    <3>1. Good(Idle)
      BY <1>2, IdleFacts DEF Good, Building
    <3>2. QED
      BY <2>2, <3>1, MoveKeepsIInv
  <2>3. QED
    BY <1>8, <2>1, <2>2 DEF Build
<1>9. CASE CompareGen(r)
  <2>1. CASE Current(r)
    <3> DEFINE v == [old EXCEPT !.pc = "store", !.gen = gen]
    <3>1. Good(v)
      BY <1>1, <1>2, <1>9, <2>1 DEF Good, Request, Building, CompareGen, Current
    <3>2. reader' = [reader EXCEPT ![r] = v] /\ UNCHANGED lock
      BY <1>9, <2>1 DEF CompareGen
    <3>3. UNCHANGED <<version, value, at, gen, writer, told, raced, now>>
      BY <1>9 DEF CompareGen
    <3> HIDE DEF v
    <3>4. QED
      BY <3>1, <3>2, <3>3, MoveKeepsIInv
  <2>2. CASE ~Current(r)
    <3> DEFINE v == [old EXCEPT !.pc = "answered", !.gen = 0]
    <3>1. old.pc = "compare" /\ ~old.raced /\ old.seen >= old.need
      BY <1>1, <1>9 DEF Good, Building, CompareGen
    <3>2. v \in Request /\ v.need = old.need /\ v.gen = 0 /\ v.pc = "answered" /\ v.seen = old.seen
      BY <1>1 DEF Request
    <3>3. Good(v)
      BY <1>1, <1>2, <3>1, <3>2 DEF Good, Building
    <3>4. reader' = [reader EXCEPT ![r] = v] /\ lock' = Free
      BY <1>9, <2>2 DEF CompareGen
    <3>5. UNCHANGED <<version, value, at, gen, writer, told, raced, now>>
      BY <1>9 DEF CompareGen
    <3> HIDE DEF v
    <3>6. QED
      BY <3>3, <3>4, <3>5, MoveKeepsIInv
  <2>3. QED
    BY <2>1, <2>2
(* What is stored is valid, or a write has counted the generation since    *)
(* the comparison.                                                         *)
<1>10. CASE Store(r)
  <2> DEFINE v == [old EXCEPT !.pc = "answered", !.raced = (old.gen # gen)]
  <2>1. Good(v) /\ (old.gen = gen => old.seen >= told) /\ old.seen \in 0 .. MaxVersion
    BY <1>1, <1>2, <1>10 DEF Good, Request, Building, Store
  <2>2. \A q \in Readers : reader'[q] = IF q = r THEN v ELSE reader[q]
    BY <1>10 DEF Store, CacheIInv, CacheInv, CacheTypeOK
  <2>3. CacheTypeOK'
    BY <1>1, <1>10, <2>1 DEF Store, CacheIInv, CacheInv, CacheTypeOK, Request, Good
  <2>4. Bounded'
    BY <1>10, <2>1, <2>2 DEF Store, CacheIInv, Bounded, Good
  <2>5. BuildsAreValid'
    BY <1>10, <2>1, <2>2 DEF Store, CacheIInv, BuildsAreValid, Good
  <2>6. OwnWritesSeen'
    BY <1>10, <2>1, <2>2 DEF Store, CacheIInv, CacheInv, OwnWritesSeen, Good
  <2>7. EntryCurrent'
    BY <1>10, <2>1 DEF Store, EntryCurrent
  <2>8. QED
    BY <2>3, <2>4, <2>5, <2>6, <2>7 DEF CacheIInv, CacheInv
<1>11. QED
  BY <1>3, <1>4, <1>5, <1>6, <1>7, <1>8, <1>9, <1>10 DEF ServeRead

(* The steps of a request that changes something.                          *)
LEMMA WriteKeepsIInv ==
  ASSUME CacheIInv, NEW w \in Writers, CommitWrite(w) \/ ServeWrite(w)
  PROVE  CacheIInv'
<1> USE DEF NoValue, CacheIInv, CacheInv
<1>1. CacheTypeOK'
  BY CacheBounds DEF CacheTypeOK, CommitWrite, ServeWrite, NextGen, Counted, Clear
<1>2. Bounded'
  BY DEF CacheTypeOK, Bounded, CommitWrite, ServeWrite, NextGen, Counted, Clear
<1>3. BuildsAreValid'
  BY DEF CacheTypeOK, Bounded, BuildsAreValid, Building, CommitWrite, ServeWrite, NextGen,
     Counted, Clear
<1>4. OwnWritesSeen'
  BY DEF OwnWritesSeen, CommitWrite, ServeWrite, NextGen, Clear
<1>5. EntryCurrent'
  BY DEF EntryCurrent, CommitWrite, ServeWrite, NextGen, Clear
<1>6. QED
  BY <1>1, <1>2, <1>3, <1>4, <1>5

(* A commit of a worker, the clock, and a step of nobody.                  *)
LEMMA RestKeepsIInv ==
  ASSUME CacheIInv, WorkerCommit \/ ClockTick \/ UNCHANGED cacheVars
  PROVE  CacheIInv'
BY CacheBounds DEF CacheIInv, CacheInv, CacheTypeOK, OwnWritesSeen, EntryCurrent, Bounded,
  BuildsAreValid, Building, NoValue, WorkerCommit, ClockTick, cacheVars

(* Whatever requests and writes overlap (api/app.py:225-248), an answer    *)
(* contains every write its owner had been told of when it was asked for,  *)
(* unless a write overtook the build in the one gap the code leaves.       *)
THEOREM ShownIsCurrent == CacheSpec => []CacheInv
<1>1. CacheIInv /\ [CacheNext]_cacheVars => CacheIInv'
  BY ReadKeepsIInv, WriteKeepsIInv, RestKeepsIInv DEF CacheNext
<1>2. CacheIInv => CacheInv
  BY DEF CacheIInv
<1>3. QED
  BY InitIInv, <1>1, <1>2, PTL DEF CacheSpec

-----------------------------------------------------------------------------
(* The candle file.                                                        *)

(* Candles as they can be stored: none that is not closed, and no hole     *)
(* that the exchange does not have.                                        *)
Joined(D) ==
  /\ D \subseteq Listed /\ D \subseteq 1 .. closed
  /\ \A a, b \in D, c \in Listed : a <= c /\ c <= b => c \in D

SyncRow ==
  [pc : {"idle", "look", "begin", "load", "fetch", "open", "write", "replace"},
   since : Nat, want : 0 .. MaxClosed, limit : 0 .. MaxClosed, buf : SUBSET Listed,
   then : {"idle", "begin"}, fd : {NoInode} \cup Inodes, stale : BOOLEAN]

(* A synchronisation that no save has overtaken holds every candle of the  *)
(* file once it has loaded it; until it saves, its limit covers them.      *)
Covers(v) ==
  /\ v.pc \in {"load", "fetch"} => Data \subseteq 1 .. v.limit
  /\ v.pc \in {"fetch", "open", "write", "replace"} => Data \subseteq v.buf

GoodSync(v) ==
  /\ v \in SyncRow
  /\ v.limit <= closed /\ Joined(v.buf)
  /\ v.fd # NoInode <=> v.pc \in {"write", "replace"}
  /\ ~overlapped /\ ~v.stale => Covers(v)

(* The dataset's name and the temporary one never share an inode, and as   *)
(* long as saves have not overlapped the dataset's is complete.            *)
GoodFile ==
  /\ temp # NoInode => temp # file
  /\ \A i \in Inodes : Joined(inode[i].data)
  /\ ~overlapped => Readable

(* Without an overlap the only process that saves has the temporary file   *)
(* to itself.                                                              *)
OwnsTemp(p) ==
  /\ temp # NoInode /\ syncer[p].fd = temp /\ inode[temp].by = p
  /\ syncer[p].pc = "replace" => inode[temp].state = "good" /\ inode[temp].data = syncer[p].buf
  /\ \A q \in Syncers \ {p} : ~Saving(q)
OneSaver == ~overlapped => \A p \in Syncers : Saving(p) => OwnsTemp(p)

StoreIInv ==
  /\ StoreTypeOK /\ syncer \in [Syncers -> SyncRow]
  /\ \A p \in Syncers : GoodSync(syncer[p])
  /\ GoodFile /\ OneSaver

(* When no file has the temporary name, some inode is free for it.         *)
LEMMA UnusedIsFree ==
  ASSUME temp = NoInode
  PROVE  /\ Unused \in Inodes /\ Unused # file
         /\ \A p \in Syncers : syncer[p].fd # Unused
<1> DEFINE n == Cardinality(Syncers)
           fds == {syncer[p].fd : p \in Syncers}
           used == fds \cup {file}
<1>1. IsFiniteSet(Syncers) /\ n \in Nat
  BY StoreBounds, FS_CardinalityType
<1>2. IsFiniteSet(fds) /\ Cardinality(fds) <= n
  <2> DEFINE f == [p \in Syncers |-> syncer[p].fd]
  <2>1. f \in Surjection(Syncers, fds)
    BY DEF Surjection
  <2> HIDE DEF f, fds
  <2> QED
    BY <1>1, <2>1, FS_Surjection
<1>3. IsFiniteSet(used) /\ Cardinality(used) <= n + 1 /\ Cardinality(used) \in Nat
  <2>1. Cardinality(fds) \in Nat
    BY <1>2, FS_CardinalityType
  <2>2. /\ IsFiniteSet(used)
        /\ Cardinality(used) = IF file \in fds THEN Cardinality(fds) ELSE Cardinality(fds) + 1
    <3> HIDE DEF fds
    <3> QED
      BY <1>2, FS_AddElement
  <2> HIDE DEF n, fds, used
  <2> QED
    BY <1>1, <1>2, <2>1, <2>2
<1>4. IsFiniteSet(Inodes) /\ Cardinality(Inodes) = n + 2
  BY <1>1, FS_Interval DEF Inodes
<1>5. \E i \in Inodes : i \notin used
  <2>1. SUFFICES ASSUME Inodes \in SUBSET used PROVE FALSE
    OBVIOUS
  <2> HIDE DEF used
  <2>2. Cardinality(Inodes) <= Cardinality(used)
    BY <1>3, <2>1, FS_Subset
  <2> HIDE DEF n
  <2> QED
    BY <1>1, <1>3, <1>4, <2>2
<1>6. \E i \in Inodes : i # file /\ i # temp /\ \A p \in Syncers : syncer[p].fd # i
  <2>1. \A i \in Inodes : i # temp
    BY <1>1 DEF Inodes, NoInode
  <2>2. \A i \in Inodes : i \notin used => i # file /\ \A p \in Syncers : syncer[p].fd # i
    OBVIOUS
  <2> QED
    BY <1>5, <2>1, <2>2, Zenon
<1> QED
  BY <1>6, Zenon DEF Unused

(* Candles of a file that are joined leave no hole between the first and   *)
(* the last of them.                                                       *)
LEMMA JoinedHasNoHole ==
  ASSUME NEW D, Joined(D), D # {}, closed \in Nat
  PROVE  D = From(Min(D), Max(D))
<1>1. D \subseteq Nat /\ D \subseteq 1 .. closed /\ D \subseteq Listed
  BY StoreBounds DEF Joined
<1>2. Min(D) \in D /\ \A y \in D : Min(D) <= y
  BY <1>1, MinIsLeast
<1>3. Max(D) \in D /\ \A y \in D : Max(D) >= y
  BY <1>1, MaxIsGreatest
<1>4. ASSUME NEW c \in D PROVE c \in From(Min(D), Max(D))
  BY <1>1, <1>2, <1>3 DEF From
<1>5. ASSUME NEW c \in From(Min(D), Max(D)) PROVE c \in D
  BY <1>2, <1>3 DEF From, Joined
<1> QED
  BY <1>4, <1>5

LEMMA EmptyIsJoined == Joined({})
BY DEF Joined

(* What a file holds is joined, whether it is there or not.                *)
LEMMA DataIsJoined ==
  ASSUME GoodFile, file \in {NoInode} \cup Inodes
  PROVE  Joined(Data)
BY EmptyIsJoined, Zenon DEF GoodFile, Data

(* A backfill ends where the file begins.                                  *)
LEMMA OlderJoins ==
  ASSUME NEW D, Joined(D), D # {}, NEW a \in Nat, closed \in Nat
  PROVE  Joined(From(a, Min(D) - 1) \cup D)
<1>1. D \subseteq Nat /\ D \subseteq 1 .. closed /\ D \subseteq Listed /\ Listed \subseteq Nat \ {0}
  BY StoreBounds DEF Joined
<1>2. Min(D) \in D /\ \A y \in D : Min(D) <= y
  BY <1>1, MinIsLeast
<1> DEFINE m == Min(D)
           old == From(a, m - 1)
<1>3. m \in 1 .. closed /\ m \in D /\ m \in Listed /\ \A y \in D : m <= y
  BY <1>1, <1>2
<1> HIDE DEF m
<1>4. \A c : c \in old <=> c \in Listed /\ a <= c /\ c <= m - 1
  BY DEF From
<1> HIDE DEF old
<1>5. ASSUME NEW c \in old \cup D PROVE c \in Listed /\ c \in 1 .. closed
  <2>1. c \in Listed /\ c \in Nat \ {0}
    BY <1>1, <1>4
  <2> QED
    BY <1>1, <1>3, <1>4, <2>1
<1>6. ASSUME NEW x \in old \cup D, NEW y \in old \cup D, NEW c \in Listed, x <= c, c <= y
      PROVE  c \in old \cup D
  <2>1. c \in Nat /\ x \in Nat /\ y \in Nat
    BY <1>1, <1>5
  <2>2. CASE c < m
    <3>1. x < m
      BY <1>3, <1>6, <2>1, <2>2
    <3>2. x \in old
      BY <1>3, <2>1, <3>1
    <3>3. a <= c
      BY <1>4, <1>6, <2>1, <3>2
    <3> QED
      BY <1>3, <1>4, <2>1, <2>2, <3>3
  <2>3. CASE c >= m
    <3>1. y \in D
      BY <1>3, <1>4, <1>6, <2>1, <2>3
    <3> QED
      BY <1>3, <1>6, <2>1, <2>3, <3>1 DEF Joined
  <2> QED
    BY <1>3, <2>1, <2>2, <2>3
<1>7. Joined(old \cup D)
  BY <1>5, <1>6 DEF Joined
<1> QED
  BY <1>7 DEF m, old

(* What is fetched continues what was loaded, up to the limit.             *)
LEMMA NewerJoins ==
  ASSUME NEW D, Joined(D), closed \in Nat, NEW s \in Nat, NEW l \in Nat, l <= closed,
         NEW E, E = {c \in D \cup From(Cursor(D, s, l), l) : c <= l}
  PROVE  Joined(E)
<1> DEFINE k == Cursor(D, s, l)
<1>1. D \subseteq Nat /\ D \subseteq 1 .. closed /\ D \subseteq Listed /\ Listed \subseteq Nat \ {0}
  BY StoreBounds DEF Joined
<1>2. /\ k \in Int
      /\ \A y \in D : y < k
      /\ D # {} => k - 1 \in D
  <2>1. CASE D # {}
    <3>1. Max(D) \in D /\ \A y \in D : Max(D) >= y
      BY <1>1, <2>1, MaxIsGreatest
    <3> DEFINE m == Max(D)
    <3>2. m \in Nat /\ m \in D /\ \A y \in D : y \in Nat /\ m >= y
      BY <1>1, <3>1
    <3>3. k = m + 1
      BY <2>1 DEF Cursor
    <3> HIDE DEF m, k
    <3> QED
      BY <3>2, <3>3
  <2>2. CASE D = {}
    <3>1. k \in Int
      <4>1. CASE s > 0
        BY <2>2, <4>1 DEF Cursor
      <4>2. CASE ~(s > 0)
        <5> DEFINE T == {1, l - FirstFetch}
        <5>1. l - FirstFetch \in Int
          BY StoreBounds
        <5>2. \E x \in T : \A y \in T : x >= y
          BY <5>1
        <5>3. Max(T) \in T
          BY <5>2, Zenon DEF Max
        <5>4. k = Max(T)
          BY <2>2, <4>2 DEF Cursor
        <5> QED
          BY <5>1, <5>3, <5>4
      <4> QED
        BY <4>1, <4>2
    <3> QED
      BY <2>2, <3>1
  <2> QED
    BY <2>1, <2>2
<1> HIDE DEF k
<1>3. \A c : c \in E <=> c <= l /\ (c \in D \/ (c \in Listed /\ k <= c))
  BY DEF From, k
<1>4. ASSUME NEW c \in E PROVE c \in Listed /\ c \in 1 .. closed
  <2>1. c \in Listed /\ c \in Nat \ {0}
    BY <1>1, <1>3
  <2> QED
    BY <1>3, <2>1
<1>5. ASSUME NEW x \in E, NEW y \in E, NEW c \in Listed, x <= c, c <= y PROVE c \in E
  <2>1. c \in Nat /\ x \in Nat /\ y \in Nat
    BY <1>1, <1>4
  <2>2. c <= l
    BY <1>3, <1>5, <2>1
  <2>3. CASE k <= c
    BY <1>3, <2>2, <2>3
  <2>4. CASE c < k
    <3>1. x \in D
      BY <1>2, <1>3, <1>5, <2>1, <2>4
    <3>2. k - 1 \in D /\ c <= k - 1
      BY <1>2, <2>1, <2>4, <3>1
    <3>3. c \in D
      BY <1>5, <3>1, <3>2 DEF Joined
    <3> QED
      BY <1>3, <2>2, <3>3
  <2> QED
    BY <1>2, <2>1, <2>3, <2>4
<1> QED
  BY <1>4, <1>5 DEF Joined

-----------------------------------------------------------------------------
(* Candles that have closed stay closed.                                   *)
LEMMA JoinedStays ==
  ASSUME NEW D, Joined(D), closed \in Nat, closed' \in Nat, closed <= closed'
  PROVE  Joined(D)'
<1>1. \A c \in 1 .. closed : c \in 1 .. closed'
  OBVIOUS
<1> QED
  BY <1>1 DEF Joined

LEMMA RestingIsGood ==
  ASSUME closed \in Nat
  PROVE  GoodSync(Resting)
<1>1. Resting \in SyncRow
  BY StoreBounds DEF Resting, SyncRow
<1>2. Resting.limit <= closed
  BY DEF Resting
<1> QED
  BY <1>1, <1>2, EmptyIsJoined DEF Resting, GoodSync, Covers, NoInode

LEMMA StoreInitIInv == StoreInit => StoreIInv
<1> SUFFICES ASSUME StoreInit PROVE StoreIInv
  OBVIOUS
<1>1. closed = 1 /\ file = NoInode /\ temp = NoInode /\ syncer = [p \in Syncers |-> Resting]
      /\ inode = [i \in Inodes |-> Empty]
  BY DEF StoreInit
<1>2. GoodSync(Resting) /\ Resting \in SyncRow /\ Resting.pc = "idle"
  BY <1>1, RestingIsGood DEF GoodSync, Resting
<1>3. \A p \in Syncers : syncer[p] = Resting
  BY <1>1
<1>4. StoreTypeOK
  <2>1. Empty \in [data : SUBSET (1 .. (MaxClosed + 1)), state : {"partial", "good", "mixed"},
                   by : Syncers \cup {"nobody"}]
    BY DEF Empty
  <2>2. inode \in [Inodes -> [data : SUBSET (1 .. (MaxClosed + 1)),
                             state : {"partial", "good", "mixed"},
                             by : Syncers \cup {"nobody"}]]
    BY <1>1, <2>1
  <2>3. closed \in Candles /\ synced \in 0 .. MaxClosed /\ jobs \in 0 .. MaxJobs
        /\ deaths \in 0 .. MaxDeaths /\ overlapped \in BOOLEAN /\ overtaken \in BOOLEAN
    <3>1. closed = 1 /\ synced = 0 /\ jobs = 0 /\ deaths = 0
      BY DEF StoreInit
    <3>2. overlapped \in BOOLEAN /\ overtaken \in BOOLEAN
      BY Zenon DEF StoreInit
    <3> QED
      BY <3>1, <3>2, StoreBounds DEF Candles
  <2>4. \A p \in Syncers : syncer[p].pc = "idle"
    BY <1>2, <1>3
  <2> QED
    BY <1>1, <2>2, <2>3, <2>4 DEF StoreTypeOK
<1>5. GoodFile
  BY <1>1, EmptyIsJoined DEF GoodFile, Readable, Empty
<1>6. OneSaver
  BY <1>2, <1>3 DEF OneSaver, Saving
<1>7. syncer \in [Syncers -> SyncRow] /\ \A p \in Syncers : GoodSync(syncer[p])
  BY <1>1, <1>2, <1>3
<1> QED
  BY <1>4, <1>5, <1>6, <1>7 DEF StoreIInv

(* A step of a synchronisation that leaves the files alone: it goes to a   *)
(* good state without an open file.                                        *)
LEMMA QuietStep ==
  ASSUME StoreIInv, NEW p \in Syncers, NEW v, GoodSync(v), v.fd = NoInode,
         Step(p, v), UnchangedFile, UNCHANGED closed,
         synced' \in 0 .. MaxClosed, jobs' \in 0 .. MaxJobs, deaths' \in 0 .. MaxDeaths
  PROVE  StoreIInv' /\ Data' = Data
<1>1. v \in SyncRow /\ v.pc \notin {"write", "replace"} /\ syncer \in [Syncers -> SyncRow]
  BY DEF GoodSync, StoreIInv
<1>2. /\ syncer' \in [Syncers -> SyncRow]
      /\ \A q \in Syncers : syncer'[q] = IF q = p THEN v ELSE syncer[q]
  BY <1>1 DEF Step
<1>3. StoreTypeOK'
  <2>1. \A q \in Syncers : syncer'[q].pc \in
          {"idle", "look", "begin", "load", "fetch", "open", "write", "replace"}
    BY <1>2 DEF SyncRow
  <2> QED
    BY <2>1 DEF StoreTypeOK, StoreIInv, UnchangedFile
<1>4. Data' = Data /\ Readable' = Readable
  BY DEF Data, Readable, UnchangedFile
<1>5. \A q \in Syncers : GoodSync(syncer'[q])
  BY <1>2 DEF StoreIInv
<1>6. \A q \in Syncers : GoodSync(syncer[q])'
  BY <1>4, <1>5 DEF GoodSync, Covers, Joined, UnchangedFile
<1>7. GoodFile'
  BY <1>4 DEF StoreIInv, GoodFile, Joined, UnchangedFile
<1>8. OneSaver'
  BY <1>1, <1>2 DEF StoreIInv, OneSaver, OwnsTemp, Saving, UnchangedFile
<1> QED
  BY <1>2, <1>3, <1>4, <1>6, <1>7, <1>8 DEF StoreIInv

(* The steps of a synchronisation before it saves, and its death.          *)
LEMMA SyncKeepsIInv ==
  ASSUME StoreIInv,
         \/ StartMarket
         \/ \E p \in Syncers : StartJob(p) \/ Look(p) \/ ReadClock(p) \/ Load(p) \/ Fetch(p)
                               \/ Dies(p)
  PROVE  StoreIInv' /\ Data' = Data
<1>1. /\ closed \in Candles /\ closed \in Nat /\ closed \in 0 .. MaxClosed
      /\ synced \in 0 .. MaxClosed /\ jobs \in 0 .. MaxJobs /\ deaths \in 0 .. MaxDeaths
      /\ overlapped \in BOOLEAN
  BY StoreBounds DEF StoreIInv, StoreTypeOK, Candles
<1>2. \A p \in Syncers : GoodSync(syncer[p]) /\ syncer[p] \in SyncRow
  BY DEF StoreIInv, GoodSync
<1>3. GoodSync(Resting) /\ Resting \in SyncRow /\ Resting.fd = NoInode /\ Resting.limit = 0
      /\ Resting.buf = {} /\ Resting.pc = "idle"
  BY <1>1, RestingIsGood DEF GoodSync, Resting
<1>4. Joined(Data)
  BY DataIsJoined DEF StoreIInv, StoreTypeOK
<1>5. Data \subseteq Listed /\ Data \subseteq 1 .. closed
  BY <1>4 DEF Joined
(* A failed or finished synchronisation rests.                             *)
<1>6. ASSUME NEW p \in Syncers, Fails(p), UnchangedFile, UNCHANGED closed,
             synced' \in 0 .. MaxClosed, jobs' \in 0 .. MaxJobs, deaths' \in 0 .. MaxDeaths
      PROVE  StoreIInv' /\ Data' = Data
  BY <1>3, <1>6, QuietStep DEF Fails
<1>7. CASE StartMarket
  <2> DEFINE v == [Resting EXCEPT !.pc = "look", !.since = MarketStart, !.want = closed]
  <2>1. /\ v \in SyncRow /\ v.pc = "look" /\ v.limit = 0 /\ v.buf = {} /\ v.fd = NoInode
    BY <1>1, <1>3, StoreBounds DEF SyncRow
  <2>2. GoodSync(v)
    <3> HIDE DEF v
    <3> QED
      BY <1>1, <2>1, EmptyIsJoined DEF GoodSync, Covers
  <2>3. Step("market", v) /\ UnchangedFile /\ UNCHANGED <<closed, jobs, deaths, synced>>
        /\ "market" \in Syncers
    BY <1>7, StoreBounds DEF StartMarket, UnchangedWorld
  <2> HIDE DEF v
  <2> QED
    BY <1>1, <2>1, <2>2, <2>3, QuietStep
<1>8. ASSUME NEW p \in Syncers, StartJob(p) PROVE StoreIInv' /\ Data' = Data
  <2>1. PICK s \in Starts : Step(p, [Resting EXCEPT !.pc = "look", !.since = s])
    BY <1>8 DEF StartJob
  <2> DEFINE v == [Resting EXCEPT !.pc = "look", !.since = s]
  <2>2. /\ v \in SyncRow /\ v.pc = "look" /\ v.limit = 0 /\ v.buf = {} /\ v.fd = NoInode
    BY <1>3, StoreBounds DEF SyncRow
  <2>3. GoodSync(v)
    <3> HIDE DEF v
    <3> QED
      BY <1>1, <2>2, EmptyIsJoined DEF GoodSync, Covers
  <2>4. Step(p, v)
    BY <2>1
  <2>5. UnchangedFile /\ UNCHANGED <<closed, deaths, synced>> /\ jobs' = jobs + 1 /\ jobs < MaxJobs
    BY <1>8, Zenon DEF StartJob
  <2>6. jobs' \in 0 .. MaxJobs
    BY <1>1, <2>5, StoreBounds
  <2> HIDE DEF v
  <2> QED
    BY <1>1, <2>2, <2>3, <2>4, <2>5, <2>6, QuietStep
<1>9. ASSUME NEW p \in Syncers, Look(p) PROVE StoreIInv' /\ Data' = Data
  <2> DEFINE s == syncer[p]
             older == From(s.since, Min(Data) - 1)
             look == [s EXCEPT !.pc = "begin"]
             backfill == [s EXCEPT !.pc = "open", !.then = "begin",
                                   !.buf = older \cup Data, !.stale = FALSE]
  <2>1. /\ s \in SyncRow /\ s.pc = "look" /\ s.fd = NoInode /\ s.limit <= closed /\ Joined(s.buf)
        /\ UnchangedFile /\ UNCHANGED <<closed, jobs, deaths, synced>>
    BY <1>2, <1>9 DEF Look, GoodSync, UnchangedWorld
  <2>2. GoodSync(look) /\ look.fd = NoInode
    <3>1. /\ look \in SyncRow /\ look.pc = "begin" /\ look.limit = s.limit /\ look.buf = s.buf
          /\ look.fd = NoInode
      BY <2>1 DEF SyncRow
    <3> HIDE DEF look, s
    <3> QED
      BY <2>1, <3>1 DEF GoodSync, Covers
  <2>3. ASSUME NeedsOlder(Data, s.since) PROVE GoodSync(backfill) /\ backfill.fd = NoInode
    <3>1. Data # {} /\ s.since \in Nat
      BY <2>1, <2>3 DEF NeedsOlder, SyncRow
    <3>2. Joined(older \cup Data)
      BY <1>1, <1>4, <3>1, OlderJoins
    <3>3. older \cup Data \in SUBSET Listed
      BY <3>2 DEF Joined
    <3> DEFINE B == older \cup Data
    <3> HIDE DEF older
    <3>4. Data \subseteq B
      OBVIOUS
    <3> HIDE DEF B
    <3>5. [s EXCEPT !.pc = "open", !.then = "begin", !.buf = B, !.stale = FALSE] \in SyncRow
      BY <2>1, <3>3 DEF SyncRow, B
    <3> DEFINE w == [s EXCEPT !.pc = "open", !.then = "begin", !.buf = B, !.stale = FALSE]
    <3>6. w.pc = "open" /\ w.buf = B /\ w.limit = s.limit /\ w.fd = NoInode
      BY <2>1 DEF SyncRow
    <3>7. GoodSync(w)
      <4> HIDE DEF w
      <4>1. w \in SyncRow
        BY <3>5 DEF w
      <4>2. Joined(w.buf)
        BY <3>2, <3>6 DEF B
      <4> HIDE DEF s
      <4> QED
        BY <2>1, <3>4, <3>6, <4>1, <4>2 DEF GoodSync, Covers
    <3> QED
      BY <3>6, <3>7 DEF B
  <2>4. \/ Fails(p) \/ Step(p, look)
        \/ NeedsOlder(Data, s.since) /\ Step(p, backfill)
    BY <1>9 DEF Look
  <2> HIDE DEF look, backfill, s
  <2>5. CASE Fails(p)
    BY <1>1, <1>6, <2>1, <2>5
  <2>6. CASE Step(p, look)
    BY <1>1, <2>1, <2>2, <2>6, QuietStep
  <2>7. CASE NeedsOlder(Data, s.since) /\ Step(p, backfill)
    BY <1>1, <2>1, <2>3, <2>7, QuietStep
  <2> QED
    BY <2>4, <2>5, <2>6, <2>7
<1>10. ASSUME NEW p \in Syncers, ReadClock(p) PROVE StoreIInv' /\ Data' = Data
  <2> DEFINE s == syncer[p]
             v == [s EXCEPT !.pc = "load", !.limit = LastClosed, !.stale = FALSE]
  <2>1. /\ s \in SyncRow /\ s.pc = "begin" /\ s.fd = NoInode /\ Joined(s.buf)
        /\ UnchangedFile /\ UNCHANGED <<closed, jobs, deaths, synced>>
    BY <1>2, <1>10 DEF ReadClock, GoodSync, UnchangedWorld
  <2>2. /\ v \in SyncRow /\ v.pc = "load" /\ v.limit = closed /\ v.fd = NoInode /\ v.buf = s.buf
    BY <1>1, <2>1 DEF SyncRow, LastClosed
  <2>3. Step(p, v)
    BY <1>10 DEF ReadClock
  <2> HIDE DEF v, s
  <2>4. GoodSync(v)
    BY <1>1, <1>5, <2>1, <2>2 DEF GoodSync, Covers
  <2> QED
    BY <1>1, <2>1, <2>2, <2>3, <2>4, QuietStep
<1>11. ASSUME NEW p \in Syncers, Load(p) PROVE StoreIInv' /\ Data' = Data
  <2> DEFINE s == syncer[p]
             v == [s EXCEPT !.pc = "fetch", !.buf = Data]
  <2>1. /\ s \in SyncRow /\ s.pc = "load" /\ s.fd = NoInode /\ s.limit <= closed
        /\ ~overlapped /\ ~s.stale => Data \subseteq 1 .. s.limit
        /\ UnchangedFile /\ UNCHANGED <<closed, jobs, deaths, synced>>
    BY <1>2, <1>11 DEF Load, GoodSync, Covers, UnchangedWorld
  <2>2. /\ v \in SyncRow /\ v.pc = "fetch" /\ v.limit = s.limit /\ v.fd = NoInode
        /\ v.buf = Data /\ v.stale = s.stale
    BY <1>5, <2>1 DEF SyncRow
  <2>3. Step(p, v) \/ Fails(p)
    BY <1>11 DEF Load, Existing
  <2> HIDE DEF v, s
  <2>4. GoodSync(v)
    BY <1>4, <2>1, <2>2 DEF GoodSync, Covers
  <2>5. CASE Fails(p)
    BY <1>1, <1>6, <2>1, <2>5
  <2>6. CASE Step(p, v)
    BY <1>1, <2>1, <2>2, <2>4, <2>6, QuietStep
  <2> QED
    BY <2>3, <2>5, <2>6
<1>12. ASSUME NEW p \in Syncers, Fetch(p) PROVE StoreIInv' /\ Data' = Data
  <2> DEFINE s == syncer[p]
             all == s.buf \cup From(Cursor(s.buf, s.since, s.limit), s.limit)
             E == {c \in all : c <= s.limit}
             v == [s EXCEPT !.pc = "open", !.then = "idle", !.buf = E]
  <2>1. /\ s \in SyncRow /\ s.pc = "fetch" /\ s.fd = NoInode /\ s.limit <= closed /\ Joined(s.buf)
        /\ ~overlapped /\ ~s.stale => Data \subseteq 1 .. s.limit /\ Data \subseteq s.buf
        /\ UnchangedFile /\ UNCHANGED <<closed, jobs, deaths>>
    BY <1>2, <1>12 DEF Fetch, GoodSync, Covers, UnchangedWorld
  <2>2. s.since \in Nat /\ s.limit \in Nat /\ s.want \in 0 .. MaxClosed
    BY <2>1, StoreBounds DEF SyncRow
  <2>3. Joined(E)
    BY <1>1, <2>1, <2>2, NewerJoins
  <2>4. ASSUME ~overlapped, ~s.stale PROVE Data \subseteq E
    <3> HIDE DEF s
    <3>1. \A c \in Data : c <= s.limit
      BY <2>1, <2>2, <2>4
    <3>2. \A c \in Data : c \in all
      BY <2>1, <2>4
    <3> QED
      BY <3>1, <3>2
  <2>5. E \in SUBSET Listed
    BY <2>3 DEF Joined
  <2>6. /\ Step(p, Resting) \/ Step(p, v)
        /\ synced' \in {synced, s.want}
    BY <1>12 DEF Fetch, Finish, Abandon, Fails
  <2> HIDE DEF E, all
  <2>7. /\ v \in SyncRow /\ v.pc = "open" /\ v.limit = s.limit /\ v.fd = NoInode
        /\ v.buf = E /\ v.stale = s.stale
    BY <2>1, <2>5 DEF SyncRow
  <2> HIDE DEF v, s
  <2>8. GoodSync(v)
    BY <2>1, <2>3, <2>4, <2>7 DEF GoodSync, Covers
  <2>9. synced' \in 0 .. MaxClosed
    BY <1>1, <2>2, <2>6
  <2>10. CASE Step(p, Resting)
    BY <1>1, <1>6, <2>1, <2>9, <2>10 DEF Fails
  <2>11. CASE Step(p, v)
    BY <1>1, <2>1, <2>7, <2>8, <2>9, <2>11, QuietStep
  <2> QED
    BY <2>6, <2>10, <2>11
<1>13. ASSUME NEW p \in Syncers, Dies(p) PROVE StoreIInv' /\ Data' = Data
  <2>1. Fails(p) /\ UnchangedFile /\ UNCHANGED <<closed, jobs>>
        /\ synced' \in 0 .. MaxClosed /\ deaths' \in 0 .. MaxDeaths
    BY <1>1, <1>13, StoreBounds DEF Dies
  <2> QED
    BY <1>1, <1>6, <2>1
<1> QED
  BY <1>7, <1>8, <1>9, <1>10, <1>11, <1>12, <1>13

(* A candle closes.                                                        *)
LEMMA CloseKeepsIInv ==
  ASSUME StoreIInv, CandleCloses
  PROVE  StoreIInv' /\ Data' = Data
<1>1. closed \in Nat /\ closed' \in Candles /\ closed' \in Nat /\ closed <= closed'
  BY StoreBounds DEF CandleCloses, StoreIInv, StoreTypeOK, Candles
<1>2. UnchangedFile /\ UNCHANGED <<syncer, synced, jobs, deaths>>
  BY Zenon DEF CandleCloses
<1>3. StoreTypeOK' /\ (syncer \in [Syncers -> SyncRow])'
  BY <1>1, <1>2 DEF StoreIInv, StoreTypeOK, UnchangedFile
<1>4. Data' = Data /\ Readable' = Readable
  BY <1>2 DEF Data, Readable, UnchangedFile
<1>5. ASSUME NEW D, Joined(D) PROVE Joined(D)'
  BY <1>1, <1>5, JoinedStays
<1>6. ASSUME NEW q \in Syncers PROVE GoodSync(syncer[q])'
  <2>1. ASSUME NEW v, GoodSync(v) PROVE GoodSync(v)'
    <3>1. v.limit <= closed' /\ v \in SyncRow
      BY <1>1, <2>1, StoreBounds DEF GoodSync, SyncRow
    <3>2. Joined(v.buf)'
      BY <1>5, <2>1 DEF GoodSync
    <3> QED
      BY <1>2, <1>4, <2>1, <3>1, <3>2 DEF GoodSync, Covers, UnchangedFile
  <2>2. GoodSync(syncer[q]) /\ syncer'[q] = syncer[q]
    BY <1>2 DEF StoreIInv
  <2> QED
    BY <2>1, <2>2, Zenon
<1>7. GoodFile'
  <2>1. ASSUME NEW i \in Inodes PROVE Joined(inode[i].data)'
    <3>1. inode' = inode /\ Joined(inode[i].data)
      BY <1>2 DEF UnchangedFile, StoreIInv, GoodFile
    <3>2. Joined(inode[i].data)' <=> (\A D : D = inode'[i].data => Joined(D)')
      BY DEF Joined
    <3> QED
      BY <1>5, <3>1, <3>2
  <2> QED
    BY <1>2, <1>4, <2>1 DEF StoreIInv, GoodFile, UnchangedFile
<1>8. OneSaver'
  BY <1>2 DEF StoreIInv, OneSaver, OwnsTemp, Saving, UnchangedFile
<1> QED
  BY <1>3, <1>4, <1>6, <1>7, <1>8 DEF StoreIInv

(* What the invariant says of the files, and of a process that saves.      *)
LEMMA SaverFacts ==
  ASSUME StoreIInv, NEW p \in Syncers, syncer[p].pc \in {"open", "write", "replace"}
  PROVE  /\ syncer \in [Syncers -> SyncRow] /\ syncer[p] \in SyncRow
         /\ Joined(syncer[p].buf) /\ syncer[p].buf \in SUBSET (1 .. (MaxClosed + 1))
         /\ file \in {NoInode} \cup Inodes /\ temp \in {NoInode} \cup Inodes
         /\ temp # NoInode => temp # file
         /\ inode \in [Inodes -> [data : SUBSET (1 .. (MaxClosed + 1)),
                                  state : {"partial", "good", "mixed"},
                                  by : Syncers \cup {"nobody"}]]
         /\ Saving(p) => syncer[p].fd \in Inodes /\ syncer[p].fd # NoInode
         /\ ~overlapped /\ Saving(p) => OwnsTemp(p)
         /\ ~overlapped /\ ~syncer[p].stale => Data \subseteq syncer[p].buf
<1>1. closed \in 1 .. MaxClosed /\ MaxClosed \in Nat
  BY StoreBounds DEF StoreIInv, StoreTypeOK, Candles
<1>2. GoodSync(syncer[p])
  BY DEF StoreIInv
<1>3. syncer[p] \in SyncRow /\ Joined(syncer[p].buf)
  BY <1>2 DEF GoodSync
<1>4. syncer[p].buf \in SUBSET (1 .. (MaxClosed + 1))
  BY <1>1, <1>3 DEF Joined
<1>5. Saving(p) => syncer[p].fd \in Inodes /\ syncer[p].fd # NoInode
  BY <1>2, <1>3 DEF GoodSync, SyncRow, Saving
<1> QED
  BY <1>2, <1>3, <1>4, <1>5 DEF StoreIInv, StoreTypeOK, GoodFile, OneSaver, GoodSync, Covers

(* Opening the temporary file empties it, and never the dataset's.         *)
LEMMA OpenKeepsIInv ==
  ASSUME StoreIInv, NEW p \in Syncers, OpenTemp(p)
  PROVE  StoreIInv' /\ Data' = Data
<1> DEFINE s == syncer[p]
           i == TempInode
           v == [s EXCEPT !.pc = "write", !.fd = i]
           w == [Empty EXCEPT !.by = p]
<1>1. /\ s.pc = "open" /\ temp' = i /\ inode' = [inode EXCEPT ![i] = w]
      /\ Step(p, v)
      /\ overlapped' = (overlapped \/ \E q \in Syncers \ {p} : Saving(q))
      /\ UNCHANGED <<closed, jobs, deaths, file, overtaken, synced>>
  BY Zenon DEF OpenTemp, UnchangedWorld
<1>2. i \in Inodes /\ i # file /\ i # NoInode
  <2>1. Inodes \subseteq Nat \ {NoInode}
    BY StoreBounds, FS_CardinalityType DEF Inodes, NoInode
  <2> QED
    BY <1>1, <2>1, SaverFacts, UnusedIsFree DEF TempInode
<1>3. /\ v \in SyncRow /\ v.pc = "write" /\ v.fd = i /\ v.buf = s.buf /\ v.limit = s.limit
      /\ v.stale = s.stale
  BY <1>1, <1>2, SaverFacts DEF SyncRow
<1>4. /\ w.data = {} /\ w.state = "partial" /\ w.by = p
      /\ w \in [data : SUBSET (1 .. (MaxClosed + 1)), state : {"partial", "good", "mixed"},
                by : Syncers \cup {"nobody"}]
  BY DEF Empty
<1> HIDE DEF i, v, w
<1>5. /\ syncer' \in [Syncers -> SyncRow]
      /\ \A q \in Syncers : syncer'[q] = IF q = p THEN v ELSE syncer[q]
  BY <1>1, <1>3, SaverFacts DEF Step
<1>6. /\ inode' \in [Inodes -> [data : SUBSET (1 .. (MaxClosed + 1)),
                                state : {"partial", "good", "mixed"},
                                by : Syncers \cup {"nobody"}]]
      /\ \A j \in Inodes : inode'[j] = IF j = i THEN w ELSE inode[j]
  BY <1>1, <1>2, <1>4, SaverFacts
<1>7. overlapped' \in BOOLEAN /\ (~overlapped' => ~overlapped)
      /\ (~overlapped' => \A q \in Syncers \ {p} : ~Saving(q))
  BY <1>1, Zenon DEF StoreIInv, StoreTypeOK
<1>8. StoreTypeOK'
  <2>1. \A q \in Syncers : syncer'[q].pc \in
          {"idle", "look", "begin", "load", "fetch", "open", "write", "replace"}
    BY <1>5 DEF SyncRow
  <2> QED
    BY <1>1, <1>2, <1>6, <1>7, <2>1 DEF StoreIInv, StoreTypeOK
<1>9. Data' = Data /\ Readable' = Readable
  BY <1>1, <1>2, <1>6, SaverFacts DEF Data, Readable
<1>10. ASSUME NEW q \in Syncers PROVE GoodSync(syncer[q])'
  <2>1. GoodSync(syncer[q]) /\ GoodSync(s)
    BY DEF StoreIInv
  <2>2. GoodSync(v)
    BY <1>1, <1>2, <1>3, <2>1 DEF GoodSync, Covers
  <2>3. GoodSync(syncer'[q])
    BY <1>5, <2>1, <2>2
  <2> QED
    BY <1>1, <1>7, <1>9, <2>3 DEF GoodSync, Covers, Joined
<1>11. GoodFile'
  <2>1. ASSUME NEW j \in Inodes PROVE Joined(inode'[j].data)
    BY <1>4, <1>6, EmptyIsJoined DEF StoreIInv, GoodFile
  <2> QED
    BY <1>1, <1>2, <1>7, <1>9, <2>1 DEF StoreIInv, GoodFile, Joined
<1>12. OneSaver'
  BY <1>1, <1>2, <1>3, <1>4, <1>5, <1>6, <1>7 DEF OneSaver, OwnsTemp, Saving
<1> QED
  BY <1>5, <1>8, <1>9, <1>10, <1>11, <1>12 DEF StoreIInv

(* Without an overlap it is the writer's own temporary file that is        *)
(* written, and it is complete.                                            *)
LEMMA WriteTempKeepsIInv ==
  ASSUME StoreIInv, NEW p \in Syncers, WriteTemp(p)
  PROVE  StoreIInv' /\ overlapped' = overlapped /\ (~overlapped => Data' = Data)
<1> DEFINE s == syncer[p]
           v == [s EXCEPT !.pc = "replace"]
           alone == inode[s.fd].by = p /\ \A q \in Syncers \ {p} : syncer[q].fd # s.fd
<1>1. /\ s.pc = "write" /\ Saving(p) /\ Step(p, v)
      /\ UNCHANGED <<closed, jobs, deaths, file, temp, overlapped, overtaken, synced>>
  BY Zenon DEF WriteTemp, UnchangedWorld, Saving
<1>2. PICK st \in (IF alone THEN {"good"} ELSE {"good", "mixed"}) :
        inode' = [inode EXCEPT ![s.fd] = [@ EXCEPT !.data = s.buf, !.state = st]]
  BY Zenon DEF WriteTemp
<1> DEFINE w == [inode[s.fd] EXCEPT !.data = s.buf, !.state = st]
<1>3. s.fd \in Inodes /\ s.fd # NoInode
  BY <1>1, SaverFacts
<1>4. /\ w.data = s.buf /\ w.state = st /\ w.by = inode[s.fd].by
      /\ w \in [data : SUBSET (1 .. (MaxClosed + 1)), state : {"partial", "good", "mixed"},
                by : Syncers \cup {"nobody"}]
  <2>1. st \in {"partial", "good", "mixed"}
    BY Zenon
  <2> DEFINE r == inode[s.fd]
             b == s.buf
  <2>2. r \in [data : SUBSET (1 .. (MaxClosed + 1)), state : {"partial", "good", "mixed"},
               by : Syncers \cup {"nobody"}]
    BY <1>1, <1>3, SaverFacts
  <2>3. b \in SUBSET (1 .. (MaxClosed + 1))
    BY <1>1, SaverFacts
  <2> HIDE DEF r, b
  <2>4. w = [r EXCEPT !.data = b, !.state = st]
    BY DEF r, b
  <2>5. w.data = b /\ w.state = st /\ w.by = r.by
        /\ w \in [data : SUBSET (1 .. (MaxClosed + 1)), state : {"partial", "good", "mixed"},
                  by : Syncers \cup {"nobody"}]
    <3> HIDE DEF w
    <3> QED
      BY <2>1, <2>2, <2>3, <2>4
  <2> QED
    BY <2>5 DEF r, b
<1>5. inode' = [inode EXCEPT ![s.fd] = w]
  BY <1>2
<1>6. /\ v \in SyncRow /\ v.pc = "replace" /\ v.fd = s.fd /\ v.buf = s.buf /\ v.limit = s.limit
      /\ v.stale = s.stale
  BY <1>1, SaverFacts DEF SyncRow
<1>7. ~overlapped => OwnsTemp(p) /\ alone
  <2>1. ~overlapped => OwnsTemp(p)
    BY <1>1, SaverFacts
  <2>2. ASSUME OwnsTemp(p), NEW q \in Syncers \ {p} PROVE syncer[q].fd # s.fd
    <3>1. GoodSync(syncer[q]) /\ syncer[q].fd = NoInode
      BY <2>2 DEF StoreIInv, OwnsTemp, GoodSync, Saving
    <3> QED
      BY <1>3, <3>1
  <2> QED
    BY <2>1, <2>2 DEF OwnsTemp
<1>8. ~overlapped => st = "good"
  BY <1>2, <1>7
<1> HIDE DEF v, w
<1>9. /\ syncer' \in [Syncers -> SyncRow]
      /\ \A q \in Syncers : syncer'[q] = IF q = p THEN v ELSE syncer[q]
  BY <1>1, <1>6, SaverFacts DEF Step
<1>10. /\ inode' \in [Inodes -> [data : SUBSET (1 .. (MaxClosed + 1)),
                                 state : {"partial", "good", "mixed"},
                                 by : Syncers \cup {"nobody"}]]
       /\ \A j \in Inodes : inode'[j] = IF j = s.fd THEN w ELSE inode[j]
  BY <1>1, <1>3, <1>4, <1>5, SaverFacts
<1>11. StoreTypeOK'
  <2>1. \A q \in Syncers : syncer'[q].pc \in
          {"idle", "look", "begin", "load", "fetch", "open", "write", "replace"}
    BY <1>9 DEF SyncRow
  <2> QED
    BY <1>1, <1>10, <2>1 DEF StoreIInv, StoreTypeOK
<1>12. ~overlapped => Data' = Data /\ Readable' = Readable
  BY <1>1, <1>3, <1>7, <1>10, SaverFacts DEF Data, Readable, OwnsTemp
<1>13. ASSUME NEW q \in Syncers PROVE GoodSync(syncer[q])'
  <2>1. GoodSync(syncer[q]) /\ GoodSync(s)
    BY DEF StoreIInv
  <2>2. GoodSync(v)
    BY <1>1, <1>6, <2>1 DEF GoodSync, Covers
  <2>3. GoodSync(syncer'[q])
    BY <1>9, <2>1, <2>2
  <2> QED
    BY <1>1, <1>12, <2>3 DEF GoodSync, Covers, Joined
<1>14. GoodFile'
  <2>1. ASSUME NEW j \in Inodes PROVE Joined(inode'[j].data)
    BY <1>1, <1>4, <1>10, SaverFacts DEF StoreIInv, GoodFile
  <2> QED
    BY <1>1, <1>12, <2>1 DEF StoreIInv, GoodFile, Joined
<1>15. OneSaver'
  <2>1. ASSUME ~overlapped', NEW q \in Syncers, Saving(q)' PROVE OwnsTemp(q)'
    <3>1. ~overlapped /\ OwnsTemp(p) /\ st = "good"
      BY <1>1, <1>7, <1>8, <2>1
    <3>2. q = p
      BY <1>9, <2>1, <3>1 DEF OwnsTemp, Saving
    <3>3. s.fd = temp /\ inode'[temp] = w /\ w.by = p /\ w.state = "good" /\ w.data = s.buf
      BY <1>3, <1>4, <1>10, <3>1 DEF OwnsTemp
    <3>4. temp' # NoInode /\ syncer'[p].fd = temp' /\ inode'[temp'].by = p
          /\ inode'[temp'].state = "good" /\ inode'[temp'].data = syncer'[p].buf
      BY <1>1, <1>3, <1>6, <1>9, <3>3
    <3>5. \A r \in Syncers \ {p} : ~Saving(r)'
      BY <1>9, <3>1 DEF OwnsTemp, Saving
    <3> QED
      BY <3>2, <3>4, <3>5 DEF OwnsTemp
  <2> QED
    BY <2>1 DEF OneSaver
<1> QED
  BY <1>1, <1>9, <1>11, <1>12, <1>13, <1>14, <1>15 DEF StoreIInv

(* The temporary file takes the dataset's name: without an overlap it is   *)
(* the complete file of this process, and it has every candle of the one   *)
(* it replaces unless that one has changed since the save began.           *)
LEMMA ReplaceKeepsIInv ==
  ASSUME StoreIInv, NEW p \in Syncers, Replace(p)
  PROVE  StoreIInv' /\ (~overlapped' /\ ~overtaken' => Data \subseteq Data')
<1> DEFINE s == syncer[p]
<1>1. s.pc = "replace" /\ Saving(p) /\ UNCHANGED <<closed, jobs, deaths, overlapped>>
  BY Zenon DEF Replace, UnchangedWorld, Saving
<1>2. /\ closed \in 1 .. MaxClosed /\ closed \in Nat /\ synced \in 0 .. MaxClosed
      /\ jobs \in 0 .. MaxJobs /\ deaths \in 0 .. MaxDeaths
      /\ overlapped \in BOOLEAN /\ overtaken \in BOOLEAN
  BY StoreBounds DEF StoreIInv, StoreTypeOK, Candles
<1>3. Resting \in SyncRow /\ GoodSync(Resting) /\ Resting.pc = "idle" /\ Resting.fd = NoInode
  BY <1>2, RestingIsGood DEF GoodSync, Resting
<1>4. CASE Fails(p) /\ UNCHANGED <<file, temp, inode, overtaken, synced>>
  <2>1. StoreIInv' /\ Data' = Data
    <3>1. UnchangedFile /\ Step(p, Resting)
      BY <1>1, <1>4 DEF UnchangedFile, Fails
    <3> QED
      BY <1>1, <1>2, <1>3, <1>4, <3>1, QuietStep
  <2> QED
    BY <2>1
<1>5. CASE ~(Fails(p) /\ UNCHANGED <<file, temp, inode, overtaken, synced>>)
  <2> DEFINE own == IF s.then = "idle" THEN Resting ELSE [s EXCEPT !.pc = s.then, !.fd = NoInode]
             changed(q) == [syncer[q] EXCEPT !.stale = (@ \/ syncer[q].pc # "idle")]
  <2>1. /\ temp # NoInode /\ file' = temp /\ temp' = NoInode
        /\ overtaken' = (overtaken \/ s.stale)
        /\ inode' = [i \in Inodes |-> IF i \in Kept(p) THEN inode[i] ELSE Empty]
        /\ synced' \in {synced, s.want}
    BY <1>5 DEF Replace, Finish
  <2>2. syncer' = [q \in Syncers |-> IF q # p THEN changed(q) ELSE own]
    BY <1>5, Zenon DEF Replace
  <2>3. /\ s \in SyncRow /\ Joined(s.buf) /\ s.limit <= closed
        /\ temp \in Inodes /\ file \in {NoInode} \cup Inodes /\ syncer \in [Syncers -> SyncRow]
        /\ ~overlapped => OwnsTemp(p)
        /\ ~overlapped /\ ~s.stale => Data \subseteq s.buf
    BY <1>1, <2>1, SaverFacts DEF StoreIInv, GoodSync
  <2>4. own \in SyncRow /\ own.pc \in {"idle", "begin"} /\ own.fd = NoInode /\ GoodSync(own)
    <3>1. CASE s.then = "idle"
      BY <1>3, <3>1
    <3>2. CASE s.then # "idle"
      <4> DEFINE v == [s EXCEPT !.pc = "begin", !.fd = NoInode]
      <4>1. s.then = "begin" /\ own = v
        BY <2>3, <3>2 DEF SyncRow
      <4>2. v \in SyncRow /\ v.pc = "begin" /\ v.fd = NoInode /\ v.limit = s.limit /\ v.buf = s.buf
        BY <2>3 DEF SyncRow
      <4>3. GoodSync(v)
        <5> HIDE DEF v, s
        <5> QED
          BY <2>3, <4>2 DEF GoodSync, Covers
      <4> QED
        BY <4>1, <4>2, <4>3
    <3> QED
      BY <3>1, <3>2
  <2>5. ASSUME NEW q \in Syncers \ {p}
        PROVE  /\ changed(q) \in SyncRow /\ GoodSync(changed(q))
               /\ changed(q).pc = syncer[q].pc
               /\ ~changed(q).stale => changed(q).pc = "idle"
    <3> DEFINE v == syncer[q]
               b == (v.stale \/ v.pc # "idle")
               w == [v EXCEPT !.stale = b]
    <3>1. v \in SyncRow /\ GoodSync(v)
      BY <2>3 DEF StoreIInv
    <3>2. b \in BOOLEAN
      OBVIOUS
    <3>3. ~b => v.pc = "idle"
      OBVIOUS
    <3> HIDE DEF v, b
    <3>4. /\ w \in SyncRow /\ w.pc = v.pc /\ w.limit = v.limit /\ w.buf = v.buf /\ w.fd = v.fd
          /\ w.stale = b
      BY <3>1, <3>2, Zenon DEF SyncRow
    <3> HIDE DEF w
    <3>5. GoodSync(w) /\ (~w.stale => w.pc = "idle")
      BY <3>1, <3>3, <3>4 DEF GoodSync, Covers
    <3> QED
      BY <3>4, <3>5 DEF w, v, b
  <2> HIDE DEF own, changed
  <2>6. /\ syncer' \in [Syncers -> SyncRow]
        /\ \A q \in Syncers : syncer'[q] = IF q # p THEN changed(q) ELSE own
    BY <2>2, <2>4, <2>5
  <2>7. /\ \A i \in Inodes : inode'[i] = inode[i] \/ inode'[i] = Empty
        /\ inode'[temp] = inode[temp]
    BY <2>1, <2>3 DEF Kept
  <2>8. StoreTypeOK'
    <3> DEFINE InodeRow == [data : SUBSET (1 .. (MaxClosed + 1)),
                            state : {"partial", "good", "mixed"}, by : Syncers \cup {"nobody"}]
    <3>1. Empty \in InodeRow /\ inode \in [Inodes -> InodeRow]
      BY DEF Empty, StoreIInv, StoreTypeOK
    <3>2. inode' \in [Inodes -> InodeRow]
      <4> HIDE DEF InodeRow
      <4> QED
        BY <2>1, <3>1
    <3>3. \A q \in Syncers : syncer'[q].pc \in
            {"idle", "look", "begin", "load", "fetch", "open", "write", "replace"}
      BY <2>6 DEF SyncRow
    <3>4. synced' \in 0 .. MaxClosed
      BY <1>2, <2>1, <2>3 DEF SyncRow
    <3>5. overtaken' \in BOOLEAN /\ overlapped' \in BOOLEAN
      BY <1>1, <1>2, <2>1, Zenon
    <3>6. file' \in {NoInode} \cup Inodes /\ temp' \in {NoInode} \cup Inodes
      BY <2>1, <2>3
    <3> QED
      BY <1>1, <1>2, <3>2, <3>3, <3>4, <3>5, <3>6 DEF StoreTypeOK, Candles
  <2>9. ~overlapped => Readable' /\ inode[temp].data = s.buf
    BY <1>1, <2>1, <2>3, <2>7 DEF Readable, OwnsTemp
  <2>10. ASSUME NEW q \in Syncers PROVE GoodSync(syncer[q])'
    <3>1. CASE q = p
      <4>1. syncer'[q] = own
        BY <2>6, <3>1
      <4> QED
        BY <1>1, <2>4, <4>1 DEF GoodSync, Covers, Joined
    <3>2. CASE q # p
      <4>1. syncer'[q] = changed(q)
        BY <2>6, <3>2
      <4>2. GoodSync(changed(q)) /\ (~changed(q).stale => changed(q).pc = "idle")
        BY <2>5, <3>2
      <4> QED
        BY <1>1, <4>1, <4>2 DEF GoodSync, Covers, Joined
    <3> QED
      BY <3>1, <3>2
  <2>11. GoodFile'
    <3>1. ASSUME NEW i \in Inodes PROVE Joined(inode'[i].data)
      <4>1. Empty.data = {} /\ Joined(Empty.data)
        BY EmptyIsJoined DEF Empty
      <4>2. Joined(inode[i].data)
        BY DEF StoreIInv, GoodFile
      <4>3. CASE inode'[i] = inode[i]
        BY <4>2, <4>3
      <4>4. CASE inode'[i] = Empty
        BY <4>1, <4>4
      <4> QED
        BY <2>7, <4>3, <4>4
    <3> QED
      BY <1>1, <2>1, <2>9, <3>1 DEF GoodFile, Joined
  <2>12. OneSaver'
    <3>1. ASSUME ~overlapped, NEW q \in Syncers PROVE ~Saving(q)'
      <4>1. q # p => ~Saving(q)
        BY <2>3, <3>1 DEF OwnsTemp
      <4>2. syncer'[q].pc \notin {"write", "replace"}
        BY <2>4, <2>5, <2>6, <4>1 DEF Saving
      <4> QED
        BY <4>2 DEF Saving
    <3> QED
      BY <1>1, <3>1 DEF OneSaver
  <2>13. ~overlapped' /\ ~overtaken' => Data \subseteq Data'
    <3>1. ~overlapped' /\ ~overtaken' => ~overlapped /\ ~s.stale
      BY <1>1, <2>1
    <3>2. Data' = inode[temp].data
      BY <2>1, <2>3, <2>7 DEF Data
    <3> QED
      BY <2>3, <2>9, <3>1, <3>2
  <2> QED
    BY <2>6, <2>8, <2>10, <2>11, <2>12, <2>13 DEF StoreIInv
<1> QED
  BY <1>4, <1>5

-----------------------------------------------------------------------------
LEMMA StoreNextKeepsIInv ==
  ASSUME StoreIInv, [StoreNext]_storeVars
  PROVE  /\ StoreIInv'
         /\ ~overlapped' /\ ~overtaken' => Data \subseteq Data'
<1>1. CASE \/ StartMarket
           \/ \E p \in Syncers : StartJob(p) \/ Look(p) \/ ReadClock(p) \/ Load(p) \/ Fetch(p)
                                 \/ Dies(p)
  BY <1>1, SyncKeepsIInv
<1>2. ASSUME NEW p \in Syncers, OpenTemp(p) \/ WriteTemp(p) \/ Replace(p)
      PROVE  StoreIInv' /\ (~overlapped' /\ ~overtaken' => Data \subseteq Data')
  BY <1>2, OpenKeepsIInv, WriteTempKeepsIInv, ReplaceKeepsIInv
<1>3. CASE CandleCloses
  BY <1>3, CloseKeepsIInv
<1>4. CASE UNCHANGED storeVars
  BY <1>4 DEF storeVars, StoreIInv, StoreTypeOK, GoodSync, Covers, GoodFile, OneSaver, OwnsTemp,
     Joined, Saving, Readable, Data
<1> QED
  BY <1>1, <1>2, <1>3, <1>4 DEF StoreNext, SyncStep

LEMMA StoreIInvSuffices == StoreIInv => StoreInv
<1> SUFFICES ASSUME StoreIInv PROVE StoreInv
  OBVIOUS
<1>1. closed \in Nat /\ file \in {NoInode} \cup Inodes /\ StoreTypeOK
  BY StoreBounds DEF StoreIInv, StoreTypeOK, Candles
<1>2. Joined(Data)
  BY <1>1, DataIsJoined DEF StoreIInv
<1>3. ClosedOnly
  BY <1>2 DEF Joined, ClosedOnly
<1>4. NoHole
  BY <1>1, <1>2, JoinedHasNoHole DEF NoHole
<1>5. WholeFile
  BY DEF StoreIInv, GoodFile, WholeFile
<1> QED
  BY <1>1, <1>3, <1>4, <1>5 DEF StoreInv

(* Whatever processes synchronise one dataset, whenever they die and       *)
(* however their saves interleave (market/store.py:75-105): the file has   *)
(* closed candles only and no hole the exchange does not have, and it can  *)
(* be read unless two saves were at work on the temporary file at once.    *)
THEOREM FileIsSound == StoreSpec => []StoreInv
<1>1. StoreIInv /\ [StoreNext]_storeVars => StoreIInv'
  BY StoreNextKeepsIInv
<1> QED
  BY StoreInitIInv, StoreIInvSuffices, <1>1, PTL DEF StoreSpec

(* And a candle that readers have seen stays in it, unless a save replaced *)
(* a file that had changed since it read the clock (market/store.py:75-105, *)
(* services.py:296), or two of them overlapped.                            *)
THEOREM CandlesStay == StoreSpec => NothingForgotten
<1>1. StoreIInv /\ [StoreNext]_storeVars => StoreIInv'
  BY StoreNextKeepsIInv
<1>2. StoreIInv /\ [StoreNext]_storeVars =>
        [Readable /\ Readable' /\ ~overlapped' /\ ~overtaken' => Data \subseteq Data']_storeVars
  BY StoreNextKeepsIInv
<1> QED
  BY StoreInitIInv, <1>1, <1>2, PTL DEF StoreSpec, NothingForgotten
=============================================================================
