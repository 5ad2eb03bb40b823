---- MODULE Sessions_proofs ----
(***************************************************************************)
(* What TLAPS proves of Sessions, for any number of ids, subjects and      *)
(* requests, any owner of each id, any cap and any lifetime.               *)
(*                                                                         *)
(* Everything follows from one invariant, SessionInv.  Its heart is that   *)
(* the in-flight map and the requests agree: a rebuild under way is led by *)
(* one request that holds its key, whoever joined waits on a leader of the *)
(* same key, and a half-built session is one whose leader has replayed and *)
(* not settled.  So while a session of the right subject is being rebuilt  *)
(* nobody else can enter it into the map or find it there.                 *)
(***************************************************************************)
EXTENDS Sessions, FiniteSetTheorems, TLAPS

PCs == {"idle", "persist", "flush", "full", "again", "refused", "answer", "joined", "serve",
        "read", "drop", "build", "replayed", "close"}
Leading == {"read", "drop", "build", "replayed"}
Persisting == {"persist", "flush", "full", "again", "refused", "answer"}
Holding == Persisting \cup {"build", "replayed"}

RequestRec == [pc : PCs, id : SUBSET Id, subject : SUBSET Subject, lead : SUBSET Request]
PruneRec == [todo : SUBSET Id, doomed : SUBSET Id]
LiveRec == [subject : Subject, by : Request, half : BOOLEAN]
StoredRec == [subject : Subject, age : 0..(SessionTTL + 1)]

\* The records as a get finds them: under their cap, each its owner's; what is stale has lapsed.
BufferInv ==
  /\ DOMAIN records \subseteq Id /\ \A i \in DOMAIN records : records[i] \in StoredRec
  /\ IsFiniteSet(DOMAIN records) /\ RecordsCapped
  /\ \A i \in DOMAIN records : records[i].subject = Owner[i]
  /\ \A i \in DOMAIN records : ExpiredRecord(i) => i \in lapsed

\* The records on disk: the same of each, and none that a get would not find.
DiskInv ==
  /\ DOMAIN saved \subseteq DOMAIN records /\ unsaved \subseteq Id
  /\ \A i \in DOMAIN saved : saved[i] \in StoredRec /\ saved[i].subject = Owner[i]
  /\ \A i \in DOMAIN saved : saved[i].age > SessionTTL => i \in lapsed

\* What waits for a sweep, and what the sweep has found stale.
WaitingInv ==
  /\ retries \subseteq Id \X Subject /\ prune \in PruneRec /\ lapsed \subseteq Id
  /\ \A i \in Id, s \in Subject : <<i, s>> \in retries => s = Owner[i]
  /\ prune.doomed \subseteq lapsed

RecordsInv == BufferInv /\ DiskInv /\ WaitingInv

\* A refresh that has read its record knows its owner.
TouchesInv ==
  /\ touches \subseteq Id \X SUBSET Subject
  /\ \A i \in Id, s \in Subject : <<i, {s}>> \in touches => s = Owner[i]

\* The session map: counted, each session its owner's.
LiveInv ==
  /\ DOMAIN live \subseteq Id /\ \A i \in DOMAIN live : live[i] \in LiveRec
  /\ IsFiniteSet(DOMAIN live) /\ Counted
  /\ \A i \in DOMAIN live : live[i].subject = Owner[i]

PlainInv ==
  /\ DOMAIN touched \subseteq Id /\ leaving \subseteq Id
  /\ deleted \subseteq Id /\ known \subseteq Id
  /\ phase \in {"up", "ending", "closed", "down"}

\* A rebuild under way is led by a request for its key.
Led(k) ==
  /\ inflight[k] \in Request
  /\ request[inflight[k]].pc \in Leading
  /\ request[inflight[k]].id = {k[1]} /\ request[inflight[k]].subject = {k[2]}
FlightInv == DOMAIN inflight \subseteq Id \X Subject /\ \A k \in DOMAIN inflight : Led(k)

\* A half-built session is that of a leader that has replayed and not settled.
HalfLed(i) ==
  live[i].half => request[live[i].by].pc = "replayed" /\ request[live[i].by].id = {i}
HalfInv == \A i \in DOMAIN live : HalfLed(i)

\* What stands, of an id, whatever becomes of the process: its record on disk, its client's DELETE, that
\* it lapsed, or that its flush failed.
OnDisk == DOMAIN saved \cup unsaved
Stands == OnDisk \cup deleted \cup lapsed

\* What is stored, of an id, while the process lives.
Stored == DOMAIN records \cup deleted \cup lapsed

\* The request r is for the id i and the subject s.
RequestFor(r, i, s) ==
  /\ request[r].id = {i} /\ request[r].subject = {s}
  /\ request[r].pc \in Holding => s = Owner[i]
  /\ request[r].pc \in Leading => <<i, s>> \in DOMAIN inflight /\ inflight[<<i, s>>] = r
  /\ request[r].pc \in Leading \ {"replayed"} /\ s = Owner[i] => i \notin DOMAIN live
  /\ request[r].pc = "joined" =>
       \E l \in Request : /\ request[r].lead = {l} /\ request[l].pc \in Leading
                          /\ request[l].id = {i} /\ request[l].subject = {s}
  /\ request[r].pc = "drop" => i \in lapsed
  /\ request[r].pc = "flush" => i \in Stored
  /\ request[r].pc = "answer" => i \in Stands

RequestInv(r) == request[r].pc # "idle" => \E i \in Id, s \in Subject : RequestFor(r, i, s)
RequestsInv == request \in [Request -> RequestRec] /\ \A r \in Request : RequestInv(r)

SessionInv ==
  /\ RecordsInv /\ TouchesInv /\ LiveInv /\ PlainInv
  /\ FlightInv /\ HalfInv /\ RequestsInv /\ Survives

----------------------------------------------------------------------------
\* The helpers of Sessions.

\* The one member of a singleton, which a request's id and subject are read by.
LEMMA TheOne == ASSUME NEW x PROVE The({x}) = x
  BY DEF The

\* A request that is not idle is for one id and one subject, which IdOf and SubjectOf read.
LEMMA RequestNames ==
  ASSUME NEW r \in Request, NEW i \in Id, NEW s \in Subject, RequestFor(r, i, s)
  PROVE  IdOf(r) = i /\ SubjectOf(r) = s
  BY TheOne DEF RequestFor, IdOf, SubjectOf

\* An owner is a subject.
LEMMA OwnerOfId == ASSUME NEW i \in Id PROVE Owner[i] \in Subject
  BY SessionAssumption

----------------------------------------------------------------------------
\* The records.

\* What a step other than the end of the process does for the answers to come.
Forward == Stands \subseteq Stands' /\ Stored \subseteq Stored' /\ lapsed \subseteq lapsed'

\* A put for which there is room keeps the records within their cap, each its owner's.
LEMMA BufferedKeeps ==
  ASSUME RecordsInv, NEW i \in Id, Room(i), Buffered(i, Owner[i]), lapsed \subseteq lapsed'
  PROVE  BufferInv' /\ DOMAIN records' = DOMAIN records \cup {i}
<1> DEFINE new == [subject |-> Owner[i], age |-> 0]
<1> BufferInv
  BY DEF RecordsInv
<1>1. new \in StoredRec /\ new.subject = Owner[i] /\ new.age = 0
  BY OwnerOfId, SessionAssumption DEF StoredRec
<1> HIDE DEF new
<1>2. records' = With(records, i, new)
  BY DEF Buffered, new
<1>3. /\ DOMAIN records' = DOMAIN records \cup {i}
      /\ records'[i] = new
      /\ \A j \in DOMAIN records : j # i => records'[j] = records[j]
  BY <1>2 DEF With
<1>4. \A j \in DOMAIN records' : records'[j] \in StoredRec /\ records'[j].subject = Owner[j]
  BY <1>1, <1>3 DEF BufferInv
<1>5. IsFiniteSet(DOMAIN records') /\ Cardinality(DOMAIN records') <= MaxRecords
  <2>1. IsFiniteSet(DOMAIN records) /\ Cardinality(DOMAIN records) <= MaxRecords
    BY DEF BufferInv, RecordsCapped
  <2>2. Cardinality(DOMAIN records) \in Nat
    BY <2>1, FS_CardinalityType
  <2>3. CASE i \in DOMAIN records
    <3>1. DOMAIN records' = DOMAIN records
      BY <2>3, <1>3
    <3> QED BY <3>1, <2>1
  <2>4. CASE i \notin DOMAIN records
    <3>1. Cardinality(DOMAIN records) < MaxRecords
      BY <2>4 DEF Room
    <3>2. /\ IsFiniteSet(DOMAIN records \cup {i})
          /\ Cardinality(DOMAIN records \cup {i}) = Cardinality(DOMAIN records) + 1
      BY <2>1, <2>4, FS_AddElement
    <3> QED BY <3>1, <3>2, <2>2, <1>3, SessionAssumption
  <2> QED BY <2>3, <2>4
<1>6. \A j \in DOMAIN records' : ExpiredRecord(j)' => j \in lapsed'
  <2>1. SUFFICES ASSUME NEW j \in DOMAIN records', records'[j].age > SessionTTL
                 PROVE  j \in lapsed'
    BY DEF ExpiredRecord
  <2>2. j # i
    BY <2>1, <1>1, <1>3, SessionAssumption
  <2> QED BY <2>1, <2>2, <1>3 DEF BufferInv, ExpiredRecord
<1>7. DOMAIN records' \subseteq Id
  BY <1>3 DEF BufferInv
<1> QED BY <1>3, <1>4, <1>5, <1>6, <1>7 DEF BufferInv, RecordsCapped

\* Records that a step leaves as they are stay in order.
LEMMA SameBuffer ==
  ASSUME RecordsInv, records' = records, lapsed \subseteq lapsed'
  PROVE  BufferInv'
  BY DEF RecordsInv, BufferInv, RecordsCapped, ExpiredRecord

\* What a flush writes is what the buffer holds; what it does not reach stays as it was.
LEMMA FlushKeeps ==
  ASSUME RecordsInv, BufferInv', DOMAIN records \subseteq DOMAIN records', lapsed \subseteq lapsed',
         NEW I \in SUBSET Id, FlushWorks \/ FlushFails(I)
  PROVE  DiskInv' /\ OnDisk \subseteq OnDisk'
<1> DiskInv
  BY DEF RecordsInv
<1>1. CASE FlushWorks
  <2>1. saved' = records' /\ unsaved' = unsaved \ DOMAIN records'
    BY <1>1 DEF FlushWorks
  <2>2. DiskInv'
    BY <2>1 DEF DiskInv, BufferInv, ExpiredRecord
  <2>3. DOMAIN saved \subseteq DOMAIN saved'
    BY <2>1 DEF DiskInv
  <2> QED BY <2>1, <2>2, <2>3 DEF OnDisk
<1>2. CASE FlushFails(I)
  <2>1. PICK S \in SUBSET Unwritten :
          /\ saved' = [j \in DOMAIN saved \cup S |-> IF j \in S THEN records'[j] ELSE saved[j]]
          /\ unsaved' = (unsaved \ S) \cup (I \ DOMAIN saved')
    BY <1>2 DEF FlushFails
  <2>2. S \subseteq DOMAIN records'
    BY <2>1 DEF Unwritten
  <2>3. /\ DOMAIN saved' = DOMAIN saved \cup S
        /\ \A j \in DOMAIN saved' : (j \in S /\ saved'[j] = records'[j]) \/ (j \in DOMAIN saved /\ saved'[j] = saved[j])
    BY <2>1
  <2>4. ASSUME NEW j \in DOMAIN saved'
        PROVE  /\ saved'[j] \in StoredRec /\ saved'[j].subject = Owner[j]
               /\ saved'[j].age > SessionTTL => j \in lapsed'
    <3>1. CASE j \in S /\ saved'[j] = records'[j]
      BY <3>1, <2>2 DEF BufferInv, ExpiredRecord
    <3>2. CASE j \in DOMAIN saved /\ saved'[j] = saved[j]
      BY <3>2 DEF DiskInv
    <3> QED BY <2>3, <3>1, <3>2
  <2>5. DOMAIN saved' \subseteq DOMAIN records'
    BY <2>2, <2>3 DEF DiskInv
  <2>6. unsaved' \subseteq Id
    BY <2>1 DEF DiskInv
  <2>7. DiskInv'
    BY <2>4, <2>5, <2>6 DEF DiskInv
  <2> QED BY <2>1, <2>3, <2>7 DEF OnDisk
<1> QED BY <1>1, <1>2

\* A refresh keeps the records in order and loses none.
LEMMA RefreshKeeps ==
  ASSUME RecordsInv, NEW i \in Id, Refresh(i, Owner[i]), lapsed \subseteq lapsed'
  PROVE  /\ BufferInv' /\ DiskInv'
         /\ DOMAIN records \subseteq DOMAIN records' /\ OnDisk \subseteq OnDisk'
<1>1. BufferInv' /\ DOMAIN records \subseteq DOMAIN records'
  <2>1. CASE Room(i)
    <3>1. Buffered(i, Owner[i])
      BY <2>1 DEF Refresh
    <3> QED BY <2>1, <3>1, BufferedKeeps
  <2>2. CASE ~Room(i)
    <3>1. records' = records
      BY <2>2 DEF Refresh
    <3> QED BY <3>1, SameBuffer
  <2> QED BY <2>1, <2>2
<1>2. FlushWorks \/ FlushFails({})
  BY DEF Refresh
<1>3. {} \in SUBSET Id
  OBVIOUS
<1> QED BY <1>1, <1>2, <1>3, FlushKeeps

\* A persist of an owner's record starts a sweep at most, waits for it at most, or lapses.
LEMMA WaitingKeeps ==
  ASSUME RecordsInv, NEW i \in Id, lapsed' \in {lapsed, lapsed \cup {i}},
         prune' \in {prune, [todo |-> DOMAIN records, doomed |-> {}]},
         retries' \subseteq retries \cup {<<i, Owner[i]>>}
  PROVE  WaitingInv' /\ lapsed \subseteq lapsed'
<1> WaitingInv /\ DOMAIN records \subseteq Id
  BY DEF RecordsInv, BufferInv
<1>1. lapsed' \subseteq Id /\ lapsed \subseteq lapsed'
  BY DEF WaitingInv
<1>2. prune' \in PruneRec /\ prune'.doomed \subseteq lapsed
  BY DEF WaitingInv, PruneRec
<1>3. retries' \subseteq Id \X Subject
  BY OwnerOfId DEF WaitingInv
<1>4. \A j \in Id, s \in Subject : <<j, s>> \in retries' => s = Owner[j]
  BY DEF WaitingInv
<1> QED BY <1>1, <1>2, <1>3, <1>4 DEF WaitingInv

\* So a persist that nobody waits for keeps all of it.
LEMMA PersistKeeps ==
  ASSUME RecordsInv, NEW i \in Id, Persist(i, Owner[i]), deleted' = deleted
  PROVE  RecordsInv' /\ Forward
<1>1. /\ lapsed' \in {lapsed, lapsed \cup {i}}
      /\ prune' \in {prune, [todo |-> DOMAIN records, doomed |-> {}]}
      /\ retries' \subseteq retries \cup {<<i, Owner[i]>>}
  BY DEF Persist, Full, StartPrune
<1>2. WaitingInv' /\ lapsed \subseteq lapsed'
  BY <1>1, WaitingKeeps
<1>3. /\ BufferInv' /\ DiskInv'
      /\ DOMAIN records \subseteq DOMAIN records' /\ OnDisk \subseteq OnDisk'
  BY <1>2, RefreshKeeps DEF Persist
<1> QED BY <1>2, <1>3 DEF RecordsInv, Forward, Stands, Stored

\* A removal, or one that fails, of what has lapsed or is deleted.
LEMMA RemovalKeeps ==
  ASSUME RecordsInv, NEW S, Remove(S) \/ RemoveFails, UNCHANGED <<retries, lapsed, unsaved>>,
         prune' \in PruneRec, prune'.doomed \subseteq lapsed, deleted \subseteq deleted',
         S \subseteq deleted' \cup lapsed
  PROVE  RecordsInv' /\ Forward
<1> BufferInv /\ DiskInv /\ WaitingInv
  BY DEF RecordsInv
<1>1. WaitingInv'
  BY DEF WaitingInv
<1>2. CASE RemoveFails
  <2>1. UNCHANGED <<records, saved>>
    BY <1>2 DEF RemoveFails
  <2>2. BufferInv' /\ DiskInv'
    BY <2>1, SameBuffer DEF DiskInv
  <2> QED BY <1>1, <2>1, <2>2 DEF RecordsInv, Forward, Stands, Stored, OnDisk
<1>3. CASE Remove(S)
  <2>1. /\ DOMAIN records' = DOMAIN records \ S /\ DOMAIN saved' = DOMAIN saved \ S
        /\ \A j \in DOMAIN records' : records'[j] = records[j]
        /\ \A j \in DOMAIN saved' : saved'[j] = saved[j]
    BY <1>3 DEF Remove, Less
  <2>2. IsFiniteSet(DOMAIN records) /\ Cardinality(DOMAIN records) <= MaxRecords
    BY DEF BufferInv, RecordsCapped
  <2>3. /\ IsFiniteSet(DOMAIN records') /\ Cardinality(DOMAIN records') <= Cardinality(DOMAIN records)
        /\ Cardinality(DOMAIN records') \in Nat /\ Cardinality(DOMAIN records) \in Nat
    BY <2>1, <2>2, FS_Subset, FS_CardinalityType
  <2>4. BufferInv'
    BY <2>1, <2>2, <2>3, SessionAssumption DEF BufferInv, RecordsCapped, ExpiredRecord
  <2>5. DiskInv'
    BY <2>1 DEF DiskInv
  <2>6. Forward
    BY <2>1 DEF Forward, Stands, Stored, OnDisk
  <2> QED BY <1>1, <2>4, <2>5, <2>6 DEF RecordsInv
<1> QED BY <1>2, <1>3

\* The end of the process leaves what was on disk, less some that has lapsed.
LEMMA ExitKeepsRecords ==
  ASSUME RecordsInv, Exit, records' = saved', DOMAIN saved' \subseteq DOMAIN saved,
         DOMAIN saved \ lapsed \subseteq DOMAIN saved', \A j \in DOMAIN saved' : saved'[j] = saved[j]
  PROVE  RecordsInv' /\ Stands \subseteq Stands' /\ lapsed \subseteq lapsed'
<1> BufferInv /\ DiskInv /\ WaitingInv
  BY DEF RecordsInv
<1>1. UNCHANGED <<lapsed, deleted, unsaved>> /\ retries' = {} /\ prune' = NotPruning
  BY DEF Exit
<1>2. WaitingInv'
  BY <1>1 DEF WaitingInv, NotPruning, PruneRec
<1>3. DiskInv'
  BY <1>1 DEF DiskInv
<1>4. IsFiniteSet(DOMAIN records') /\ RecordsCapped'
  <2>1. IsFiniteSet(DOMAIN records) /\ Cardinality(DOMAIN records) <= MaxRecords
    BY DEF BufferInv, RecordsCapped
  <2>2. DOMAIN records' \subseteq DOMAIN records
    BY DEF DiskInv
  <2>3. /\ IsFiniteSet(DOMAIN records') /\ Cardinality(DOMAIN records') <= Cardinality(DOMAIN records)
        /\ Cardinality(DOMAIN records') \in Nat /\ Cardinality(DOMAIN records) \in Nat
    BY <2>1, <2>2, FS_Subset, FS_CardinalityType
  <2> QED BY <2>1, <2>3, SessionAssumption DEF RecordsCapped
<1>5. DOMAIN records' \subseteq Id
  BY DEF DiskInv, BufferInv
<1>6. BufferInv'
  BY <1>1, <1>4, <1>5 DEF BufferInv, DiskInv, ExpiredRecord
<1>7. Stands \subseteq Stands' /\ lapsed \subseteq lapsed'
  BY <1>1 DEF Stands, OnDisk
<1> QED BY <1>2, <1>3, <1>6, <1>7 DEF RecordsInv

\* An hour ages a record; one that it makes stale lapses.
LEMMA AgedKeeps ==
  ASSUME NEW rec \in StoredRec, NEW new, new = [rec EXCEPT !.age = HourOlder(@)]
  PROVE  new \in StoredRec /\ new.subject = rec.subject /\ (new.age > SessionTTL => rec.age >= SessionTTL)
<1>1. rec.age \in 0..(SessionTTL + 1)
  BY DEF StoredRec
<1>2. HourOlder(rec.age) \in 0..(SessionTTL + 1)
  BY <1>1, SessionAssumption DEF HourOlder
<1>3. new = [rec EXCEPT !.age = HourOlder(rec.age)]
  OBVIOUS
<1>4. new \in StoredRec /\ new.subject = rec.subject /\ new.age = HourOlder(rec.age)
  BY <1>2, <1>3 DEF StoredRec
<1>5. HourOlder(rec.age) > SessionTTL => rec.age >= SessionTTL
  BY <1>1, SessionAssumption DEF HourOlder
<1> QED BY <1>4, <1>5

\* ... and so an hour keeps the records in order.
LEMMA HourKeepsRecords ==
  ASSUME RecordsInv, Hour
  PROVE  RecordsInv' /\ Forward
<1> BufferInv /\ DiskInv /\ WaitingInv
  BY DEF RecordsInv
<1>1. /\ DOMAIN records' = DOMAIN records /\ DOMAIN saved' = DOMAIN saved
      /\ \A i \in DOMAIN records : records'[i] = [records[i] EXCEPT !.age = HourOlder(@)]
      /\ \A i \in DOMAIN saved : saved'[i] = [saved[i] EXCEPT !.age = HourOlder(@)]
      /\ lapsed' = lapsed \cup {i \in DOMAIN records : records[i].age >= SessionTTL}
                          \cup {i \in DOMAIN saved : saved[i].age >= SessionTTL}
      /\ UNCHANGED <<retries, prune, unsaved, deleted>>
  BY DEF Hour, Aged
<1>2. ASSUME NEW i \in DOMAIN records
      PROVE  records'[i] \in StoredRec /\ records'[i].subject = Owner[i] /\ (ExpiredRecord(i)' => i \in lapsed')
  <2>1. records[i] \in StoredRec /\ records[i].subject = Owner[i]
    BY DEF BufferInv
  <2>2. /\ records'[i] \in StoredRec /\ records'[i].subject = records[i].subject
        /\ records'[i].age > SessionTTL => records[i].age >= SessionTTL
    BY <1>1, <2>1, AgedKeeps
  <2> QED BY <1>1, <2>1, <2>2 DEF ExpiredRecord
<1>3. ASSUME NEW i \in DOMAIN saved
      PROVE  saved'[i] \in StoredRec /\ saved'[i].subject = Owner[i] /\ (saved'[i].age > SessionTTL => i \in lapsed')
  <2>1. saved[i] \in StoredRec /\ saved[i].subject = Owner[i]
    BY DEF DiskInv
  <2>2. /\ saved'[i] \in StoredRec /\ saved'[i].subject = saved[i].subject
        /\ saved'[i].age > SessionTTL => saved[i].age >= SessionTTL
    BY <1>1, <2>1, AgedKeeps
  <2> QED BY <1>1, <2>1, <2>2
<1>4. lapsed' \subseteq Id /\ lapsed \subseteq lapsed'
  BY <1>1 DEF BufferInv, DiskInv, WaitingInv
<1>5. BufferInv'
  BY <1>1, <1>2 DEF BufferInv, RecordsCapped
<1>6. DiskInv'
  BY <1>1, <1>3 DEF DiskInv
<1>7. WaitingInv'
  BY <1>1, <1>4 DEF WaitingInv
<1> QED BY <1>1, <1>4, <1>5, <1>6, <1>7 DEF RecordsInv, Forward, Stands, Stored, OnDisk

----------------------------------------------------------------------------
\* Who is served by a step.

\* A request that is not idle is for an id and a subject.
LEMMA SomeRequest ==
  ASSUME SessionInv, NEW r \in Request, request[r].pc # "idle"
  PROVE  \E i \in Id, s \in Subject : RequestFor(r, i, s)
  BY DEF SessionInv, RequestsInv, RequestInv

\* A request at a step past the check of its subject is for the owner of its id.
LEMMA HolderOwns ==
  ASSUME SessionInv, NEW r \in Request, request[r].pc \in Holding
  PROVE  \E i \in Id : RequestFor(r, i, Owner[i]) /\ IdOf(r) = i /\ SubjectOf(r) = Owner[i]
<1>1. PICK i \in Id, s \in Subject : RequestFor(r, i, s)
  BY SomeRequest DEF Holding, Persisting
<1>2. s = Owner[i]
  BY <1>1 DEF RequestFor
<1>3. RequestFor(r, i, Owner[i])
  BY <1>1, <1>2
<1>4. IdOf(r) = i /\ SubjectOf(r) = Owner[i]
  BY <1>3, OwnerOfId, RequestNames
<1> QED BY <1>3, <1>4

\* The first put of a new session's record is for its owner, and finds room or leaves things alone.
LEMMA PersistFirstFor ==
  ASSUME SessionInv, NEW r \in Request, PersistFirst(r)
  PROVE  \E i \in Id : /\ RequestFor(r, i, Owner[i])
                       /\ IF Room(i) THEN Buffered(i, Owner[i]) ELSE UNCHANGED records
                       /\ Room(i) \/ request'[r].pc # "flush"
<1>1. request[r].pc \in Holding
  BY DEF PersistFirst, In, Holding, Persisting
<1>2. PICK i \in Id : RequestFor(r, i, Owner[i]) /\ IdOf(r) = i /\ SubjectOf(r) = Owner[i]
  BY <1>1, HolderOwns
<1>3. IF Room(i) THEN Buffered(i, Owner[i]) ELSE UNCHANGED records
  BY <1>2 DEF PersistFirst
<1>4. \E pc \in {"flush", "refused", "full"} :
        request' = [request EXCEPT ![r].pc = pc] /\ (Room(i) \/ pc # "flush")
  BY <1>2 DEF PersistFirst
<1>5. Room(i) \/ request'[r].pc # "flush"
  BY <1>4 DEF SessionInv, RequestsInv, RequestRec
<1> QED BY <1>2, <1>3, <1>5

\* ... and keeps the records in order.
LEMMA PersistFirstKeeps ==
  ASSUME SessionInv, NEW r \in Request, PersistFirst(r)
  PROVE  RecordsInv' /\ Forward
<1> RecordsInv /\ DiskInv /\ WaitingInv
  BY DEF SessionInv, RecordsInv
<1>1. UNCHANGED <<saved, unsaved, retries, prune, lapsed, deleted>>
  BY DEF PersistFirst
<1>2. PICK i \in Id : IF Room(i) THEN Buffered(i, Owner[i]) ELSE UNCHANGED records
  BY PersistFirstFor
<1>3. BufferInv' /\ DOMAIN records \subseteq DOMAIN records'
  <2>1. CASE Room(i)
    BY <1>1, <1>2, <2>1, BufferedKeeps
  <2>2. CASE ~Room(i)
    BY <1>1, <1>2, <2>2, SameBuffer
  <2> QED BY <2>1, <2>2
<1>4. DiskInv' /\ WaitingInv'
  BY <1>1, <1>3 DEF DiskInv, WaitingInv
<1> QED BY <1>1, <1>3, <1>4 DEF RecordsInv, Forward, Stands, Stored, OnDisk

\* The flush of a new session's record, whether it works or fails, keeps the records in order.
LEMMA FlushFirstKeeps ==
  ASSUME SessionInv, NEW r \in Request, FlushFirst(r) \/ FlushFirstFails(r)
  PROVE  RecordsInv' /\ Forward
<1> RecordsInv
  BY DEF SessionInv
<1>1. request[r].pc \in Holding
  BY DEF FlushFirst, FlushFirstFails, Holding, Persisting
<1>2. PICK i \in Id : RequestFor(r, i, Owner[i]) /\ IdOf(r) = i /\ SubjectOf(r) = Owner[i]
  BY <1>1, HolderOwns
<1>3. /\ records' = records /\ UNCHANGED <<retries, deleted>>
      /\ lapsed' \in {lapsed, lapsed \cup {i}}
      /\ prune' \in {prune, [todo |-> DOMAIN records, doomed |-> {}]}
      /\ FlushWorks \/ FlushFails(request[r].id)
  BY <1>2 DEF FlushFirst, FlushFirstFails, Full, StartPrune
<1>4. WaitingInv' /\ lapsed \subseteq lapsed'
  BY <1>3, WaitingKeeps
<1>5. BufferInv'
  BY <1>3, <1>4, SameBuffer
<1>6. request[r].id \in SUBSET Id
  BY <1>2 DEF RequestFor
<1>7. DiskInv' /\ OnDisk \subseteq OnDisk'
  BY <1>3, <1>4, <1>5, <1>6, FlushKeeps
<1> QED BY <1>3, <1>4, <1>5, <1>7 DEF RecordsInv, Forward, Stands, Stored

\* A replayed handshake enters a half-built session under the owner of its id and persists it.
LEMMA ReplayFor ==
  ASSUME SessionInv, NEW r \in Request, Replay(r)
  PROVE  \E i \in Id : /\ RequestFor(r, i, Owner[i]) /\ Persist(i, Owner[i])
                       /\ live' = With(live, i, [subject |-> Owner[i], by |-> r, half |-> TRUE])
                       /\ touched' = With(touched, i, 0)
<1>1. /\ request[r].pc \in Holding /\ Persist(IdOf(r), SubjectOf(r))
      /\ live' = With(live, IdOf(r), [subject |-> SubjectOf(r), by |-> r, half |-> TRUE])
      /\ touched' = With(touched, IdOf(r), 0)
  BY DEF Replay, In, Holding, Persisting
<1>2. PICK i \in Id : RequestFor(r, i, Owner[i]) /\ IdOf(r) = i /\ SubjectOf(r) = Owner[i]
  BY <1>1, HolderOwns
<1> QED BY <1>1, <1>2

\* A refresh writes the record of the owner whose record it has read.
LEMMA TouchWriteFor ==
  ASSUME SessionInv, NEW i \in Id, NEW s \in Subject, TouchWrite(i, s)
  PROVE  s = Owner[i] /\ Persist(i, Owner[i])
<1>1. s = Owner[i]
  BY DEF TouchWrite, SessionInv, TouchesInv
<1> QED BY <1>1 DEF TouchWrite

\* The steps that leave the records, the retries, the sweep and the lapsed ids alone.
RecordsKept == UNCHANGED <<records, saved, unsaved, retries, prune, lapsed, deleted>>

\* ... keep them in order.
LEMMA KeptKeeps ==
  ASSUME SessionInv, RecordsKept
  PROVE  RecordsInv' /\ Forward
<1> RecordsInv /\ DiskInv /\ WaitingInv
  BY DEF SessionInv, RecordsInv
<1>1. BufferInv'
  BY SameBuffer DEF RecordsKept
<1>2. DiskInv' /\ WaitingInv'
  BY DEF RecordsKept, DiskInv, WaitingInv
<1> QED BY <1>1, <1>2 DEF RecordsInv, RecordsKept, Forward, Stands, Stored, OnDisk

\* Such are the arrivals.
LEMMA ArrivalKeepsRecords ==
  ASSUME NEW r \in Request, NEW i \in Id, NEW s \in Subject,
         Initialize(r, i, s) \/ Join(r, i, s) \/ Found(r, i, s) \/ StartAdopt(r, i, s)
  PROVE  RecordsKept
  BY DEF RecordsKept, Initialize, Join, Found, StartAdopt, recordVars

\* The steps of a request that write no record.
LEMMA RequestStepKeepsRecords ==
  ASSUME NEW r \in Request,
         Answer(r) \/ Decide(r) \/ Rebuilt(r) \/ RebuildFails(r) \/ Serve(r) \/ Close(r)
  PROVE  RecordsKept
  BY DEF RecordsKept, Answer, Decide, Rebuilt, RebuildFails, Serve, Close, recordVars

\* Draining and ending the sessions leave the records on disk.
LEMMA ShutdownKeepsRecords ==
  ASSUME Drain \/ EndAll
  PROVE  RecordsKept
  BY DEF RecordsKept, Drain, EndAll, recordVars, sessionState

\* Every step keeps the records in order.  None undoes a record without its client's DELETE or its
\* having lapsed; but what only the buffer holds ends with the process.
LEMMA RecordsStep ==
  ASSUME SessionInv, [SessionNext]_sessionVars
  PROVE  RecordsInv' /\ Stands \subseteq Stands' /\ lapsed \subseteq lapsed' /\ (Exit \/ Forward)
<1> DEFINE Goal == RecordsInv' /\ Stands \subseteq Stands' /\ lapsed \subseteq lapsed' /\ (Exit \/ Forward)
<1> RecordsInv /\ BufferInv /\ DiskInv /\ WaitingInv
  BY DEF SessionInv, RecordsInv
<1>0. ASSUME RecordsInv', Forward PROVE Goal
  BY <1>0 DEF Forward
<1>1. ASSUME RecordsKept PROVE Goal
  BY <1>0, <1>1, KeptKeeps
<1>2. ASSUME UNCHANGED sessionVars PROVE Goal
  BY <1>2, <1>1 DEF sessionVars, recordVars, RecordsKept
<1>3. ASSUME NEW r \in Request, NEW i \in Id, NEW s \in Subject,
             Initialize(r, i, s) \/ Join(r, i, s) \/ Found(r, i, s) \/ StartAdopt(r, i, s)
      PROVE  Goal
  BY <1>1, <1>3, ArrivalKeepsRecords
<1>4. ASSUME NEW r \in Request,
             Answer(r) \/ Decide(r) \/ Rebuilt(r) \/ RebuildFails(r) \/ Serve(r) \/ Close(r)
      PROVE  Goal
  BY <1>1, <1>4, RequestStepKeepsRecords
<1>5. ASSUME NEW r \in Request, PersistFirst(r) \/ FlushFirst(r) \/ FlushFirstFails(r) PROVE Goal
  BY <1>0, <1>5, PersistFirstKeeps, FlushFirstKeeps
<1>6. ASSUME NEW r \in Request, Replay(r) PROVE Goal
  <2>1. deleted' = deleted
    BY <1>6 DEF Replay
  <2>2. PICK i \in Id : Persist(i, Owner[i])
    BY <1>6, ReplayFor
  <2> QED BY <1>0, <2>1, <2>2, PersistKeeps
<1>7. ASSUME NEW r \in Request, DropExpired(r) PROVE Goal
  <2>1. request[r].pc = "drop"
    BY <1>7 DEF DropExpired, In
  <2>2. PICK i \in Id, s \in Subject : RequestFor(r, i, s)
    BY <2>1, SomeRequest
  <2>3. request[r].id \subseteq lapsed
    BY <2>1, <2>2 DEF RequestFor
  <2>4. /\ Remove(request[r].id) \/ RemoveFails
        /\ UNCHANGED <<retries, lapsed, unsaved, prune, deleted>>
    BY <1>7 DEF DropExpired
  <2>5. prune' \in PruneRec /\ prune'.doomed \subseteq lapsed
    BY <2>4 DEF WaitingInv
  <2> QED BY <1>0, <2>3, <2>4, <2>5, RemovalKeeps
<1>8. ASSUME NEW r \in Request, RemoveRecord(r) PROVE Goal
  <2>1. /\ Remove(request[r].id) \/ RemoveFails
        /\ UNCHANGED <<retries, lapsed, unsaved, prune>>
        /\ deleted' = deleted \cup request[r].id
    BY <1>8 DEF RemoveRecord
  <2>2. prune' \in PruneRec /\ prune'.doomed \subseteq lapsed
    BY <2>1 DEF WaitingInv
  <2> QED BY <1>0, <2>1, <2>2, RemovalKeeps
<1>9. ASSUME NEW i \in Id, TouchRead(i) PROVE Goal
  BY <1>9, <1>1 DEF TouchRead, RecordsKept
<1>10. ASSUME NEW i \in Id, NEW s \in Subject, TouchWrite(i, s) PROVE Goal
  <2>1. deleted' = deleted
    BY <1>10 DEF TouchWrite
  <2>2. Persist(i, Owner[i])
    BY <1>10, TouchWriteFor
  <2> QED BY <1>0, <2>1, <2>2, PersistKeeps
<1>11. ASSUME NEW i \in Id, NEW s \in Subject, Retry(i, s) PROVE Goal
  <2>1. s = Owner[i] /\ Refresh(i, s)
    BY <1>11 DEF Retry, WaitingInv
  <2>2. /\ lapsed' \in {lapsed, lapsed \cup {i}} /\ prune' = prune /\ deleted' = deleted
        /\ retries' \subseteq retries
    BY <1>11 DEF Retry
  <2>3. WaitingInv' /\ lapsed \subseteq lapsed'
    BY <2>2, WaitingKeeps
  <2>4. /\ BufferInv' /\ DiskInv'
        /\ DOMAIN records \subseteq DOMAIN records' /\ OnDisk \subseteq OnDisk'
    BY <2>1, <2>3, RefreshKeeps
  <2>5. RecordsInv' /\ Forward
    BY <2>2, <2>3, <2>4 DEF RecordsInv, Forward, Stands, Stored
  <2> QED BY <1>0, <2>5
<1>12. ASSUME PruneRead PROVE Goal
  <2>1. PICK i \in prune.todo :
          prune' = [todo |-> prune.todo \ {i}, doomed |-> {j \in {i} : j \in DOMAIN records /\ ExpiredRecord(j)}]
    BY <1>12 DEF PruneRead
  <2>2. prune.todo \subseteq Id
    BY DEF WaitingInv, PruneRec
  <2>3. prune' \in PruneRec /\ prune'.doomed \subseteq lapsed
    BY <2>1, <2>2 DEF PruneRec, BufferInv
  <2>4. UNCHANGED <<records, saved, unsaved, retries, lapsed, deleted>>
    BY <1>12 DEF PruneRead
  <2>5. WaitingInv' /\ DiskInv'
    BY <2>3, <2>4 DEF WaitingInv, DiskInv
  <2>6. BufferInv'
    BY <2>4, SameBuffer
  <2> QED BY <2>4, <2>5, <2>6 DEF RecordsInv, Forward, Stands, Stored, OnDisk
<1>13. ASSUME PruneRemove PROVE Goal
  <2>1. /\ Remove(prune.doomed) \/ RemoveFails
        /\ UNCHANGED <<retries, lapsed, unsaved, deleted>>
    BY <1>13 DEF PruneRemove
  <2>2. prune' \in PruneRec /\ prune'.doomed \subseteq lapsed /\ prune.doomed \subseteq lapsed
    BY <1>13 DEF PruneRemove, WaitingInv, PruneRec, NotPruning
  <2> QED BY <1>0, <2>1, <2>2, RemovalKeeps
<1>14. ASSUME Hour PROVE Goal
  BY <1>0, <1>14, HourKeepsRecords
<1>15. ASSUME Drain \/ EndAll PROVE Goal
  BY <1>15, <1>1, ShutdownKeepsRecords
<1>16. ASSUME Drained \/ Timeout PROVE Goal
  <2>1. Exit /\ records' = saved /\ saved' = saved
    BY <1>16 DEF Drained, Timeout
  <2> QED BY <2>1, ExitKeepsRecords
<1>17. ASSUME Restart PROVE Goal
  <2> DEFINE expired == {i \in DOMAIN saved : saved[i].age > SessionTTL}
  <2>1. Exit /\ records' = saved'
    BY <1>17 DEF Restart
  <2>2. PICK S \in SUBSET expired : saved' = Less(saved, S)
    BY <1>17 DEF Restart
  <2>3. expired \subseteq lapsed
    BY DEF DiskInv
  <2>4. DOMAIN saved' = DOMAIN saved \ S /\ \A j \in DOMAIN saved' : saved'[j] = saved[j]
    BY <2>2 DEF Less
  <2>5. DOMAIN saved \ lapsed \subseteq DOMAIN saved'
    BY <2>3, <2>4
  <2>6. DOMAIN saved' \subseteq DOMAIN saved
    BY <2>4
  <2> HIDE DEF expired
  <2> QED BY <2>1, <2>4, <2>5, <2>6, ExitKeepsRecords
<1> HIDE DEF Goal
<1>18. ASSUME NEW r \in Request, RequestStep(r) PROVE Goal
  BY <1>4, <1>5, <1>6, <1>7, <1>8, <1>18 DEF RequestStep
<1>19. ASSUME RecordStep \/ ShutdownStep PROVE Goal
  BY <1>9, <1>10, <1>11, <1>12, <1>13, <1>15, <1>16, <1>19 DEF RecordStep, ShutdownStep
<1>20. Goal
  BY <1>2, <1>3, <1>14, <1>15, <1>17, <1>18, <1>19 DEF SessionNext
<1> QED BY <1>20 DEF Goal

\* So whatever was answered for stands.
LEMMA SurvivesStep ==
  ASSUME SessionInv, [SessionNext]_sessionVars
  PROVE  Survives'
<1>1. Stands \subseteq Stands'
  BY RecordsStep
<1>2. known \subseteq Stands
  BY DEF SessionInv, Survives, Stands, OnDisk
<1>3. ASSUME NEW r \in Request, Answer(r) PROVE known' \subseteq Stands
  <2>1. request[r].pc = "answer" /\ known' = known \cup request[r].id
    BY <1>3 DEF Answer, In
  <2>2. PICK i \in Id, s \in Subject : RequestFor(r, i, s)
    BY <2>1, SomeRequest
  <2>3. i \in Stands /\ request[r].id = {i}
    BY <2>1, <2>2 DEF RequestFor
  <2> QED BY <1>2, <2>1, <2>3
<1>4. ASSUME UNCHANGED sessionVars PROVE known' = known
  BY <1>4 DEF sessionVars
<1>5. ASSUME NEW r \in Request, NEW i \in Id, NEW s \in Subject,
             Initialize(r, i, s) \/ Join(r, i, s) \/ Found(r, i, s) \/ StartAdopt(r, i, s)
      PROVE  known' = known
  BY <1>5 DEF Initialize, Join, Found, StartAdopt
<1>6. ASSUME NEW r \in Request,
             \/ PersistFirst(r) \/ FlushFirst(r) \/ FlushFirstFails(r) \/ Decide(r) \/ DropExpired(r)
             \/ Replay(r) \/ Rebuilt(r) \/ RebuildFails(r) \/ Serve(r) \/ Close(r) \/ RemoveRecord(r)
      PROVE  known' = known
  BY <1>6 DEF PersistFirst, FlushFirst, FlushFirstFails, Decide, DropExpired, Replay, Rebuilt, RebuildFails, Serve, Close, RemoveRecord
<1>7. ASSUME RecordStep PROVE known' = known
  BY <1>7 DEF RecordStep, TouchRead, TouchWrite, Retry, PruneRead, PruneRemove
<1>8. ASSUME Hour \/ Drain \/ ShutdownStep \/ Restart PROVE known' = known
  BY <1>8 DEF Hour, Drain, ShutdownStep, EndAll, Drained, Timeout, Restart, Exit, sessionState
<1>9. known' \subseteq Stands
  BY <1>2, <1>3, <1>4, <1>5, <1>6, <1>7, <1>8 DEF SessionNext, RequestStep
<1> QED BY <1>1, <1>9 DEF Survives, Stands, OnDisk

\* Refreshes speak of their id's owner, whose record they have read.
LEMMA TouchesStep ==
  ASSUME SessionInv, [SessionNext]_sessionVars
  PROVE  TouchesInv'
<1> TouchesInv
  BY DEF SessionInv
<1>1. ASSUME NEW r \in Request, NEW i \in Id, NEW s \in Subject, Found(r, i, s) PROVE TouchesInv'
  <2>1. touches' \subseteq touches \cup {<<i, {}>>}
    BY <1>1 DEF Found
  <2> QED BY <2>1 DEF TouchesInv
<1>2. ASSUME NEW i \in Id, TouchRead(i) PROVE TouchesInv'
  <2>1. \/ touches' = (touches \ {<<i, {}>>}) \cup {<<j, {records[j].subject}>> : j \in {i} \cap DOMAIN records}
        \/ touches' = touches \ {<<i, {}>>}
    BY <1>2 DEF TouchRead
  <2>2. i \in DOMAIN records => records[i].subject = Owner[i]
    BY DEF SessionInv, RecordsInv, BufferInv
  <2>3. touches' \subseteq touches \cup {<<i, {Owner[i]}>>}
    BY <2>1, <2>2
  <2> QED BY <2>3, OwnerOfId DEF TouchesInv
<1>3. ASSUME NEW i \in Id, NEW s \in Subject, TouchWrite(i, s) PROVE TouchesInv'
  BY <1>3 DEF TouchWrite, TouchesInv
<1>4. CASE Exit
  BY <1>4 DEF Exit, TouchesInv
<1>5. ASSUME touches' = touches PROVE TouchesInv'
  BY <1>5 DEF TouchesInv
<1>6. ASSUME NEW r \in Request, NEW i \in Id, NEW s \in Subject,
             Initialize(r, i, s) \/ Join(r, i, s) \/ StartAdopt(r, i, s)
      PROVE  touches' = touches
  BY <1>6 DEF Initialize, Join, StartAdopt, recordVars
<1>7. ASSUME NEW r \in Request, RequestStep(r) PROVE touches' = touches
  BY <1>7 DEF RequestStep, PersistFirst, FlushFirst, FlushFirstFails, Answer, Decide, DropExpired, Replay, Rebuilt, RebuildFails,
     Serve, Close, RemoveRecord, recordVars
<1>8. ASSUME (\E i \in Id, s \in Subject : Retry(i, s)) \/ PruneRead \/ PruneRemove \/ Hour \/ Drain \/ EndAll
             \/ UNCHANGED sessionVars
      PROVE  touches' = touches
  BY <1>8 DEF Retry, PruneRead, PruneRemove, Hour, Drain, EndAll,
     sessionVars, sessionState, recordVars
<1>9. ASSUME ShutdownStep \/ Restart PROVE EndAll \/ Exit
  BY <1>9 DEF ShutdownStep, Drained, Timeout, Restart
<1> QED BY <1>1, <1>2, <1>3, <1>4, <1>5, <1>6, <1>7, <1>8, <1>9 DEF SessionNext, RecordStep

----------------------------------------------------------------------------
\* The session map and its counter.

\* What the requests' records hold is ids and subjects.
LEMMA RequestTypes ==
  ASSUME RequestsInv, NEW r \in Request
  PROVE  /\ request[r] \in RequestRec
         /\ request[r].pc \in PCs /\ request[r].id \subseteq Id /\ request[r].subject \subseteq Subject
<1>1. request[r] \in RequestRec
  BY DEF RequestsInv
<1> QED BY <1>1 DEF RequestRec

\* A session that enters the map is counted.
LEMMA EnterKeeps ==
  ASSUME LiveInv, NEW i \in Id, NEW r \in Request, NEW h \in BOOLEAN, i \notin DOMAIN live,
         live' = With(live, i, [subject |-> Owner[i], by |-> r, half |-> h]), active' = active + 1
  PROVE  LiveInv'
<1> DEFINE new == [subject |-> Owner[i], by |-> r, half |-> h]
<1>1. new \in LiveRec /\ new.subject = Owner[i]
  BY OwnerOfId DEF LiveRec
<1> HIDE DEF new
<1>2. /\ DOMAIN live' = DOMAIN live \cup {i}
      /\ live'[i] = new
      /\ \A j \in DOMAIN live : j # i => live'[j] = live[j]
  BY DEF With, new
<1>3. \A j \in DOMAIN live' : live'[j] \in LiveRec /\ live'[j].subject = Owner[j]
  BY <1>1, <1>2 DEF LiveInv
<1>4. /\ IsFiniteSet(DOMAIN live \cup {i})
      /\ Cardinality(DOMAIN live \cup {i}) = Cardinality(DOMAIN live) + 1
  BY FS_AddElement DEF LiveInv
<1>5. IsFiniteSet(DOMAIN live') /\ Counted'
  BY <1>2, <1>4 DEF LiveInv, Counted
<1> QED BY <1>2, <1>3, <1>5 DEF LiveInv

\* The sessions that end are the ones that are taken off the count, whichever ids were asked for.
LEMMA EndKeeps ==
  ASSUME LiveInv, NEW I, EndSession(I)
  PROVE  LiveInv'
<1>1. /\ DOMAIN live' = DOMAIN live \ I
      /\ \A j \in DOMAIN live' : live'[j] = live[j]
  BY DEF EndSession, Less
<1>2. /\ IsFiniteSet(DOMAIN live \ I)
      /\ Cardinality(DOMAIN live \ I) = Cardinality(DOMAIN live) - Cardinality(DOMAIN live \cap I)
  BY FS_Difference DEF LiveInv
<1>3. I \cap DOMAIN live = DOMAIN live \cap I
  OBVIOUS
<1>4. active' = active - Cardinality(DOMAIN live \cap I)
  BY <1>3 DEF EndSession, Ended
<1>5. IsFiniteSet(DOMAIN live') /\ Counted'
  BY <1>1, <1>2, <1>4 DEF LiveInv, Counted
<1> QED BY <1>1, <1>5 DEF LiveInv

\* Every step keeps the session map in order.
LEMMA LiveStep ==
  ASSUME SessionInv, [SessionNext]_sessionVars
  PROVE  LiveInv'
<1> LiveInv
  BY DEF SessionInv
<1>1. ASSUME UNCHANGED <<live, active>> PROVE LiveInv'
  BY <1>1 DEF LiveInv, Counted
<1>2. CASE UNCHANGED sessionVars
  BY <1>1, <1>2 DEF sessionVars
<1>3. ASSUME NEW r \in Request, NEW i \in Id, Initialize(r, i, Owner[i]) PROVE LiveInv'
  <2>1. i \notin DOMAIN live
    BY <1>3 DEF Initialize
  <2>2. live' = With(live, i, [subject |-> Owner[i], by |-> r, half |-> FALSE]) /\ active' = active + 1
    BY <1>3 DEF Initialize
  <2> QED BY <2>1, <2>2, EnterKeeps
<1>4. ASSUME NEW r \in Request, NEW i \in Id, NEW s \in Subject,
             Join(r, i, s) \/ Found(r, i, s) \/ StartAdopt(r, i, s)
      PROVE  LiveInv'
  BY <1>1, <1>4 DEF Join, Found, StartAdopt
<1>5. ASSUME NEW r \in Request,
             \/ PersistFirst(r) \/ FlushFirst(r) \/ FlushFirstFails(r) \/ Answer(r)
             \/ Decide(r) \/ DropExpired(r) \/ Serve(r) \/ RemoveRecord(r)
      PROVE  LiveInv'
  BY <1>1, <1>5 DEF PersistFirst, FlushFirst, FlushFirstFails, Answer, Decide, DropExpired, Serve, RemoveRecord
<1>6. ASSUME NEW r \in Request, Replay(r) PROVE LiveInv'
  <2>1. PICK i \in Id : /\ RequestFor(r, i, Owner[i])
                        /\ live' = With(live, i, [subject |-> Owner[i], by |-> r, half |-> TRUE])
    BY <1>6, ReplayFor
  <2>2. i \notin DOMAIN live
    BY <1>6, <2>1 DEF Replay, In, RequestFor, Leading
  <2>3. active' = active + 1
    BY <1>6 DEF Replay
  <2> QED BY <2>1, <2>2, <2>3, EnterKeeps
<1>7. ASSUME NEW r \in Request, Rebuilt(r) PROVE LiveInv'
  <2>1. /\ IdOf(r) \in DOMAIN live /\ live' = [live EXCEPT ![IdOf(r)].half = FALSE] /\ active' = active
    BY <1>7 DEF Rebuilt
  <2>2. DOMAIN live' = DOMAIN live
    BY <2>1
  <2>3. ASSUME NEW j \in DOMAIN live PROVE live'[j] \in LiveRec /\ live'[j].subject = Owner[j]
    <3>1. live[j] \in LiveRec /\ live[j].subject = Owner[j]
      BY DEF LiveInv
    <3>2. live'[j] = live[j] \/ live'[j] = [live[j] EXCEPT !.half = FALSE]
      BY <2>1
    <3>3. [live[j] EXCEPT !.half = FALSE] \in LiveRec
      BY <3>1 DEF LiveRec
    <3>4. [live[j] EXCEPT !.half = FALSE].subject = Owner[j]
      BY <3>1 DEF LiveRec
    <3> QED BY <3>1, <3>2, <3>3, <3>4
  <2> QED BY <2>1, <2>2, <2>3 DEF LiveInv, Counted
<1>8. ASSUME NEW r \in Request, RebuildFails(r) \/ Close(r) PROVE LiveInv'
  <2>1. EndSession(request[r].id)
    BY <1>8 DEF RebuildFails, Close
  <2> QED BY <2>1, EndKeeps
<1>9. CASE RecordStep
  BY <1>1, <1>9 DEF RecordStep, TouchRead, TouchWrite, Retry, PruneRead, PruneRemove
<1>10. CASE Hour \/ Drain
  BY <1>1, <1>10 DEF Hour, Drain, sessionState
<1>11. CASE EndAll
  BY <1>11, EndKeeps DEF EndAll
<1>12. CASE Exit
  <2>1. live' = Less(live, Id) /\ active' = 0
    BY <1>12 DEF Exit
  <2>2. DOMAIN live' = {}
    BY <2>1 DEF Less, LiveInv
  <2> QED BY <2>1, <2>2, FS_EmptySet DEF LiveInv, Counted
<1>13. ASSUME ShutdownStep \/ Restart PROVE EndAll \/ Exit
  BY <1>13 DEF ShutdownStep, Drained, Timeout, Restart
<1> QED
  BY <1>2, <1>3, <1>4, <1>5, <1>6, <1>7, <1>8, <1>9, <1>10, <1>11, <1>12, <1>13
     DEF SessionNext, RequestStep

\* Every step keeps the plain types.
LEMMA PlainStep ==
  ASSUME SessionInv, [SessionNext]_sessionVars
  PROVE  PlainInv'
<1> PlainInv /\ RequestsInv /\ LiveInv
  BY DEF SessionInv
<1>1. CASE UNCHANGED sessionVars
  BY <1>1 DEF sessionVars, serverVars, PlainInv
<1>2. ASSUME NEW r \in Request, NEW i \in Id, NEW s \in Subject, Initialize(r, i, s) \/ Found(r, i, s)
      PROVE  PlainInv'
  BY <1>2 DEF Initialize, Found, With, PlainInv, serverVars
<1>3. ASSUME NEW r \in Request, NEW i \in Id, NEW s \in Subject, Join(r, i, s) \/ StartAdopt(r, i, s)
      PROVE  PlainInv'
  BY <1>3 DEF Join, StartAdopt, PlainInv, serverVars
<1>4. ASSUME NEW r \in Request,
             \/ PersistFirst(r) \/ FlushFirst(r) \/ FlushFirstFails(r)
             \/ Decide(r) \/ DropExpired(r) \/ Rebuilt(r) \/ Serve(r)
      PROVE  PlainInv'
  BY <1>4 DEF PersistFirst, FlushFirst, FlushFirstFails, Decide, DropExpired, Rebuilt, Serve, PlainInv, serverVars
<1>5. ASSUME NEW r \in Request, Answer(r) \/ RemoveRecord(r) PROVE PlainInv'
  BY <1>5, RequestTypes DEF Answer, RemoveRecord, PlainInv, serverVars
<1>6. ASSUME NEW r \in Request, RebuildFails(r) \/ Close(r) PROVE PlainInv'
  BY <1>6 DEF RebuildFails, Close, Less, PlainInv, serverVars
<1>7. ASSUME NEW r \in Request, Replay(r) PROVE PlainInv'
  <2>1. PICK i \in Id : touched' = With(touched, i, 0)
    BY <1>7, ReplayFor
  <2>2. UNCHANGED <<deleted, known, serverVars>>
    BY <1>7 DEF Replay
  <2> QED BY <2>1, <2>2 DEF With, PlainInv, serverVars
<1>8. CASE RecordStep
  BY <1>8 DEF RecordStep, TouchRead, TouchWrite, Retry, PruneRead, PruneRemove, PlainInv, serverVars
<1>9. CASE Hour
  BY <1>9 DEF Hour, PlainInv, serverVars
<1>10. CASE Drain \/ EndAll
  BY <1>10 DEF Drain, EndAll, PlainInv, LiveInv, sessionState
<1>11. CASE Drained \/ Timeout \/ Restart
  BY <1>11 DEF Drained, Timeout, Restart, Exit, Less, PlainInv
<1> QED
  BY <1>1, <1>2, <1>3, <1>4, <1>5, <1>6, <1>7, <1>8, <1>9, <1>10, <1>11
     DEF SessionNext, RequestStep, ShutdownStep

----------------------------------------------------------------------------
\* The requests and the in-flight map.

\* The in-flight map keeps what it has.
FlightGrows == \A k \in DOMAIN inflight : k \in DOMAIN inflight' /\ inflight'[k] = inflight[k]

\* The session map gains nothing, and its sessions stay as they are.
LiveShrinks == \A i \in DOMAIN live' : i \in DOMAIN live /\ live'[i] = live[i]

\* The request q may yet build the session i.
MayBuild(q, i) ==
  request[q].pc \in Leading \ {"replayed"} /\ request[q].id = {i} /\ request[q].subject = {Owner[i]}

\* A request that a step leaves alone keeps its place, if the step leaves it the key it holds, enters no
\* session it may build, and leaves its leader leading.
LEMMA BystanderKeeps ==
  ASSUME SessionInv, Forward, NEW q \in Request, request'[q] = request[q],
         \A k \in DOMAIN inflight : inflight[k] = q => k \in DOMAIN inflight' /\ inflight'[k] = q,
         \A i \in DOMAIN live' \ DOMAIN live : ~MayBuild(q, i),
         \A l \in Request : request[q].pc = "joined" /\ request[q].lead = {l} /\ request[l].pc \in Leading =>
            request'[l].pc \in Leading /\ request'[l].id = request[l].id /\ request'[l].subject = request[l].subject
  PROVE  RequestInv(q)'
<1> SUFFICES ASSUME request'[q].pc # "idle"
             PROVE  \E i \in Id, s \in Subject : RequestFor(q, i, s)'
  BY DEF RequestInv
<1>1. PICK i \in Id, s \in Subject : RequestFor(q, i, s)
  BY SomeRequest
<1>2. /\ request'[q].id = {i} /\ request'[q].subject = {s}
      /\ request'[q].pc \in Holding => s = Owner[i]
  BY <1>1 DEF RequestFor
<1>3. request'[q].pc \in Leading => <<i, s>> \in DOMAIN inflight' /\ inflight'[<<i, s>>] = q
  BY <1>1 DEF RequestFor
<1>4. request'[q].pc \in Leading \ {"replayed"} /\ s = Owner[i] => i \notin DOMAIN live'
  BY <1>1 DEF RequestFor, MayBuild
<1>5. request'[q].pc = "joined" =>
        \E l \in Request : /\ request'[q].lead = {l} /\ request'[l].pc \in Leading
                           /\ request'[l].id = {i} /\ request'[l].subject = {s}
  <2>1. SUFFICES ASSUME request[q].pc = "joined"
                 PROVE  \E l \in Request : /\ request'[q].lead = {l} /\ request'[l].pc \in Leading
                                           /\ request'[l].id = {i} /\ request'[l].subject = {s}
    OBVIOUS
  <2>2. PICK l \in Request : /\ request[q].lead = {l} /\ request[l].pc \in Leading
                             /\ request[l].id = {i} /\ request[l].subject = {s}
    BY <1>1, <2>1 DEF RequestFor
  <2>3. request'[l].pc \in Leading /\ request'[l].id = {i} /\ request'[l].subject = {s}
    BY <2>1, <2>2
  <2> QED BY <2>2, <2>3
<1>6. request'[q].pc = "drop" => i \in lapsed'
  BY <1>1 DEF RequestFor, Forward
<1>7. (request'[q].pc = "flush" => i \in Stored') /\ (request'[q].pc = "answer" => i \in Stands')
  BY <1>1 DEF RequestFor, Forward
<1>8. RequestFor(q, i, s)'
  BY <1>2, <1>3, <1>4, <1>5, <1>6, <1>7 DEF RequestFor
<1> QED BY <1>8

\* A step of one request, which goes on leading if it led.
LEMMA OneMoves ==
  ASSUME SessionInv, Forward, NEW r \in Request, NEW rec \in RequestRec,
         request' = [request EXCEPT ![r] = rec], FlightGrows,
         request[r].pc \in Leading => rec.pc \in Leading /\ rec.id = request[r].id /\ rec.subject = request[r].subject,
         \A q \in Request \ {r} : \A i \in DOMAIN live' \ DOMAIN live : ~MayBuild(q, i),
         RequestInv(r)'
  PROVE  RequestsInv'
<1>1. request \in [Request -> RequestRec]
  BY DEF SessionInv, RequestsInv
<1>2. request' \in [Request -> RequestRec]
  BY <1>1
<1>3. request'[r] = rec /\ \A q \in Request \ {r} : request'[q] = request[q]
  BY <1>1
<1>4. ASSUME NEW q \in Request \ {r} PROVE RequestInv(q)'
  <2>1. request'[q] = request[q]
    BY <1>3
  <2>2. \A k \in DOMAIN inflight : inflight[k] = q => k \in DOMAIN inflight' /\ inflight'[k] = q
    BY DEF FlightGrows
  <2>3. \A i \in DOMAIN live' \ DOMAIN live : ~MayBuild(q, i)
    OBVIOUS
  <2>4. \A l \in Request : request[l].pc \in Leading =>
          request'[l].pc \in Leading /\ request'[l].id = request[l].id /\ request'[l].subject = request[l].subject
    BY <1>3
  <2> QED BY <2>1, <2>2, <2>3, <2>4, BystanderKeeps
<1> QED BY <1>2, <1>4 DEF RequestsInv

\* ... and so whoever leads a key still does.
LEMMA OneMovesFlight ==
  ASSUME SessionInv, NEW r \in Request, NEW rec,
         request' = [request EXCEPT ![r] = rec], UNCHANGED inflight,
         request[r].pc \in Leading => rec.pc \in Leading /\ rec.id = request[r].id /\ rec.subject = request[r].subject
  PROVE  FlightInv'
<1>1. request \in [Request -> RequestRec]
  BY DEF SessionInv, RequestsInv
<1>2. request'[r] = rec /\ \A q \in Request \ {r} : request'[q] = request[q]
  BY <1>1
<1>3. \A l \in Request : request[l].pc \in Leading =>
        request'[l].pc \in Leading /\ request'[l].id = request[l].id /\ request'[l].subject = request[l].subject
  BY <1>2
<1>4. FlightInv
  BY DEF SessionInv
<1>5. ASSUME NEW k \in DOMAIN inflight PROVE Led(k)'
  <2>1. Led(k)
    BY <1>4 DEF FlightInv
  <2> QED BY <2>1, <1>3 DEF Led
<1> QED BY <1>4, <1>5 DEF FlightInv

\* ... and a half-built session is still its leader's, if the one that moves had replayed nothing.
LEMMA OneMovesHalf ==
  ASSUME SessionInv, NEW r \in Request, NEW rec,
         request' = [request EXCEPT ![r] = rec], request[r].pc # "replayed",
         \A i \in DOMAIN live' : (i \in DOMAIN live /\ live'[i] = live[i]) \/ ~live'[i].half
                                 \/ (live'[i].by = r /\ rec.pc = "replayed" /\ rec.id = {i})
  PROVE  HalfInv'
<1>1. request \in [Request -> RequestRec] /\ HalfInv /\ LiveInv
  BY DEF SessionInv, RequestsInv
<1>2. request'[r] = rec /\ \A q \in Request \ {r} : request'[q] = request[q]
  BY <1>1
<1>3. ASSUME NEW i \in DOMAIN live' PROVE HalfLed(i)'
  <2>1. CASE ~live'[i].half
    BY <2>1 DEF HalfLed
  <2>2. CASE live'[i].by = r /\ rec.pc = "replayed" /\ rec.id = {i}
    BY <2>2, <1>2 DEF HalfLed
  <2>3. CASE i \in DOMAIN live /\ live'[i] = live[i]
    <3>1. HalfLed(i) /\ live[i].by \in Request
      BY <2>3, <1>1 DEF HalfInv, LiveInv, LiveRec
    <3> QED BY <2>3, <3>1, <1>2 DEF HalfLed
  <2> QED BY <2>1, <2>2, <2>3
<1> QED BY <1>3 DEF HalfInv

\* A step that moves no request and ends sessions at most.
LEMMA NoneMoves ==
  ASSUME SessionInv, Forward, UNCHANGED <<request, inflight>>, LiveShrinks
  PROVE  FlightInv' /\ HalfInv' /\ RequestsInv'
<1>1. FlightInv'
  BY DEF SessionInv, FlightInv, Led
<1>2. HalfInv'
  BY DEF SessionInv, HalfInv, HalfLed, LiveShrinks
<1>3. request' \in [Request -> RequestRec]
  BY DEF SessionInv, RequestsInv
<1>4. ASSUME NEW q \in Request PROVE RequestInv(q)'
  <2>1. request'[q] = request[q]
    OBVIOUS
  <2>2. \A k \in DOMAIN inflight : inflight[k] = q => k \in DOMAIN inflight' /\ inflight'[k] = q
    OBVIOUS
  <2>3. \A i \in DOMAIN live' \ DOMAIN live : ~MayBuild(q, i)
    BY DEF LiveShrinks
  <2>4. \A l \in Request : request[l].pc \in Leading =>
          request'[l].pc \in Leading /\ request'[l].id = request[l].id /\ request'[l].subject = request[l].subject
    OBVIOUS
  <2> QED BY <2>1, <2>2, <2>3, <2>4, BystanderKeeps
<1> QED BY <1>1, <1>2, <1>3, <1>4 DEF RequestsInv

\* Settling: the leader and those who joined it go on, the key is free, everyone else stays where it is.
LEMMA SettledKeeps ==
  ASSUME SessionInv, Forward, NEW r \in Request, request[r].pc \in Leading,
         NEW pc \in {"idle", "serve"}, Settle(r, pc), \A i \in DOMAIN live' : i \in DOMAIN live
  PROVE  FlightInv' /\ RequestsInv' /\ \A q \in Request \ {r} : request[q].pc \in Leading => request'[q] = request[q]
<1> DEFINE Goes(q) == q = r \/ (request[q].pc = "joined" /\ request[q].lead = {r})
<1>1. request \in [Request -> RequestRec] /\ FlightInv
  BY DEF SessionInv, RequestsInv
<1>2. /\ request' = [q \in Request |-> IF ~Goes(q) THEN request[q]
                                       ELSE IF pc = "idle" THEN NoRequest
                                       ELSE [request[q] EXCEPT !.pc = pc, !.lead = {}]]
      /\ inflight' = Less(inflight, {k \in DOMAIN inflight : inflight[k] = r})
  BY DEF Settle, In
<1>3. \A q \in Request : ~Goes(q) => request'[q] = request[q]
  BY <1>2
<1>4. \A q \in Request \ {r} : request[q].pc \in Leading => request'[q] = request[q]
  BY <1>3 DEF Leading
<1>5. /\ DOMAIN inflight' = {k \in DOMAIN inflight : inflight[k] # r}
      /\ \A k \in DOMAIN inflight' : inflight'[k] = inflight[k]
  BY <1>2 DEF Less
<1>6. FlightInv'
  <2>1. ASSUME NEW k \in DOMAIN inflight' PROVE Led(k)'
    <3>1. Led(k) /\ inflight[k] # r /\ inflight'[k] = inflight[k]
      BY <1>1, <1>5 DEF FlightInv
    <3>2. request'[inflight[k]] = request[inflight[k]]
      BY <3>1, <1>4 DEF Led
    <3> QED BY <3>1, <3>2 DEF Led
  <2> QED BY <2>1, <1>1, <1>5 DEF FlightInv
<1>7. ASSUME NEW q \in Request, Goes(q)
      PROVE  request'[q] \in RequestRec /\ RequestInv(q)'
  <2>1. CASE pc = "idle"
    <3>1. request'[q] = NoRequest
      BY <1>2, <1>7, <2>1
    <3> QED BY <3>1 DEF NoRequest, RequestRec, PCs, RequestInv
  <2>2. CASE pc = "serve"
    <3>1. request'[q] = [request[q] EXCEPT !.pc = "serve", !.lead = {}]
      BY <1>2, <1>7, <2>2
    <3>2. request[q] \in RequestRec
      BY <1>1
    <3>3. request'[q] \in RequestRec
      BY <3>1, <3>2 DEF RequestRec, PCs
    <3>4. /\ request'[q].pc = "serve"
          /\ request'[q].id = request[q].id /\ request'[q].subject = request[q].subject
      BY <3>1, <3>2 DEF RequestRec
    <3>5. PICK i \in Id, s \in Subject : RequestFor(q, i, s)
      BY <1>7, SomeRequest DEF Leading
    <3>6. RequestFor(q, i, s)'
      BY <3>4, <3>5 DEF RequestFor, Holding, Persisting, Leading
    <3> QED BY <3>3, <3>6 DEF RequestInv
  <2> QED BY <2>1, <2>2
<1>8. ASSUME NEW q \in Request, ~Goes(q)
      PROVE  request'[q] \in RequestRec /\ RequestInv(q)'
  <2>1. request'[q] = request[q]
    BY <1>3, <1>8
  <2>2. \A k \in DOMAIN inflight : inflight[k] = q => k \in DOMAIN inflight' /\ inflight'[k] = q
    BY <1>5, <1>8
  <2>3. \A i \in DOMAIN live' \ DOMAIN live : ~MayBuild(q, i)
    OBVIOUS
  <2>4. \A l \in Request : request[q].pc = "joined" /\ request[q].lead = {l} /\ request[l].pc \in Leading =>
          request'[l].pc \in Leading /\ request'[l].id = request[l].id /\ request'[l].subject = request[l].subject
    BY <1>4, <1>8
  <2>5. RequestInv(q)'
    BY <2>1, <2>2, <2>3, <2>4, BystanderKeeps
  <2> QED BY <1>1, <2>1, <2>5
<1>9. RequestsInv'
  <2>1. request' \in [Request -> RequestRec]
    BY <1>2, <1>7, <1>8
  <2> QED BY <2>1, <1>7, <1>8 DEF RequestsInv
<1> QED BY <1>4, <1>6, <1>9

----------------------------------------------------------------------------
\* Each step that moves requests.

FlowInv == FlightInv /\ HalfInv /\ RequestsInv

\* A request that arrives takes a free slot.
LEMMA ArrivalMoves ==
  ASSUME SessionInv, Forward, NEW r \in Request, NEW i \in Id, NEW s \in Subject,
         NEW pc \in {"joined", "serve", "read"}, NEW lead \in SUBSET Request, Arrive(r, i, s, pc, lead)
  PROVE  \E rec \in RequestRec :
           /\ rec.pc = pc /\ rec.id = {i} /\ rec.subject = {s} /\ rec.lead = lead
           /\ request' = [request EXCEPT ![r] = rec] /\ request'[r] = rec
           /\ request[r].pc = "idle"
<1> DEFINE rec == [pc |-> pc, id |-> {i}, subject |-> {s}, lead |-> lead]
<1>1. rec \in RequestRec /\ rec.pc = pc /\ rec.id = {i} /\ rec.subject = {s} /\ rec.lead = lead
  BY DEF RequestRec, PCs
<1> HIDE DEF rec
<1>2. request' = [request EXCEPT ![r] = rec] /\ request[r].pc = "idle"
  BY DEF Arrive, Free, In, rec
<1>3. request'[r] = rec
  BY <1>2 DEF SessionInv, RequestsInv
<1> QED BY <1>1, <1>2, <1>3

\* A request that joins a rebuild waits on the leader of its own key.
LEMMA JoinFlow ==
  ASSUME SessionInv, Forward, NEW r \in Request, NEW i \in Id, NEW s \in Subject, Join(r, i, s)
  PROVE  FlowInv'
<1>1. /\ <<i, s>> \in DOMAIN inflight /\ UNCHANGED <<live, inflight>>
      /\ Arrive(r, i, s, "joined", {inflight[<<i, s>>]})
  BY DEF Join, Pending, Key
<1> DEFINE l == inflight[<<i, s>>]
<1>2. l \in Request /\ request[l].pc \in Leading /\ request[l].id = {i} /\ request[l].subject = {s}
  BY <1>1 DEF SessionInv, FlightInv, Led
<1> HIDE DEF l
<1>3. PICK rec \in RequestRec :
        /\ rec.pc = "joined" /\ rec.id = {i} /\ rec.subject = {s} /\ rec.lead = {l}
        /\ request' = [request EXCEPT ![r] = rec] /\ request'[r] = rec
        /\ request[r].pc = "idle"
  BY <1>1, <1>2, ArrivalMoves DEF l
<1>4. request'[l] = request[l]
  BY <1>2, <1>3 DEF Leading
<1>5. RequestFor(r, i, s)'
  BY <1>2, <1>3, <1>4 DEF RequestFor, Holding, Persisting, Leading
<1>6. RequestInv(r)'
  BY <1>5 DEF RequestInv
<1>7. RequestsInv'
  BY <1>1, <1>3, <1>6, OneMoves DEF FlightGrows, Leading
<1>8. FlightInv'
  BY <1>1, <1>3, OneMovesFlight DEF Leading
<1>9. HalfInv'
  BY <1>1, <1>3, OneMovesHalf
<1> QED BY <1>7, <1>8, <1>9 DEF FlowInv

\* A request that finds its session there is served by it.
LEMMA FoundFlow ==
  ASSUME SessionInv, Forward, NEW r \in Request, NEW i \in Id, NEW s \in Subject, Found(r, i, s)
  PROVE  FlowInv'
<1>1. Arrive(r, i, s, "serve", {}) /\ UNCHANGED <<live, inflight>>
  BY DEF Found
<1>2. PICK rec \in RequestRec :
        /\ rec.pc = "serve" /\ rec.id = {i} /\ rec.subject = {s} /\ rec.lead = {}
        /\ request' = [request EXCEPT ![r] = rec] /\ request'[r] = rec
        /\ request[r].pc = "idle"
  BY <1>1, ArrivalMoves
<1>3. RequestFor(r, i, s)'
  BY <1>2 DEF RequestFor, Holding, Persisting, Leading
<1>4. RequestInv(r)'
  BY <1>3 DEF RequestInv
<1>5. RequestsInv'
  BY <1>1, <1>2, <1>4, OneMoves DEF FlightGrows, Leading
<1>6. FlightInv'
  BY <1>1, <1>2, OneMovesFlight DEF Leading
<1>7. HalfInv'
  BY <1>1, <1>2, OneMovesHalf
<1> QED BY <1>5, <1>6, <1>7 DEF FlowInv

\* The leader of a rebuild takes a key nobody holds, for a session that is not in the map.
LEMMA StartAdoptFlow ==
  ASSUME SessionInv, Forward, NEW r \in Request, NEW i \in Id, NEW s \in Subject, StartAdopt(r, i, s)
  PROVE  FlowInv'
<1>1. /\ Arrive(r, i, s, "read", {}) /\ live' = live
      /\ <<i, s>> \notin DOMAIN inflight /\ i \notin DOMAIN live
      /\ inflight' = With(inflight, <<i, s>>, r)
  BY DEF StartAdopt, Pending, Key
<1>2. PICK rec \in RequestRec :
        /\ rec.pc = "read" /\ rec.id = {i} /\ rec.subject = {s} /\ rec.lead = {}
        /\ request' = [request EXCEPT ![r] = rec] /\ request'[r] = rec
        /\ request[r].pc = "idle"
  BY <1>1, ArrivalMoves
<1>3. /\ DOMAIN inflight' = DOMAIN inflight \cup {<<i, s>>}
      /\ inflight'[<<i, s>>] = r
      /\ \A k \in DOMAIN inflight : inflight'[k] = inflight[k]
  BY <1>1 DEF With
<1>4. RequestFor(r, i, s)'
  BY <1>1, <1>2, <1>3 DEF RequestFor, Holding, Persisting, Leading
<1>5. RequestInv(r)'
  BY <1>4 DEF RequestInv
<1>6. FlightGrows
  BY <1>3 DEF FlightGrows
<1>7. RequestsInv'
  BY <1>1, <1>2, <1>5, <1>6, OneMoves DEF Leading
<1>8. FlightInv'
  <2>1. FlightInv /\ request \in [Request -> RequestRec]
    BY DEF SessionInv, RequestsInv
  <2>2. ASSUME NEW k \in DOMAIN inflight PROVE Led(k)'
    <3>1. Led(k)
      BY <2>1 DEF FlightInv
    <3>2. request'[inflight[k]] = request[inflight[k]]
      BY <3>1, <2>1, <1>2 DEF Led, Leading
    <3> QED BY <3>1, <3>2, <1>3 DEF Led
  <2>3. Led(<<i, s>>)'
    BY <1>2, <1>3 DEF Led, Leading
  <2> QED BY <2>1, <2>2, <2>3, <1>3 DEF FlightInv
<1>9. HalfInv'
  BY <1>1, <1>2, OneMovesHalf
<1> QED BY <1>7, <1>8, <1>9 DEF FlowInv

\* A new session has an id of its own, which nobody rebuilds for its owner.
LEMMA InitializeFlow ==
  ASSUME SessionInv, Forward, NEW r \in Request, NEW i \in Id, Initialize(r, i, Owner[i])
  PROVE  FlowInv'
<1> DEFINE rec == [NoRequest EXCEPT !.pc = "persist", !.id = {i}, !.subject = {Owner[i]}]
           new == [subject |-> Owner[i], by |-> r, half |-> FALSE]
<1>1. rec \in RequestRec /\ rec.pc = "persist" /\ rec.id = {i} /\ rec.subject = {Owner[i]}
  BY OwnerOfId DEF NoRequest, RequestRec, PCs
<1>2. /\ request' = [request EXCEPT ![r] = rec] /\ request[r].pc = "idle"
      /\ live' = With(live, i, new) /\ inflight' = inflight
      /\ i \notin DOMAIN live /\ \A q \in Request : i \notin request[q].id
  BY DEF Initialize, Free, In
<1>3. new.half = FALSE
  OBVIOUS
<1> HIDE DEF rec, new
<1>4. /\ DOMAIN live' = DOMAIN live \cup {i}
      /\ live'[i] = new
      /\ \A j \in DOMAIN live : live'[j] = live[j]
  BY <1>2 DEF With
<1>5. request'[r] = rec
  BY <1>2 DEF SessionInv, RequestsInv
<1>6. RequestFor(r, i, Owner[i])'
  BY <1>1, <1>5 DEF RequestFor, Leading
<1>7. RequestInv(r)'
  BY <1>6, OwnerOfId DEF RequestInv
<1>8. \A q \in Request \ {r} : \A j \in DOMAIN live' \ DOMAIN live : ~MayBuild(q, j)
  BY <1>2, <1>4 DEF MayBuild
<1>9. RequestsInv'
  BY <1>1, <1>2, <1>7, <1>8, OneMoves DEF FlightGrows, Leading
<1>10. FlightInv'
  BY <1>1, <1>2, OneMovesFlight DEF Leading
<1>11. HalfInv'
  BY <1>2, <1>3, <1>4, OneMovesHalf
<1> QED BY <1>9, <1>10, <1>11 DEF FlowInv

\* A request that moves on keeps its id, its subject and its lead.
LEMMA MovesOn ==
  ASSUME SessionInv, NEW r \in Request, NEW pc \in PCs, request' = [request EXCEPT ![r].pc = pc]
  PROVE  \E rec \in RequestRec :
           /\ rec.pc = pc /\ rec.id = request[r].id /\ rec.subject = request[r].subject /\ rec.lead = request[r].lead
           /\ request' = [request EXCEPT ![r] = rec] /\ request'[r] = rec
<1> DEFINE rec == [request[r] EXCEPT !.pc = pc]
<1>1. request[r] \in RequestRec /\ request \in [Request -> RequestRec]
  BY DEF SessionInv, RequestsInv
<1>2. rec \in RequestRec
  BY <1>1 DEF RequestRec
<1>3. rec.pc = pc /\ rec.id = request[r].id /\ rec.subject = request[r].subject /\ rec.lead = request[r].lead
  BY <1>1 DEF RequestRec
<1>4. request' = [request EXCEPT ![r] = rec]
  OBVIOUS
<1> HIDE DEF rec
<1>5. request'[r] = rec
  BY <1>1, <1>4
<1> QED BY <1>2, <1>3, <1>4, <1>5

\* The first persist of a session's record: the put, and its flush, after which its id stands.
LEMMA PersistingFlow ==
  ASSUME SessionInv, Forward, NEW r \in Request, NEW i \in Id, NEW pc \in Persisting,
         RequestFor(r, i, Owner[i]), request[r].pc \in Persisting, UNCHANGED <<live, inflight>>,
         request' = [request EXCEPT ![r].pc = pc],
         pc = "flush" => i \in Stored', pc = "answer" => i \in Stands'
  PROVE  FlowInv'
<1>1. pc \in PCs
  BY DEF Persisting, PCs
<1>2. PICK rec \in RequestRec :
        /\ rec.pc = pc /\ rec.id = request[r].id /\ rec.subject = request[r].subject
        /\ rec.lead = request[r].lead
        /\ request' = [request EXCEPT ![r] = rec] /\ request'[r] = rec
  BY <1>1, MovesOn
<1>3. request[r].pc \notin Leading /\ request[r].pc # "replayed"
  BY DEF Persisting, Leading
<1>4. RequestFor(r, i, Owner[i])'
  BY <1>2 DEF RequestFor, Persisting, Leading
<1>5. RequestInv(r)'
  BY <1>4, OwnerOfId DEF RequestInv
<1>6. RequestsInv'
  BY <1>2, <1>3, <1>5, OneMoves DEF FlightGrows
<1>7. FlightInv'
  BY <1>2, <1>3, OneMovesFlight
<1>8. HalfInv'
  BY <1>2, <1>3, OneMovesHalf
<1> QED BY <1>6, <1>7, <1>8 DEF FlowInv

\* The put.
LEMMA PersistFirstFlow ==
  ASSUME SessionInv, Forward, NEW r \in Request, PersistFirst(r)
  PROVE  FlowInv'
<1>1. request[r].pc \in Persisting /\ UNCHANGED <<live, inflight, lapsed>>
  BY DEF PersistFirst, In, Persisting
<1>2. PICK i \in Id : /\ RequestFor(r, i, Owner[i])
                      /\ IF Room(i) THEN Buffered(i, Owner[i]) ELSE UNCHANGED records
                      /\ Room(i) \/ request'[r].pc # "flush"
  BY PersistFirstFor
<1>3. PICK pc \in {"flush", "refused", "full"} : request' = [request EXCEPT ![r].pc = pc]
  BY DEF PersistFirst
<1>4. request'[r].pc = pc
  BY <1>3 DEF SessionInv, RequestsInv, RequestRec
<1>5. pc = "flush" => i \in Stored'
  <2>1. Room(i) => i \in DOMAIN records'
    BY <1>1, <1>2, BufferedKeeps DEF SessionInv
  <2> QED BY <1>2, <1>4, <2>1 DEF Stored
<1>6. pc \in Persisting /\ pc # "answer"
  BY DEF Persisting
<1> QED BY <1>1, <1>2, <1>3, <1>5, <1>6, PersistingFlow

\* Its flush, which works.
LEMMA FlushFirstFlow ==
  ASSUME SessionInv, Forward, NEW r \in Request, FlushFirst(r)
  PROVE  FlowInv'
<1>1. /\ request[r].pc \in {"flush", "full", "refused"} /\ request[r].pc \in Persisting
      /\ request[r].pc \in Holding
      /\ UNCHANGED <<live, inflight, records, deleted>> /\ saved' = records'
  BY DEF FlushFirst, FlushWorks, Persisting, Holding
<1>2. PICK i \in Id : RequestFor(r, i, Owner[i]) /\ IdOf(r) = i
  BY <1>1, HolderOwns
<1> DEFINE again == In(r, "full") /\ ~prunedNow
<1>3. /\ request' = [request EXCEPT ![r].pc = IF again THEN "again" ELSE "answer"]
      /\ IF again THEN StartPrune ELSE IF In(r, "flush") THEN UNCHANGED <<lapsed, prune, prunedNow>> ELSE Full(i)
  BY <1>2 DEF FlushFirst
<1>4. PICK pc \in {"again", "answer"} : request' = [request EXCEPT ![r].pc = pc] /\ (pc = "again" <=> again)
  BY <1>3
<1>5. pc = "answer" => i \in Stands'
  <2>1. SUFFICES ASSUME ~again PROVE i \in Stands'
    BY <1>4
  <2>2. CASE request[r].pc = "flush"
    <3>1. i \in Stored
      BY <1>2, <2>2 DEF RequestFor
    <3>2. lapsed' = lapsed
      BY <1>3, <2>1, <2>2 DEF In
    <3> QED BY <1>1, <3>1, <3>2 DEF Stored, Stands, OnDisk
  <2>3. CASE request[r].pc # "flush"
    <3>1. i \in lapsed'
      BY <1>3, <2>1, <2>3 DEF In, Full
    <3> QED BY <3>1 DEF Stands
  <2> QED BY <2>2, <2>3
<1>6. pc \in Persisting /\ pc # "flush"
  BY DEF Persisting
<1> HIDE DEF again
<1> QED BY <1>1, <1>2, <1>4, <1>5, <1>6, PersistingFlow

\* Its flush, which fails: the client is answered all the same.
LEMMA FlushFirstFailsFlow ==
  ASSUME SessionInv, Forward, NEW r \in Request, FlushFirstFails(r)
  PROVE  FlowInv'
<1>1. /\ request[r].pc \in Persisting /\ request[r].pc \in Holding
      /\ UNCHANGED <<live, inflight>> /\ FlushFails(request[r].id)
      /\ request' = [request EXCEPT ![r].pc = "answer"]
  BY DEF FlushFirstFails, Persisting, Holding
<1>2. PICK i \in Id : RequestFor(r, i, Owner[i]) /\ IdOf(r) = i
  BY <1>1, HolderOwns
<1>3. i \in Stands'
  <2>1. request[r].id \ DOMAIN saved' \subseteq unsaved'
    BY <1>1 DEF FlushFails
  <2> QED BY <1>2, <2>1 DEF RequestFor, Stands, OnDisk
<1>4. "answer" \in Persisting
  BY DEF Persisting
<1> QED BY <1>1, <1>2, <1>3, <1>4, PersistingFlow

\* A client's DELETE takes its session out of the map.
LEMMA CloseFlow ==
  ASSUME SessionInv, Forward, NEW r \in Request, Close(r)
  PROVE  FlowInv'
<1>1. /\ request[r].pc = "serve" /\ UNCHANGED inflight
      /\ live' = Less(live, request[r].id)
      /\ request' = [request EXCEPT ![r].pc = "close"]
  BY DEF Close, In, EndSession
<1>2. PICK rec \in RequestRec :
        /\ rec.pc = "close" /\ rec.id = request[r].id /\ rec.subject = request[r].subject
        /\ rec.lead = request[r].lead
        /\ request' = [request EXCEPT ![r] = rec] /\ request'[r] = rec
  <2>1. "close" \in PCs
    BY DEF PCs
  <2> QED BY <1>1, <2>1, MovesOn
<1>3. PICK i \in Id, s \in Subject : RequestFor(r, i, s)
  BY <1>1, SomeRequest
<1>4. RequestFor(r, i, s)'
  BY <1>2, <1>3 DEF RequestFor, Holding, Persisting, Leading
<1>5. RequestInv(r)'
  BY <1>4 DEF RequestInv
<1>6. \A j \in DOMAIN live' : j \in DOMAIN live /\ live'[j] = live[j]
  BY <1>1 DEF Less
<1>7. RequestsInv'
  BY <1>1, <1>2, <1>5, <1>6, OneMoves DEF FlightGrows, Leading
<1>8. FlightInv'
  BY <1>1, <1>2, OneMovesFlight DEF Leading
<1>9. HalfInv'
  <2>1. /\ request[r].pc # "replayed"
        /\ \A j \in DOMAIN live' : (j \in DOMAIN live /\ live'[j] = live[j]) \/ ~live'[j].half
                                   \/ (live'[j].by = r /\ rec.pc = "replayed" /\ rec.id = {j})
    BY <1>1, <1>6
  <2> QED BY <1>2, <2>1, OneMovesHalf
<1> QED BY <1>7, <1>8, <1>9 DEF FlowInv

\* Answered, served or deleted: the slot is free again.
LEMMA EndFlow ==
  ASSUME SessionInv, Forward, NEW r \in Request, Answer(r) \/ Serve(r) \/ RemoveRecord(r)
  PROVE  FlowInv'
<1>1. /\ request[r].pc \in {"answer", "serve", "close"} /\ UNCHANGED <<live, inflight>>
      /\ request' = [request EXCEPT ![r] = NoRequest]
  BY DEF Answer, Serve, RemoveRecord, In
<1>2. NoRequest \in RequestRec /\ NoRequest.pc = "idle"
  BY DEF NoRequest, RequestRec, PCs
<1>3. request'[r] = NoRequest
  BY <1>1 DEF SessionInv, RequestsInv
<1>4. RequestInv(r)'
  BY <1>2, <1>3 DEF RequestInv
<1>5. RequestsInv'
  BY <1>1, <1>2, <1>4, OneMoves DEF FlightGrows, Leading
<1>6. FlightInv'
  BY <1>1, <1>2, OneMovesFlight DEF Leading
<1>7. HalfInv'
  BY <1>1, <1>2, OneMovesHalf
<1> QED BY <1>5, <1>6, <1>7 DEF FlowInv

\* The decision: unknown or a stranger's, stale, or to be built.
LEMMA DecideFlow ==
  ASSUME SessionInv, Forward, NEW r \in Request, Decide(r)
  PROVE  FlowInv'
<1>1. request[r].pc = "read" /\ live' = live
  BY DEF Decide, In
<1>2. PICK i \in Id, s \in Subject : RequestFor(r, i, s)
  BY <1>1, SomeRequest
<1>3. IdOf(r) = i /\ SubjectOf(r) = s
  BY <1>2, RequestNames
<1> DEFINE next == CASE i \notin DOMAIN records -> "idle"
                     [] i \in DOMAIN records /\ ExpiredRecord(i) -> "drop"
                     [] OTHER -> IF records[i].subject = s THEN "build" ELSE "idle"
<1>4. \/ IF next = "idle" THEN Settle(r, "idle") ELSE request' = [request EXCEPT ![r].pc = next] /\ UNCHANGED inflight
      \/ Settle(r, "idle")
  BY <1>3 DEF Decide
<1>5. /\ next \in {"idle", "drop", "build"}
      /\ next = "drop" => i \in lapsed
      /\ next = "build" => s = Owner[i]
  BY DEF SessionInv, RecordsInv, BufferInv
<1> HIDE DEF next
<1>6. CASE Settle(r, "idle")
  <2>1. Settle(r, "idle") /\ request[r].pc \in Leading
    BY <1>1, <1>6 DEF Leading
  <2>2. FlightInv' /\ RequestsInv' /\ \A q \in Request \ {r} : request[q].pc \in Leading => request'[q] = request[q]
    BY <1>1, <2>1, SettledKeeps
  <2>3. HalfInv'
    <3>1. ASSUME NEW j \in DOMAIN live PROVE HalfLed(j)'
      <4>1. HalfLed(j) /\ live[j].by \in Request
        BY DEF SessionInv, HalfInv, LiveInv, LiveRec
      <4> QED BY <1>1, <2>2, <4>1 DEF HalfLed, Leading
    <3> QED BY <1>1, <3>1 DEF HalfInv
  <2> QED BY <2>2, <2>3 DEF FlowInv
<1>7. CASE next # "idle" /\ ~Settle(r, "idle")
  <2>1. next \in PCs /\ next \in Leading
    BY <1>5, <1>7 DEF PCs, Leading
  <2>2. request' = [request EXCEPT ![r].pc = next] /\ UNCHANGED inflight
    BY <1>4, <1>7
  <2>3. PICK rec \in RequestRec :
          /\ rec.pc = next /\ rec.id = request[r].id /\ rec.subject = request[r].subject
          /\ rec.lead = request[r].lead
          /\ request' = [request EXCEPT ![r] = rec] /\ request'[r] = rec
    BY <2>1, <2>2, MovesOn
  <2>4. i \in lapsed => i \in lapsed'
    BY DEF Forward
  <2>5. RequestFor(r, i, s)'
    BY <1>1, <1>2, <1>5, <1>7, <2>2, <2>3, <2>4 DEF RequestFor, Holding, Persisting, Leading
  <2>6. RequestInv(r)'
    BY <2>5 DEF RequestInv
  <2>7. RequestsInv'
    BY <1>1, <2>1, <2>2, <2>3, <2>6, OneMoves DEF FlightGrows
  <2>8. FlightInv'
    BY <2>1, <2>2, <2>3, OneMovesFlight
  <2>9. HalfInv'
    BY <1>1, <2>3, OneMovesHalf
  <2> QED BY <2>7, <2>8, <2>9 DEF FlowInv
<1> QED BY <1>4, <1>6, <1>7

\* A leader that finds its record expired settles without having built anything.
LEMMA DropExpiredFlow ==
  ASSUME SessionInv, Forward, NEW r \in Request, DropExpired(r)
  PROVE  FlowInv'
<1>1. request[r].pc = "drop" /\ live' = live /\ Settle(r, "idle") /\ request[r].pc \in Leading
  BY DEF DropExpired, In, Leading
<1>2. FlightInv' /\ RequestsInv' /\ \A q \in Request \ {r} : request[q].pc \in Leading => request'[q] = request[q]
  BY <1>1, SettledKeeps
<1>3. ASSUME NEW j \in DOMAIN live PROVE HalfLed(j)'
  <2>1. HalfLed(j) /\ live[j].by \in Request
    BY DEF SessionInv, HalfInv, LiveInv, LiveRec
  <2> QED BY <1>1, <1>2, <2>1 DEF HalfLed, Leading
<1>4. HalfInv'
  BY <1>1, <1>3 DEF HalfInv
<1> QED BY <1>2, <1>4 DEF FlowInv

\* The leader of a key is the only one that may build its session, and it now has.
LEMMA ReplayFlow ==
  ASSUME SessionInv, Forward, NEW r \in Request, Replay(r)
  PROVE  FlowInv'
<1>1. /\ request[r].pc = "build" /\ UNCHANGED inflight
      /\ request' = [request EXCEPT ![r].pc = "replayed"]
  BY DEF Replay, In
<1>2. PICK i \in Id : /\ RequestFor(r, i, Owner[i])
                      /\ live' = With(live, i, [subject |-> Owner[i], by |-> r, half |-> TRUE])
  BY ReplayFor
<1>3. PICK rec \in RequestRec :
        /\ rec.pc = "replayed" /\ rec.id = request[r].id /\ rec.subject = request[r].subject
        /\ rec.lead = request[r].lead
        /\ request' = [request EXCEPT ![r] = rec] /\ request'[r] = rec
  <2>1. "replayed" \in PCs
    BY DEF PCs
  <2> QED BY <1>1, <2>1, MovesOn
<1>4. RequestFor(r, i, Owner[i])'
  BY <1>1, <1>2, <1>3 DEF RequestFor, Holding, Persisting, Leading
<1>5. RequestInv(r)'
  BY <1>4, OwnerOfId DEF RequestInv
<1>6. /\ DOMAIN live' = DOMAIN live \cup {i}
      /\ live'[i].by = r
      /\ \A j \in DOMAIN live : j # i => live'[j] = live[j]
  BY <1>2 DEF With
<1>7. \A q \in Request \ {r} : \A j \in DOMAIN live' \ DOMAIN live : ~MayBuild(q, j)
  <2>1. SUFFICES ASSUME NEW q \in Request \ {r}, MayBuild(q, i) PROVE FALSE
    BY <1>6
  <2>2. PICK j \in Id, s \in Subject : RequestFor(q, j, s)
    BY <2>1, SomeRequest DEF MayBuild, Leading
  <2>3. j = i /\ s = Owner[i] /\ request[q].pc \in Leading
    BY <2>1, <2>2 DEF MayBuild, RequestFor
  <2>4. inflight[<<i, Owner[i]>>] = q
    BY <2>2, <2>3 DEF RequestFor
  <2>5. inflight[<<i, Owner[i]>>] = r
    BY <1>1, <1>2 DEF RequestFor, Leading
  <2> QED BY <2>4, <2>5
<1>8. RequestsInv'
  BY <1>1, <1>3, <1>5, <1>7, OneMoves DEF FlightGrows, Leading
<1>9. FlightInv'
  BY <1>1, <1>3, OneMovesFlight DEF Leading
<1>10. rec.id = {i}
  BY <1>2, <1>3 DEF RequestFor
<1>11. HalfInv'
  <2>1. /\ request[r].pc # "replayed"
        /\ \A j \in DOMAIN live' : (j \in DOMAIN live /\ live'[j] = live[j]) \/ ~live'[j].half
                                   \/ (live'[j].by = r /\ rec.pc = "replayed" /\ rec.id = {j})
    BY <1>1, <1>3, <1>6, <1>10
  <2> QED BY <1>3, <2>1, OneMovesHalf
<1> QED BY <1>8, <1>9, <1>11 DEF FlowInv

\* The handshake is over: the leader's session is whole.
LEMMA RebuiltFlow ==
  ASSUME SessionInv, Forward, NEW r \in Request, Rebuilt(r)
  PROVE  FlowInv'
<1>1. /\ request[r].pc = "replayed" /\ request[r].pc \in Leading /\ Settle(r, "serve")
      /\ live' = [live EXCEPT ![IdOf(r)].half = FALSE]
  BY DEF Rebuilt, In, Leading
<1>2. PICK i \in Id, s \in Subject : RequestFor(r, i, s)
  BY <1>1, SomeRequest
<1>3. IdOf(r) = i
  BY <1>2, RequestNames
<1>4. DOMAIN live' = DOMAIN live
  BY <1>1
<1>5. FlightInv' /\ RequestsInv' /\ \A q \in Request \ {r} : request[q].pc \in Leading => request'[q] = request[q]
  BY <1>1, <1>4, SettledKeeps
<1>6. ASSUME NEW j \in DOMAIN live PROVE HalfLed(j)'
  <2>1. HalfLed(j) /\ live[j] \in LiveRec /\ live[j].by \in Request
    BY DEF SessionInv, HalfInv, LiveInv, LiveRec
  <2>2. CASE j = i
    <3>1. live'[j] = [live[j] EXCEPT !.half = FALSE]
      BY <1>1, <1>3, <2>2
    <3>2. live'[j].half = FALSE
      BY <2>1, <3>1 DEF LiveRec
    <3> QED BY <3>2 DEF HalfLed
  <2>3. CASE j # i
    <3>1. live'[j] = live[j]
      BY <1>1, <1>3, <2>3
    <3>2. live[j].half => live[j].by # r
      BY <1>2, <2>1, <2>3 DEF HalfLed, RequestFor
    <3> QED BY <1>5, <2>1, <3>1, <3>2 DEF HalfLed, Leading
  <2> QED BY <2>2, <2>3
<1>7. HalfInv'
  BY <1>4, <1>6 DEF HalfInv
<1> QED BY <1>5, <1>7 DEF FlowInv

\* A rebuild that fails takes its half-built session with it.
LEMMA RebuildFailsFlow ==
  ASSUME SessionInv, Forward, NEW r \in Request, RebuildFails(r)
  PROVE  FlowInv'
<1>1. /\ request[r].pc \in {"build", "replayed"} /\ request[r].pc \in Leading /\ Settle(r, "idle")
      /\ live' = Less(live, request[r].id)
  BY DEF RebuildFails, In, Leading, EndSession
<1>2. /\ DOMAIN live' = DOMAIN live \ request[r].id
      /\ \A j \in DOMAIN live' : live'[j] = live[j]
  BY <1>1 DEF Less
<1>3. FlightInv' /\ RequestsInv' /\ \A q \in Request \ {r} : request[q].pc \in Leading => request'[q] = request[q]
  BY <1>1, <1>2, SettledKeeps
<1>4. ASSUME NEW j \in DOMAIN live' PROVE HalfLed(j)'
  <2>1. HalfLed(j) /\ live[j].by \in Request /\ live'[j] = live[j] /\ j \notin request[r].id
    BY <1>2 DEF SessionInv, HalfInv, LiveInv, LiveRec
  <2>2. live[j].half => live[j].by # r
    BY <2>1 DEF HalfLed
  <2> QED BY <1>3, <2>1, <2>2 DEF HalfLed, Leading
<1>5. HalfInv'
  BY <1>4 DEF HalfInv
<1> QED BY <1>3, <1>5 DEF FlowInv

\* The end of the process leaves no request, no rebuild and no session.
LEMMA ExitFlow ==
  ASSUME SessionInv, Exit
  PROVE  FlowInv'
<1>1. /\ live' = Less(live, Id) /\ inflight' = Less(inflight, DOMAIN inflight)
      /\ request' = [r \in Request |-> NoRequest]
  BY DEF Exit
<1>2. DOMAIN live' = {} /\ DOMAIN inflight' = {}
  BY <1>1 DEF Less, SessionInv, LiveInv
<1>3. NoRequest \in RequestRec /\ NoRequest.pc = "idle"
  BY DEF NoRequest, RequestRec, PCs
<1>4. RequestsInv'
  BY <1>1, <1>3 DEF RequestsInv, RequestInv
<1> QED BY <1>2, <1>4 DEF FlowInv, FlightInv, HalfInv

\* Every step keeps requests, rebuilds and half-built sessions in step with each other.
LEMMA FlowStep ==
  ASSUME SessionInv, [SessionNext]_sessionVars
  PROVE  FlowInv'
<1>1. CASE Exit
  BY <1>1, ExitFlow
<1>2. CASE ~Exit
  <2> Forward
    BY <1>2, RecordsStep
  <2>1. ASSUME UNCHANGED <<request, inflight>>, LiveShrinks PROVE FlowInv'
    BY <2>1, NoneMoves DEF FlowInv
  <2>2. ASSUME UNCHANGED <<request, inflight, live>> PROVE FlowInv'
    BY <2>1, <2>2 DEF LiveShrinks
  <2>3. CASE UNCHANGED sessionVars
    BY <2>2, <2>3 DEF sessionVars
  <2>4. CASE RecordStep
    BY <2>2, <2>4 DEF RecordStep, TouchRead, TouchWrite, Retry, PruneRead, PruneRemove
  <2>5. CASE Hour \/ Drain
    BY <2>2, <2>5 DEF Hour, Drain, sessionState
  <2>6. CASE EndAll
    <3>1. live' = Less(live, leaving) /\ UNCHANGED <<request, inflight>>
      BY <2>6 DEF EndAll, EndSession
    <3> QED BY <2>1, <3>1 DEF LiveShrinks, Less
  <2>7. ASSUME NEW r \in Request, NEW i \in Id, NEW s \in Subject,
               (s = Owner[i] /\ Initialize(r, i, s)) \/ Join(r, i, s) \/ Found(r, i, s) \/ StartAdopt(r, i, s)
        PROVE  FlowInv'
    BY <2>7, InitializeFlow, JoinFlow, FoundFlow, StartAdoptFlow
  <2>8. ASSUME NEW r \in Request, RequestStep(r) PROVE FlowInv'
    BY <2>8, PersistFirstFlow, FlushFirstFlow, FlushFirstFailsFlow, CloseFlow, EndFlow, DecideFlow, DropExpiredFlow, ReplayFlow, RebuiltFlow,
       RebuildFailsFlow DEF RequestStep
  <2>9. ASSUME ShutdownStep \/ Restart PROVE EndAll
    BY <1>2, <2>9 DEF ShutdownStep, Drained, Timeout, Restart
  <2> QED BY <2>3, <2>4, <2>5, <2>6, <2>7, <2>8, <2>9 DEF SessionNext
<1> QED BY <1>1, <1>2

----------------------------------------------------------------------------
\* The invariant.

\* The invariant holds at the start.
LEMMA InitInv == SessionInit => SessionInv
<1> SUFFICES ASSUME SessionInit PROVE SessionInv
  OBVIOUS
<1> DEFINE one == CHOOSE i \in Id : TRUE
<1>1. one \in Id
  BY SessionAssumption
<1>2. known = {one}
  BY DEF SessionInit
<1> HIDE DEF one
<1>3. records = [i \in {one} |-> [subject |-> Owner[i], age |-> 0]]
  BY <1>2 DEF SessionInit
<1>4. /\ DOMAIN records = {one}
      /\ records[one] = [subject |-> Owner[one], age |-> 0]
  BY <1>3
<1>5. records[one] \in StoredRec /\ records[one].subject = Owner[one] /\ ~ExpiredRecord(one)
  BY <1>1, <1>4, OwnerOfId, SessionAssumption DEF StoredRec, ExpiredRecord
<1>6. RecordsInv
  <2>1. IsFiniteSet(DOMAIN records) /\ Cardinality(DOMAIN records) = 1
    BY <1>4, FS_Singleton
  <2>2. RecordsCapped
    BY <2>1, SessionAssumption DEF RecordsCapped
  <2>3. prune \in PruneRec /\ prune.doomed = {}
    BY DEF SessionInit, NotPruning, PruneRec
  <2>4. retries = {} /\ lapsed = {} /\ saved = records /\ unsaved = {}
    BY DEF SessionInit
  <2>5. BufferInv
    BY <1>1, <1>4, <1>5, <2>1, <2>2 DEF BufferInv
  <2>6. DiskInv
    BY <1>4, <1>5, <2>4 DEF DiskInv, ExpiredRecord
  <2>7. WaitingInv
    BY <2>3, <2>4 DEF WaitingInv
  <2> QED BY <2>5, <2>6, <2>7 DEF RecordsInv
<1>7. TouchesInv
  BY DEF SessionInit, TouchesInv
<1>8. DOMAIN live = {} /\ DOMAIN touched = {} /\ DOMAIN inflight = {}
  BY DEF SessionInit
<1>9. LiveInv /\ HalfInv
  <2>1. active = 0
    BY DEF SessionInit
  <2> QED BY <1>8, <2>1, FS_EmptySet DEF LiveInv, HalfInv, Counted
<1>10. PlainInv
  BY <1>1, <1>2, <1>8 DEF SessionInit, PlainInv
<1>11. FlightInv
  BY <1>8 DEF FlightInv
<1>12. RequestsInv
  <2>1. request = [r \in Request |-> NoRequest]
    BY DEF SessionInit
  <2>2. NoRequest \in RequestRec /\ NoRequest.pc = "idle"
    BY DEF NoRequest, RequestRec, PCs
  <2> QED BY <2>1, <2>2 DEF RequestsInv, RequestInv
<1>13. Survives
  BY <1>2, <1>4 DEF Survives, SessionInit
<1> QED BY <1>6, <1>7, <1>9, <1>10, <1>11, <1>12, <1>13 DEF SessionInv

\* Every step keeps the invariant.
LEMMA NextInv == SessionInv /\ [SessionNext]_sessionVars => SessionInv'
<1> SUFFICES ASSUME SessionInv, [SessionNext]_sessionVars PROVE SessionInv'
  OBVIOUS
<1>1. RecordsInv'
  BY RecordsStep
<1>2. TouchesInv'
  BY TouchesStep
<1>3. LiveInv'
  BY LiveStep
<1>4. PlainInv'
  BY PlainStep
<1>5. FlightInv' /\ HalfInv' /\ RequestsInv'
  BY FlowStep DEF FlowInv
<1>6. Survives'
  BY SurvivesStep
<1> QED BY <1>1, <1>2, <1>3, <1>4, <1>5, <1>6 DEF SessionInv

\* The invariant of the sessions holds in every reachable state.
THEOREM SessionInvariant == SessionSpec => []SessionInv
<1> QED BY InitInv, NextInv, PTL DEF SessionSpec

\* The maps are of ids, their records of subjects, ages within the lifetime; what is on disk a get finds;
\* and whoever joins a rebuild waits for a leader (session-store.ts, session-rehydration.ts, http.ts).
THEOREM SessionTypeCorrect == SessionSpec => []SessionTypeOK
<1>1. SessionInv => SessionTypeOK
  <2> SUFFICES ASSUME SessionInv PROVE SessionTypeOK
    OBVIOUS
  <2>1. RecordsInv /\ TouchesInv /\ LiveInv /\ PlainInv /\ FlightInv /\ RequestsInv
    BY DEF SessionInv
  <2>2. \A r \in Request : request[r].id \subseteq Id /\ request[r].subject \subseteq Subject
    BY <2>1, RequestTypes
  <2>3. /\ DOMAIN live \subseteq Id /\ DOMAIN touched \subseteq Id
        /\ \A i \in DOMAIN live : live[i] \in [subject : Subject, by : Request, half : BOOLEAN]
    BY <2>1 DEF LiveInv, LiveRec, PlainInv
  <2>4. /\ DOMAIN records \subseteq Id /\ \A i \in DOMAIN records : records[i] \in [subject : Subject, age : 0..(SessionTTL + 1)]
        /\ DOMAIN saved \subseteq Id /\ \A i \in DOMAIN saved : saved[i] \in [subject : Subject, age : 0..(SessionTTL + 1)]
        /\ DOMAIN saved \subseteq DOMAIN records /\ unsaved \subseteq Id
    BY <2>1 DEF RecordsInv, BufferInv, DiskInv, StoredRec
  <2>5. retries \subseteq Id \X Subject /\ lapsed \subseteq Id
    BY <2>1 DEF RecordsInv, WaitingInv
  <2>6. \A k \in DOMAIN inflight : request[inflight[k]].pc \in {"read", "drop", "build", "replayed"}
    BY <2>1 DEF FlightInv, Led, Leading
  <2> QED BY <2>1, <2>2, <2>3, <2>4, <2>5, <2>6 DEF SessionTypeOK, TouchesInv, PlainInv, FlightInv
<1> QED BY <1>1, SessionInvariant, PTL

\* The active-sessions counter is the size of the session map, whatever ends sessions and however often,
\* and the records stay under their cap, whichever persists race (http.ts endSession, session-store.ts).
THEOREM BoundsHold == SessionSpec => []Bounds
<1>1. SessionInv => Bounds
  BY DEF SessionInv, LiveInv, RecordsInv, BufferInv, Bounds
<1> QED BY <1>1, SessionInvariant, PTL

\* A session whose initialize was answered has its record on disk, unless its client deleted it, it has
\* lapsed, or the flush of its record failed and none has saved it since (http.ts, onSessionReady;
\* session-rehydration.ts, persist).
THEOREM SurvivesHolds == SessionSpec => []Survives
<1>1. SessionInv => Survives
  BY DEF SessionInv
<1> QED BY <1>1, SessionInvariant, PTL

----------------------------------------------------------------------------
\* Who is served by what.

\* A session that stays in the map stays the one that was built.
LEMMA OneTransportStep ==
  ASSUME SessionInv, [SessionNext]_sessionVars, NEW i \in DOMAIN live \cap DOMAIN live'
  PROVE  live'[i].by = live[i].by
<1>1. CASE live' = live
  BY <1>1
<1>2. ASSUME NEW I, live' = Less(live, I) PROVE live'[i].by = live[i].by
  BY <1>2 DEF Less
<1>3. ASSUME NEW r \in Request, NEW j \in Id, Initialize(r, j, Owner[j]) PROVE live'[i].by = live[i].by
  <2>1. live' = With(live, j, [subject |-> Owner[j], by |-> r, half |-> FALSE]) /\ j \notin DOMAIN live
    BY <1>3 DEF Initialize
  <2> QED BY <2>1 DEF With
<1>4. ASSUME NEW r \in Request, Replay(r) PROVE live'[i].by = live[i].by
  <2>1. PICK j \in Id : /\ RequestFor(r, j, Owner[j])
                        /\ live' = With(live, j, [subject |-> Owner[j], by |-> r, half |-> TRUE])
    BY <1>4, ReplayFor
  <2>2. j \notin DOMAIN live
    BY <1>4, <2>1 DEF Replay, In, RequestFor, Leading
  <2> QED BY <2>1, <2>2 DEF With
<1>5. ASSUME NEW r \in Request, Rebuilt(r) PROVE live'[i].by = live[i].by
  <2>1. live' = [live EXCEPT ![IdOf(r)].half = FALSE]
    BY <1>5 DEF Rebuilt
  <2>2. live[i] \in LiveRec
    BY DEF SessionInv, LiveInv
  <2>3. live'[i] = live[i] \/ live'[i] = [live[i] EXCEPT !.half = FALSE]
    BY <2>1
  <2> QED BY <2>2, <2>3 DEF LiveRec
<1>6. ASSUME NEW r \in Request, RebuildFails(r) \/ Close(r) PROVE live'[i].by = live[i].by
  BY <1>6, <1>2 DEF RebuildFails, Close, EndSession
<1>7. CASE EndAll \/ Exit
  BY <1>7, <1>2 DEF EndAll, Exit, EndSession
<1>8. ASSUME NEW r \in Request, NEW j \in Id, NEW s \in Subject, Join(r, j, s) \/ Found(r, j, s) \/ StartAdopt(r, j, s)
      PROVE  live' = live
  BY <1>8 DEF Join, Found, StartAdopt
<1>9. ASSUME NEW r \in Request,
             \/ PersistFirst(r) \/ FlushFirst(r) \/ FlushFirstFails(r) \/ Answer(r)
             \/ Decide(r) \/ DropExpired(r) \/ Serve(r) \/ RemoveRecord(r)
      PROVE  live' = live
  BY <1>9 DEF PersistFirst, FlushFirst, FlushFirstFails, Answer, Decide, DropExpired, Serve, RemoveRecord
<1>10. ASSUME RecordStep \/ Hour \/ Drain \/ UNCHANGED sessionVars PROVE live' = live
  BY <1>10 DEF RecordStep, TouchRead, TouchWrite, Retry, PruneRead, PruneRemove, Hour, Drain,
     sessionState, sessionVars
<1>11. ASSUME ShutdownStep \/ Restart PROVE EndAll \/ Exit
  BY <1>11 DEF ShutdownStep, Drained, Timeout, Restart
<1> QED
  BY <1>1, <1>3, <1>4, <1>5, <1>6, <1>7, <1>8, <1>9, <1>10, <1>11 DEF SessionNext, RequestStep

\* The sessions handed to a request are whole and its own.
Suits(q) == \A i \in request'[q].id : ~live'[i].half /\ {live'[i].subject} = request'[q].subject

\* A live session that nobody is rebuilding is whole.
LEMMA FoundSuits ==
  ASSUME SessionInv, NEW r \in Request, NEW i \in Id, NEW s \in Subject, Found(r, i, s),
         NEW q \in Request, HandedOver(q)
  PROVE  Suits(q)
<1>1. /\ <<i, s>> \notin DOMAIN inflight /\ i \in DOMAIN live /\ live[i].subject = s /\ live' = live
      /\ request' = [request EXCEPT ![r] = [pc |-> "serve", id |-> {i}, subject |-> {s}, lead |-> {}]]
  BY DEF Found, Arrive, Pending, Key
<1>2. request \in [Request -> RequestRec]
  BY DEF SessionInv, RequestsInv
<1>3. q = r
  BY <1>1, <1>2 DEF HandedOver, In
<1>4. request'[q].id = {i} /\ request'[q].subject = {s}
  BY <1>1, <1>2, <1>3
<1>5. ~live[i].half
  <2>1. SUFFICES ASSUME live[i].half PROVE FALSE
    OBVIOUS
  <2> DEFINE l == live[i].by
  <2>2. l \in Request /\ request[l].pc = "replayed" /\ request[l].id = {i} /\ live[i].subject = Owner[i]
    BY <1>1, <2>1 DEF SessionInv, HalfInv, HalfLed, LiveInv, LiveRec
  <2> HIDE DEF l
  <2>3. PICK j \in Id, t \in Subject : RequestFor(l, j, t)
    BY <2>2, SomeRequest
  <2>4. j = i /\ t = Owner[i] /\ <<j, t>> \in DOMAIN inflight
    BY <2>2, <2>3 DEF RequestFor, Holding, Persisting, Leading
  <2> QED BY <1>1, <2>2, <2>4
<1> QED BY <1>1, <1>4, <1>5 DEF Suits

\* Who led a rebuild, and who joined it, are handed the session that it made whole.
LEMMA RebuiltSuits ==
  ASSUME SessionInv, NEW r \in Request, Rebuilt(r), NEW q \in Request, HandedOver(q)
  PROVE  Suits(q)
<1>1. /\ request[r].pc = "replayed" /\ IdOf(r) \in DOMAIN live
      /\ live' = [live EXCEPT ![IdOf(r)].half = FALSE]
      /\ request' = [p \in Request |-> IF p # r /\ ~(request[p].pc = "joined" /\ request[p].lead = {r}) THEN request[p]
                                       ELSE [request[p] EXCEPT !.pc = "serve", !.lead = {}]]
  BY DEF Rebuilt, Settle, In
<1>2. PICK i \in Id : RequestFor(r, i, Owner[i]) /\ IdOf(r) = i
  BY <1>1, HolderOwns DEF Holding, Persisting
<1>3. q = r \/ (request[q].pc = "joined" /\ request[q].lead = {r})
  BY <1>1 DEF HandedOver, In
<1>4. request[q].id = {i} /\ request[q].subject = {Owner[i]}
  <2>1. CASE q = r
    BY <1>2, <2>1 DEF RequestFor
  <2>2. CASE request[q].pc = "joined" /\ request[q].lead = {r}
    <3>1. PICK j \in Id, s \in Subject : RequestFor(q, j, s)
      BY <2>2, SomeRequest
    <3>2. request[r].id = {j} /\ request[r].subject = {s}
      BY <2>2, <3>1 DEF RequestFor
    <3> QED BY <1>2, <3>1, <3>2 DEF RequestFor
  <2> QED BY <1>3, <2>1, <2>2
<1>5. request'[q].id = {i} /\ request'[q].subject = {Owner[i]}
  <2>1. request[q] \in RequestRec
    BY DEF SessionInv, RequestsInv
  <2>2. request'[q] = [request[q] EXCEPT !.pc = "serve", !.lead = {}]
    BY <1>1, <1>3
  <2> QED BY <1>4, <2>1, <2>2 DEF RequestRec
<1>6. ~live'[i].half /\ live'[i].subject = Owner[i]
  <2>1. live[i] \in LiveRec /\ live[i].subject = Owner[i]
    BY <1>1, <1>2 DEF SessionInv, LiveInv
  <2>2. live'[i] = [live[i] EXCEPT !.half = FALSE]
    BY <1>1, <1>2
  <2> QED BY <2>1, <2>2 DEF LiveRec
<1> QED BY <1>5, <1>6 DEF Suits

\* No other step hands a session to anyone.
LEMMA HandedBy ==
  ASSUME SessionInv, [SessionNext]_sessionVars, NEW q \in Request, HandedOver(q)
  PROVE  \/ \E r \in Request, i \in Id, s \in Subject : Found(r, i, s)
         \/ \E r \in Request : Rebuilt(r)
<1>1. request \in [Request -> RequestRec] /\ request[q].pc # "serve" /\ request'[q].pc = "serve"
  BY DEF SessionInv, RequestsInv, HandedOver, In
<1>2. request' # request
  BY <1>1
<1>3. ASSUME NEW r \in Request, NEW rec, rec.pc # "serve", request' = [request EXCEPT ![r] = rec] PROVE FALSE
  BY <1>1, <1>3
<1>4. ASSUME NEW r \in Request, NEW pc \in PCs, pc # "serve", request' = [request EXCEPT ![r].pc = pc] PROVE FALSE
  <2>1. PICK rec \in RequestRec :
          /\ rec.pc = pc /\ rec.id = request[r].id /\ rec.subject = request[r].subject
          /\ rec.lead = request[r].lead
          /\ request' = [request EXCEPT ![r] = rec] /\ request'[r] = rec
    BY <1>4, MovesOn
  <2> QED BY <1>3, <1>4, <2>1
<1>5. ASSUME NEW r \in Request, Settle(r, "idle") PROVE FALSE
  <2>1. request'[q] = request[q] \/ request'[q] = NoRequest
    BY <1>5 DEF Settle
  <2> QED BY <1>1, <2>1 DEF NoRequest
<1>6. ASSUME NEW r \in Request, NEW i \in Id, NEW s \in Subject, Initialize(r, i, s) PROVE FALSE
  <2>1. request' = [request EXCEPT ![r] = [NoRequest EXCEPT !.pc = "persist", !.id = {i}, !.subject = {s}]]
    BY <1>6 DEF Initialize
  <2>2. [NoRequest EXCEPT !.pc = "persist", !.id = {i}, !.subject = {s}].pc # "serve"
    BY DEF NoRequest
  <2> QED BY <2>1, <2>2, <1>3
<1>7. ASSUME NEW r \in Request, NEW i \in Id, NEW s \in Subject, Join(r, i, s) \/ StartAdopt(r, i, s) PROVE FALSE
  <2>1. PICK pc \in {"joined", "read"}, lead \in {{}, {inflight[Key(i, s)]}} : Arrive(r, i, s, pc, lead)
    BY <1>7 DEF Join, StartAdopt
  <2>2. request' = [request EXCEPT ![r] = [pc |-> pc, id |-> {i}, subject |-> {s}, lead |-> lead]]
    BY <2>1 DEF Arrive
  <2> QED BY <2>2, <1>3
<1>8. ASSUME NEW r \in Request,
             PersistFirst(r) \/ FlushFirst(r) \/ FlushFirstFails(r) \/ Replay(r) \/ Close(r)
      PROVE  FALSE
  <2>1. PICK pc \in {"flush", "full", "refused", "again", "answer", "replayed", "close"} :
          request' = [request EXCEPT ![r].pc = pc]
    BY <1>8 DEF PersistFirst, FlushFirst, FlushFirstFails, Replay, Close
  <2>2. pc \in PCs /\ pc # "serve"
    BY DEF PCs
  <2> QED BY <2>1, <2>2, <1>4
<1>9. ASSUME NEW r \in Request, Answer(r) \/ Serve(r) \/ RemoveRecord(r) PROVE FALSE
  <2>1. request' = [request EXCEPT ![r] = NoRequest]
    BY <1>9 DEF Answer, Serve, RemoveRecord
  <2>2. NoRequest.pc # "serve"
    BY DEF NoRequest
  <2> QED BY <2>1, <2>2, <1>3
<1>10. ASSUME NEW r \in Request, DropExpired(r) \/ RebuildFails(r) PROVE FALSE
  BY <1>10, <1>5 DEF DropExpired, RebuildFails
<1>11. ASSUME NEW r \in Request, Decide(r) PROVE FALSE
  <2>1. Settle(r, "idle") \/ \E pc \in {"drop", "build"} : request' = [request EXCEPT ![r].pc = pc]
    BY <1>11 DEF Decide
  <2>2. ASSUME NEW pc \in {"drop", "build"}, request' = [request EXCEPT ![r].pc = pc] PROVE FALSE
    <3>1. pc \in PCs /\ pc # "serve"
      BY DEF PCs
    <3> QED BY <2>2, <3>1, <1>4
  <2> QED BY <2>1, <2>2, <1>5
<1>12. ASSUME Exit PROVE FALSE
  <2>1. request'[q] = NoRequest
    BY <1>12 DEF Exit
  <2> QED BY <1>1, <2>1 DEF NoRequest
<1>13. ASSUME RecordStep \/ Hour \/ Drain \/ EndAll \/ UNCHANGED sessionVars PROVE FALSE
  BY <1>13, <1>2 DEF RecordStep, TouchRead, TouchWrite, Retry, PruneRead, PruneRemove, Hour, Drain,
     EndAll, sessionState, sessionVars
<1>14. ASSUME ShutdownStep \/ Restart PROVE EndAll \/ Exit
  BY <1>14 DEF ShutdownStep, Drained, Timeout, Restart
<1> QED
  BY <1>6, <1>7, <1>8, <1>9, <1>10, <1>11, <1>12, <1>13, <1>14 DEF SessionNext, RequestStep

\* Every request that is served is served by the one session of its id, whole and its own, however many
\* present the id at once (session-rehydration.ts, adoptOrNull).
THEOREM ServedHolds == SessionSpec => Served
<1>1. ASSUME SessionInv, [SessionNext]_sessionVars PROVE OneTransport
  BY <1>1, OneTransportStep DEF OneTransport
<1>2. ASSUME SessionInv, [SessionNext]_sessionVars, NEW r \in Request PROVE ServedWhole(r) /\ OwnSubject(r)
  <2>1. HandedOver(r) => Suits(r)
    BY <1>2, HandedBy, FoundSuits, RebuiltSuits
  <2> QED BY <2>1 DEF Suits, ServedWhole, OwnSubject
<1>3. SessionInv /\ [SessionNext]_sessionVars =>
        [OneTransport /\ \A r \in Request : ServedWhole(r) /\ OwnSubject(r)]_sessionVars
  BY <1>1, <1>2
<1> QED BY <1>3, SessionInvariant, PTL DEF SessionSpec, Served
=============================================================================
