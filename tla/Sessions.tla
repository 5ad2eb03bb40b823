---- MODULE Sessions ----
(***************************************************************************)
(* MCP sessions over HTTP: created by an initialize, found again by their  *)
(* id, rebuilt from their persisted record after a restart, ended by a     *)
(* client's DELETE or by the shutdown.  A tick of the clock is the hour    *)
(* after which a session in use refreshes its record; it falls between     *)
(* requests.                                                               *)
(***************************************************************************)
EXTENDS Naturals, FiniteSets

CONSTANTS
  Id,           \* session ids
  Subject,      \* who a bearer token speaks for
  Owner,        \* id -> the subject whose initialize draws it; the others may present it
  Request,      \* concurrent HTTP requests
  MaxRecords,   \* cap on persisted records
  SessionTTL,   \* ticks a record outlives its last use
  MaxRestarts,  \* bound: shutdowns and crashes
  MaxDiskFaults \* bound: operations of the record store that fail

ASSUME SessionAssumption ==
  /\ Id # {} /\ Owner \in [Id -> Subject]
  /\ MaxRecords \in Nat \ {0} /\ SessionTTL \in Nat \ {0} /\ MaxRestarts \in Nat /\ MaxDiskFaults \in Nat

VARIABLES
  live,         \* the session map: id -> its subject, the request that built it, whether it is half built
  touched,      \* live id -> ticks since its record was refreshed, up to 1
  records,      \* id -> its record as a get finds it, in the buffer or on disk: the subject, ticks since last seen
  saved,        \* the same, on disk
  inflight,     \* rebuilds under way: [id, subject] -> the request that leads it
  request,      \* what each request does and where it is
  touches,      \* fire-and-forget refreshes: the id, and what the read of its record found
  retries,      \* refreshes that found no room and wait for a sweep of the records
  prune,        \* that sweep: the ids still to look at, and the one found stale
  prunedNow,    \* a sweep ran within this tick
  phase,        \* the server's: up, ending (transports close), closed, down
  leaving,      \* the shutdown's snapshot of the session map
  active,       \* the active-sessions counter
  deleted,      \* history: ids whose client's DELETE was answered
  lapsed,       \* history: ids whose record has been expired, or was refused at the cap
  unsaved,      \* history: ids whose record a failed flush left in the buffer, and no other has saved since
  known,        \* history: ids whose initialize was answered
  restarts, diskFaults

recordVars == <<records, saved, touches, retries, prune, prunedNow, lapsed, unsaved, diskFaults>>
serverVars == <<phase, leaving, restarts>>
sessionVars == <<live, touched, inflight, request, active, deleted, known, recordVars, serverVars>>

NoRequest == [pc |-> "idle", id |-> {}, subject |-> {}, lead |-> {}]
NotPruning == [todo |-> {}, doomed |-> {}]

SessionTypeOK ==
  /\ DOMAIN live \subseteq Id /\ DOMAIN touched \subseteq Id
  /\ \A i \in DOMAIN live : live[i] \in [subject : Subject, by : Request, half : BOOLEAN]
  /\ \A f \in {records, saved} : DOMAIN f \subseteq Id /\ \A i \in DOMAIN f : f[i] \in [subject : Subject, age : 0..(SessionTTL + 1)]
  /\ DOMAIN saved \subseteq DOMAIN records /\ unsaved \subseteq Id
  /\ DOMAIN inflight \subseteq Id \X Subject
  /\ \A k \in DOMAIN inflight : request[inflight[k]].pc \in {"read", "drop", "build", "replayed"}   \* nobody waits for nothing
  /\ \A r \in Request : request[r].id \subseteq Id /\ request[r].subject \subseteq Subject
  /\ touches \subseteq Id \X SUBSET Subject /\ retries \subseteq Id \X Subject /\ leaving \subseteq Id
  /\ phase \in {"up", "ending", "closed", "down"}
  /\ deleted \subseteq Id /\ lapsed \subseteq Id /\ known \subseteq Id

\* A boot, with the record of a session of the process before it.
SessionInit ==
  /\ live = [i \in {} |-> 0] /\ touched = [i \in {} |-> 0]
  /\ known = {CHOOSE i \in Id : TRUE}
  /\ records = [i \in known |-> [subject |-> Owner[i], age |-> 0]] /\ saved = records
  /\ inflight = [k \in {} |-> 0]
  /\ request = [r \in Request |-> NoRequest]
  /\ touches = {} /\ retries = {} /\ prune = NotPruning /\ prunedNow = TRUE
  /\ phase = "up" /\ leaving = {} /\ active = 0
  /\ deleted = {} /\ lapsed = {} /\ unsaved = {} /\ restarts = 0 /\ diskFaults = 0

----------------------------------------------------------------------------
\* Helpers: maps as functions, the one of a set that holds at most one.

With(f, k, v) == [x \in DOMAIN f \cup {k} |-> IF x = k THEN v ELSE f[x]]
Less(f, S) == [x \in DOMAIN f \ S |-> f[x]]
The(S) == CHOOSE x \in S : TRUE
IdOf(r) == The(request[r].id)
SubjectOf(r) == The(request[r].subject)
In(r, pc) == request[r].pc = pc
\* Which free slot a request takes does not matter.
Free(r) == In(r, "idle") /\ r = CHOOSE q \in Request : In(q, "idle")
Accepting == phase \in {"up", "ending"}

ExpiredRecord(i) == records[i].age > SessionTTL

\* endSession, the single eviction point: the map's delete is the guard.
MutEnded(I) == active' = IF I = {} THEN active ELSE active - 1
Ended(I) == active' = active - Cardinality(I \cap DOMAIN live)
EndSession(I) == Ended(I) /\ live' = Less(live, I)

----------------------------------------------------------------------------
\* persist: tryPut, then a flush; at the cap one sweep, unless there just was one, and both once more.

Room(i) == i \in DOMAIN records \/ Cardinality(DOMAIN records) < MaxRecords
Buffered(i, s) == records' = With(records, i, [subject |-> s, age |-> 0])

DiskFault == diskFaults < MaxDiskFaults /\ diskFaults' = diskFaults + 1

\* A flush writes the whole buffer, or fails and has written some of it.
Unwritten == {j \in DOMAIN records' : j \notin DOMAIN saved \/ saved[j] # records'[j]}
FlushWorks == saved' = records' /\ unsaved' = unsaved \ DOMAIN records' /\ UNCHANGED diskFaults
FlushFails(I) ==
  /\ DiskFault
  /\ \E S \in SUBSET Unwritten \ {Unwritten} :
       /\ saved' = [j \in DOMAIN saved \cup S |-> IF j \in S THEN records'[j] ELSE saved[j]]
       /\ unsaved' = (unsaved \ S) \cup (I \ DOMAIN saved')

Full(i) == lapsed' = lapsed \cup {i} /\ UNCHANGED <<prune, prunedNow>>
StartPrune == prune' = [todo |-> DOMAIN records, doomed |-> {}] /\ prunedNow' = TRUE /\ UNCHANGED lapsed

\* A refresh, which nobody waits for: only a crash or the exit tells whether its flush has come, so the
\* step of the put says what will be written by then, and a flush that comes too late is one that fails.
Refresh(i, s) ==
  /\ IF Room(i) THEN Buffered(i, s) ELSE UNCHANGED records
  /\ FlushWorks \/ FlushFails({})

Persist(i, s) ==
  /\ Refresh(i, s)
  /\ \/ Room(i) /\ UNCHANGED <<retries, prune, prunedNow, lapsed>>
     \/ /\ ~Room(i) /\ (prunedNow \/ diskFaults' # diskFaults)
        /\ Full(i) /\ UNCHANGED retries
     \/ /\ ~Room(i) /\ ~prunedNow /\ diskFaults' = diskFaults
        /\ StartPrune
        /\ retries' = retries \cup {<<i, s>>}

\* remove: the file goes, and with it what the buffer holds; a failed one leaves both.
Remove(I) == records' = Less(records, I) /\ saved' = Less(saved, I) /\ UNCHANGED diskFaults
RemoveFails == DiskFault /\ UNCHANGED <<records, saved>>

\* pruneExpired: one record at a time, read first, removed after; a failed removal ends the sweep.
PruneRead ==
  /\ prune.doomed = {}
  /\ \E i \in prune.todo :
       prune' = [todo |-> prune.todo \ {i}, doomed |-> {j \in {i} : j \in DOMAIN records /\ ExpiredRecord(j)}]
  /\ UNCHANGED <<live, touched, inflight, request, active, deleted, known, serverVars,
                 records, saved, touches, retries, prunedNow, lapsed, unsaved, diskFaults>>
PruneRemove ==
  /\ prune.doomed # {}
  /\ \/ Remove(prune.doomed) /\ prune' = [prune EXCEPT !.doomed = {}]
     \/ RemoveFails /\ prune' = NotPruning
  /\ UNCHANGED <<live, touched, inflight, request, active, deleted, known, serverVars,
                 touches, retries, prunedNow, lapsed, unsaved>>
Pruning == prune.todo # {} \/ prune.doomed # {}

Retry(i, s) ==
  /\ <<i, s>> \in retries
  /\ ~Pruning
  /\ Refresh(i, s)
  /\ lapsed' = IF Room(i) THEN lapsed ELSE lapsed \cup {i}
  /\ retries' = retries \ {<<i, s>>}
  /\ UNCHANGED <<live, touched, inflight, request, active, deleted, known, serverVars, touches, prune, prunedNow>>

----------------------------------------------------------------------------
\* initialize: a fresh id enters the map, its record is written, then the answer goes out.

Initialize(r, i, s) ==
  /\ Accepting /\ Free(r)
  /\ i \notin known \cup DOMAIN live \cup DOMAIN records /\ \A q \in Request : i \notin request[q].id
  /\ live' = With(live, i, [subject |-> s, by |-> r, half |-> FALSE])
  /\ touched' = With(touched, i, 0)
  /\ active' = active + 1
  /\ request' = [request EXCEPT ![r] = [NoRequest EXCEPT !.pc = "persist", !.id = {i}, !.subject = {s}]]
  /\ UNCHANGED <<inflight, deleted, known, recordVars, serverVars>>

\* Its persist, which the answer waits for: the put, the flush, and at the cap both again after a sweep.
PersistFirst(r) ==
  /\ \/ In(r, "persist")
     \/ In(r, "again") /\ ~Pruning
  /\ IF Room(IdOf(r)) THEN Buffered(IdOf(r), SubjectOf(r)) ELSE UNCHANGED records
  /\ request' = [request EXCEPT ![r].pc = IF Room(IdOf(r)) THEN "flush" ELSE IF In(r, "again") THEN "refused" ELSE "full"]
  /\ UNCHANGED <<live, touched, inflight, active, deleted, known, serverVars,
                 saved, touches, retries, prune, prunedNow, lapsed, unsaved, diskFaults>>

MutFlushFirst(r) ==
  /\ request[r].pc \in {"flush", "full", "refused"}
  /\ request' = [request EXCEPT ![r].pc = "answer"]
  /\ IF In(r, "flush") THEN UNCHANGED <<lapsed, prune, prunedNow>> ELSE Full(IdOf(r))
  /\ UNCHANGED <<live, touched, inflight, active, deleted, known, serverVars,
                 records, saved, touches, retries, unsaved, diskFaults>>
FlushFirst(r) ==
  /\ request[r].pc \in {"flush", "full", "refused"}
  /\ UNCHANGED records
  /\ FlushWorks
  /\ LET again == In(r, "full") /\ ~prunedNow
     IN /\ request' = [request EXCEPT ![r].pc = IF again THEN "again" ELSE "answer"]
        /\ IF again THEN StartPrune ELSE IF In(r, "flush") THEN UNCHANGED <<lapsed, prune, prunedNow>> ELSE Full(IdOf(r))
  /\ UNCHANGED <<live, touched, inflight, active, deleted, known, serverVars, touches, retries>>

\* A failure is logged, and the client answered all the same.
FlushFirstFails(r) ==
  /\ request[r].pc \in {"flush", "full", "refused"}
  /\ UNCHANGED records
  /\ FlushFails(request[r].id)
  /\ request' = [request EXCEPT ![r].pc = "answer"]
  /\ IF In(r, "flush") THEN UNCHANGED <<lapsed, prune, prunedNow>> ELSE Full(IdOf(r))
  /\ UNCHANGED <<live, touched, inflight, active, deleted, known, serverVars, touches, retries>>

Answer(r) ==
  /\ In(r, "answer")
  /\ request' = [request EXCEPT ![r] = NoRequest]
  /\ known' = known \cup request[r].id
  /\ UNCHANGED <<live, touched, inflight, active, deleted, recordVars, serverVars>>

----------------------------------------------------------------------------
\* A request that carries an id: it joins a rebuild, finds the live session, or leads a rebuild.

Arrive(r, i, s, pc, lead) ==
  /\ Accepting /\ Free(r)
  /\ request' = [request EXCEPT ![r] = [pc |-> pc, id |-> {i}, subject |-> {s}, lead |-> lead]]

Key(i, s) == <<i, s>>
MutPending(i, s) == FALSE
Pending(i, s) == Key(i, s) \in DOMAIN inflight

Join(r, i, s) ==
  /\ Pending(i, s)
  /\ Arrive(r, i, s, "joined", {inflight[Key(i, s)]})
  /\ UNCHANGED <<live, touched, inflight, active, deleted, known, recordVars, serverVars>>

\* The record is refreshed if it was not for an hour.  Another subject's session is answered 404.
Found(r, i, s) ==
  /\ ~Pending(i, s)
  /\ i \in DOMAIN live /\ live[i].subject = s
  /\ Arrive(r, i, s, "serve", {})
  /\ LET due == i \notin DOMAIN touched \/ touched[i] > 0
     IN /\ touched' = IF due THEN With(touched, i, 0) ELSE touched
        /\ touches' = IF due THEN touches \cup {<<i, {}>>} ELSE touches
  /\ UNCHANGED <<live, inflight, active, deleted, known, serverVars,
                 records, saved, retries, prune, prunedNow, lapsed, unsaved, diskFaults>>

StartAdopt(r, i, s) ==
  /\ ~Pending(i, s)
  /\ i \notin DOMAIN live
  /\ Arrive(r, i, s, "read", {})
  /\ inflight' = With(inflight, Key(i, s), r)
  /\ UNCHANGED <<live, touched, active, deleted, known, recordVars, serverVars>>

\* touch, whose two halves nobody waits for: the record is read; if it is there it is persisted again.
\* A read that fails is one that finds nothing.
TouchRead(i) ==
  /\ <<i, {}>> \in touches
  /\ \/ /\ touches' = (touches \ {<<i, {}>>}) \cup {<<j, {records[j].subject}>> : j \in {i} \cap DOMAIN records}
        /\ UNCHANGED diskFaults
     \/ touches' = touches \ {<<i, {}>>} /\ DiskFault
  /\ UNCHANGED <<live, touched, inflight, request, active, deleted, known, serverVars,
                 records, saved, retries, prune, prunedNow, lapsed, unsaved>>
TouchWrite(i, s) ==
  /\ <<i, {s}>> \in touches
  /\ touches' = touches \ {<<i, {s}>>}
  /\ Persist(i, s)
  /\ UNCHANGED <<live, touched, inflight, request, active, deleted, known, serverVars>>

----------------------------------------------------------------------------
\* Adoption: read, decide, replay an initialize, replay its notification.

\* The leader and everyone who joined it go on together; the key is freed.
MutSettle(r, pc) ==
  /\ request' = [q \in Request |-> IF q # r /\ ~(In(q, "joined") /\ request[q].lead = {r}) THEN request[q]
                                   ELSE IF pc = "idle" THEN NoRequest
                                   ELSE [request[q] EXCEPT !.pc = pc, !.lead = {}]]
  /\ inflight' = IF pc = "idle" THEN inflight ELSE Less(inflight, {k \in DOMAIN inflight : inflight[k] = r})
Settle(r, pc) ==
  /\ request' = [q \in Request |-> IF q # r /\ ~(In(q, "joined") /\ request[q].lead = {r}) THEN request[q]
                                   ELSE IF pc = "idle" THEN NoRequest
                                   ELSE [request[q] EXCEPT !.pc = pc, !.lead = {}]]
  /\ inflight' = Less(inflight, {k \in DOMAIN inflight : inflight[k] = r})

\* decideAdopt: expired before subject, so a stranger evicts nothing that is still good.  A record that
\* cannot be read is none.
Decide(r) ==
  LET i == IdOf(r)
      next == CASE i \notin DOMAIN records -> "idle"
                [] i \in DOMAIN records /\ ExpiredRecord(i) -> "drop"
                [] OTHER -> IF records[i].subject = SubjectOf(r) THEN "build" ELSE "idle"
  IN /\ In(r, "read")
     /\ \/ /\ IF next = "idle" THEN Settle(r, "idle") ELSE request' = [request EXCEPT ![r].pc = next] /\ UNCHANGED inflight
           /\ UNCHANGED diskFaults
        \/ Settle(r, "idle") /\ DiskFault
     /\ UNCHANGED <<live, touched, active, deleted, known, serverVars,
                    records, saved, touches, retries, prune, prunedNow, lapsed, unsaved>>

DropExpired(r) ==
  /\ In(r, "drop")
  /\ Remove(request[r].id) \/ RemoveFails
  /\ Settle(r, "idle")
  /\ UNCHANGED <<live, touched, active, deleted, known, serverVars,
                 touches, retries, prune, prunedNow, lapsed, unsaved>>

\* The synthetic initialize enters the session into the map and persists its record again, which
\* nobody waits for: its put is queued at once.
Replay(r) ==
  LET i == IdOf(r)
  IN /\ In(r, "build")
     /\ live' = With(live, i, [subject |-> SubjectOf(r), by |-> r, half |-> TRUE])
     /\ active' = active + 1
     /\ touched' = With(touched, i, 0)
     /\ Persist(i, SubjectOf(r))
     /\ request' = [request EXCEPT ![r].pc = "replayed"]
     /\ UNCHANGED <<inflight, deleted, known, serverVars, touches>>

Rebuilt(r) ==
  /\ In(r, "replayed")
  /\ IdOf(r) \in DOMAIN live
  /\ live' = [live EXCEPT ![IdOf(r)].half = FALSE]
  /\ Settle(r, "serve")
  /\ UNCHANGED <<touched, active, deleted, known, recordVars, serverVars>>

\* Any failure on the way reads as an unknown session, and evicts what was half built.
RebuildFails(r) ==
  /\ In(r, "build") \/ In(r, "replayed")
  /\ EndSession(request[r].id)
  /\ touched' = Less(touched, request[r].id)
  /\ Settle(r, "idle")
  /\ UNCHANGED <<deleted, known, recordVars, serverVars>>

----------------------------------------------------------------------------
\* The transport handles the request.

Serve(r) ==
  /\ In(r, "serve")
  /\ request' = [request EXCEPT ![r] = NoRequest]
  /\ UNCHANGED <<live, touched, inflight, active, deleted, known, recordVars, serverVars>>

\* onsessionclosed: out of the map at once, its record after a wait.
Close(r) ==
  /\ In(r, "serve")
  /\ EndSession(request[r].id)
  /\ touched' = Less(touched, request[r].id)
  /\ request' = [request EXCEPT ![r].pc = "close"]
  /\ UNCHANGED <<inflight, deleted, known, recordVars, serverVars>>

RemoveRecord(r) ==
  /\ In(r, "close")
  /\ Remove(request[r].id) \/ RemoveFails
  /\ request' = [request EXCEPT ![r] = NoRequest]
  /\ deleted' = deleted \cup request[r].id
  /\ UNCHANGED <<live, touched, inflight, active, known, serverVars,
                 touches, retries, prune, prunedNow, lapsed, unsaved>>

----------------------------------------------------------------------------
\* The clock, shutdown and restart.

HourOlder(age) == IF age > SessionTTL THEN age ELSE age + 1
Aged(f) == [i \in DOMAIN f |-> [f[i] EXCEPT !.age = HourOlder(@)]]
Quiet == (\A r \in Request : In(r, "idle")) /\ touches = {} /\ retries = {} /\ ~Pruning
Hour ==
  /\ Quiet /\ phase = "up"
  /\ records' = Aged(records) /\ saved' = Aged(saved)
  /\ touched' = [i \in DOMAIN touched |-> 1]
  /\ lapsed' = lapsed \cup {i \in DOMAIN records : records[i].age >= SessionTTL}
                     \cup {i \in DOMAIN saved : saved[i].age >= SessionTTL}
  /\ prunedNow' = FALSE
  /\ UNCHANGED <<live, inflight, request, active, deleted, known, serverVars, touches, retries, prune, unsaved, diskFaults>>

sessionState == <<live, touched, inflight, request, active, deleted, known, recordVars>>

\* After the readiness drain, in which /healthz answers 503 and requests are served.
Drain ==
  /\ phase = "up" /\ phase' = "ending"
  /\ restarts < MaxRestarts
  /\ leaving' = DOMAIN live
  /\ UNCHANGED <<sessionState, restarts>>

\* The sessions of the snapshot end, without their records; the server takes no more connections.
EndAll ==
  /\ phase = "ending" /\ phase' = "closed"
  /\ EndSession(leaving)
  /\ leaving' = {}
  /\ UNCHANGED <<touched, inflight, request, deleted, known, recordVars, restarts>>

\* The process is gone, and with it all that is not on disk.
Exit ==
  /\ live' = Less(live, Id) /\ touched' = Less(touched, Id) /\ inflight' = Less(inflight, DOMAIN inflight)
  /\ request' = [r \in Request |-> NoRequest]
  /\ touches' = {} /\ retries' = {} /\ prune' = NotPruning /\ prunedNow' = TRUE
  /\ leaving' = {} /\ active' = 0
  /\ UNCHANGED <<deleted, lapsed, unsaved, known>>

Drained ==
  /\ phase = "closed" /\ phase' = "down"
  /\ \A r \in Request : In(r, "idle")
  /\ Exit
  /\ records' = saved /\ UNCHANGED <<saved, diskFaults, restarts>>

\* The hard timeout forces the remaining connections closed.
Timeout ==
  /\ phase \in {"ending", "closed"} /\ phase' = "down"
  /\ Exit
  /\ records' = saved /\ UNCHANGED <<saved, diskFaults, restarts>>

\* Down or crashed, and up again: a sweep of the records before the first request.
Restart ==
  /\ restarts < MaxRestarts
  /\ phase \in {"up", "down"} /\ phase' = "up"
  /\ restarts' = restarts + 1
  /\ Exit
  /\ LET expired == {i \in DOMAIN saved : saved[i].age > SessionTTL}
     IN /\ saved' = Less(saved, expired) /\ UNCHANGED diskFaults
        \/ \E S \in SUBSET expired : saved' = Less(saved, S) /\ DiskFault
  /\ records' = saved'

RequestStep(r) ==
  \/ PersistFirst(r) \/ FlushFirst(r) \/ FlushFirstFails(r) \/ Answer(r)
  \/ Decide(r) \/ DropExpired(r) \/ Replay(r) \/ Rebuilt(r) \/ RebuildFails(r)
  \/ Serve(r) \/ Close(r) \/ RemoveRecord(r)

RecordStep == \/ \E i \in Id : TouchRead(i) \/ \E s \in Subject : TouchWrite(i, s) \/ Retry(i, s)
              \/ PruneRead \/ PruneRemove

ShutdownStep == EndAll \/ Drained \/ Timeout

\* Down, only a restart happens.
SessionNext ==
  \/ /\ phase # "down"
     /\ \/ \E r \in Request, i \in Id, s \in Subject :
             \/ s = Owner[i] /\ Initialize(r, i, s)
             \/ Join(r, i, s) \/ Found(r, i, s) \/ StartAdopt(r, i, s)
        \/ \E r \in Request : RequestStep(r)
        \/ RecordStep \/ Hour \/ Drain
  \/ ShutdownStep
  \/ Restart

SessionSpec == SessionInit /\ [][SessionNext]_sessionVars

----------------------------------------------------------------------------
\* However many requests present an id at once, one rebuild serves them all: a live session is never
\* replaced by another of the same id while it is in the map (session-rehydration.ts, adoptOrNull).
OneTransport == \A i \in DOMAIN live \cap DOMAIN live' : live'[i].by = live[i].by

\* No request is handed a session whose replayed handshake is not over, nor another subject's, by
\* whichever of the three ways it came by it (session-rehydration.ts).
HandedOver(r) == ~In(r, "serve") /\ request'[r].pc = "serve"
ServedWhole(r) == HandedOver(r) => \A i \in request'[r].id : ~live'[i].half
OwnSubject(r) == HandedOver(r) => \A i \in request'[r].id : {live'[i].subject} = request'[r].subject

\* The three together: a request is served by the one session of its id, whole and its own.
Served == [][OneTransport /\ \A r \in Request : ServedWhole(r) /\ OwnSubject(r)]_sessionVars

\* The active-sessions counter is the size of the map, through failed rebuilds, double closes and
\* the shutdown (http.ts, endSession).
Counted == active = Cardinality(DOMAIN live)

\* Records stay under their cap whichever persists race (session-store.ts).
RecordsCapped == Cardinality(DOMAIN records) <= MaxRecords

\* Counter and cap together, which the drain and the admission of clients go by.
Bounds == Counted /\ RecordsCapped

\* A session whose initialize was answered can be adopted after a restart, unless its client deleted
\* it, the last save of its record on disk is as old as the TTL, the cap refused its record, or the
\* flush of its record failed and none has saved it since (http.ts, onSessionReady; persist, whose
\* failure is logged only).
Survives == known \subseteq DOMAIN saved \cup deleted \cup lapsed \cup unsaved

\* "A record that's gone (the client deleted the session) stays gone."
GoneStaysGone == [][deleted \cap DOMAIN records' \subseteq DOMAIN records]_sessionVars
====
