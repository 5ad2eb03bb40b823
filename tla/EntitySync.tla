----------------------------- MODULE EntitySync -----------------------------
(***************************************************************************)
(* One entity type of mcp-paprika (pantry items, grocery items, meals,     *)
(* menus, photos, categories, aisles, meal types): its in-memory store     *)
(* with the pending-write marks (src/entity/store.ts), its disk cache with *)
(* the write buffer (src/cache/disk-cache.ts), the commit protocol every   *)
(* write tool ends with (src/entity/commit.ts), and the replace-all        *)
(* reconcile the sync cycle runs against Paprika's canonical list          *)
(* (src/paprika/sync.ts, and the bespoke variant of the aisle and          *)
(* meal-type catalogs).                                                    *)
(*                                                                         *)
(* JavaScript runs one segment at a time, so an action is what happens     *)
(* between two awaits that really wait: a response, a file operation, or a *)
(* turn on the cache mutex.  A segment that only awaits settled promises   *)
(* runs to its end before any other callback and is one action.            *)
(***************************************************************************)
EXTENDS Naturals, FiniteSets

CONSTANTS
  Uid,        \* the rows of this entity type
  Row,        \* the contents a row can have
  None,       \* no row: absent from the list, the store, the buffer or the disk
  Untouched,  \* a uid that a commit has no operation for
  Writer,     \* tool calls that may be in flight at the same time
  TTL,        \* pendingWriteTtlMs, in ticks; 0 disables the marks
  Reconcile,  \* "replaceAll" (syncReplaceAllEntity) or "catalog" (aisles, meal types)
  MaxEdits,   \* bound: writes accepted by the server, from tools and other devices
  MaxFaults   \* bound: failed requests, file operations and cycles, and crashes

Slot == Row \cup {None}

ASSUME NoneAssumption == None \notin Row /\ Untouched \notin Row /\ Untouched # None
ASSUME TTLAssumption == TTL \in Nat
ASSUME ReconcileAssumption == Reconcile \in {"replaceAll", "catalog"}
ASSUME BoundAssumption == MaxEdits \in Nat /\ MaxFaults \in Nat

VARIABLES
  server,   \* Paprika: the accepted contents of each row
  listed,   \* Paprika: the contents its canonical list shows, which may lag
  disk,     \* <uid>.json files
  buf,      \* DiskCache._pending: puts not flushed yet
  store,    \* EntityStore._items
  synced,   \* EntityStore._hasSynced
  mark,     \* EntityStore._pendingWrites: the kind of mark, if any
  age,      \* ticks since the mark was set
  wpc,      \* where each tool call is
  wops,     \* the operations of its commit: a row to write, or None to delete
  spc,      \* where the reconcile of this entity is in the sync cycle
  raw,      \* the canonical list the cycle fetched
  seen,     \* what cache.getAll() has collected for the cycle
  eff,      \* the rows the cycle is about to install
  edits, faults,
  committed, \* history: what the last completed commit on a uid wrote
  clean      \* history: that commit overlapped no reconcile and no other commit

paprika == <<server, listed>>
cache   == <<disk, buf>>
marks   == <<mark, age>>
tools   == <<wpc, wops>>
cycle   == <<spc, raw, seen, eff>>
history == <<committed, clean>>
vars == <<server, listed, disk, buf, store, synced, mark, age, wpc, wops,
          spc, raw, seen, eff, edits, faults, committed, clean>>

Empty == [u \in Uid |-> None]

(***************************************************************************)
(* The disk cache.                                                         *)
(***************************************************************************)

\* What DiskCache.get would return: the buffer shadows the file.
View(u) == IF buf[u] # None THEN buf[u] ELSE disk[u]

\* The files after the buffered rows of a set of uids have been written.
Written(L) == [u \in Uid |-> IF u \in L /\ buf[u] # None THEN buf[u] ELSE disk[u]]

Buffered == {u \in Uid : buf[u] # None}

FlushAll == /\ disk' = Written(Buffered)
            /\ buf' = Empty

\* Mutant: a flush that fails drops the whole buffer.
MutFlushSome(L) == /\ L \in SUBSET Buffered
                   /\ disk' = Written(L)
                   /\ buf' = Empty

\* Some files landed, another failed: the buffer keeps every entry.
FlushSome(L) == /\ L \in SUBSET Buffered
                /\ disk' = Written(L)
                /\ UNCHANGED buf

\* A batch of cache.remove calls, each of which drops the file and the buffer entry.
RemoveRows(U) ==
  /\ disk' = [u \in Uid |-> IF u \in U THEN None ELSE disk[u]]
  /\ buf' = [u \in Uid |-> IF u \in U THEN None ELSE buf[u]]

\* A cold cache leaves the store empty and unsynced; otherwise it is loaded.
HydratedStore(files) == files
HydratedSynced(files) == files # Empty

(***************************************************************************)
(* The pending-write marks.                                                *)
(***************************************************************************)

MarkKinds == {"none", "upsert", "delete"}

\* Drop the marks of a set of uids.
ClearMarks(U) ==
  /\ mark' = [u \in Uid |-> IF u \in U THEN "none" ELSE mark[u]]
  /\ age' = [u \in Uid |-> IF u \in U THEN 0 ELSE age[u]]

\* Mutant: the age is compared with > instead of >=; the ticks stop at the TTL,
\* so no mark expires.
MutExpired == {u \in Uid : mark[u] # "none" /\ age[u] > TTL}

\* The marks whose age has reached the TTL.
Expired == {u \in Uid : mark[u] # "none" /\ age[u] >= TTL}

\* Time passes for every live mark.
Tick ==
  /\ \E u \in Uid : mark[u] # "none" /\ age[u] < TTL
  /\ age' = [u \in Uid |-> IF mark[u] # "none" /\ age[u] < TTL THEN age[u] + 1 ELSE age[u]]
  /\ UNCHANGED <<paprika, cache, store, synced, mark, tools, cycle, edits, faults, history>>

(***************************************************************************)
(* Paprika's server, as this program sees it.                              *)
(***************************************************************************)

\* Another device edits, creates or deletes a row; so does a tool call whose
\* save reached the server and whose response was lost.
ExternalEdit(u, r) ==
  /\ edits < MaxEdits
  /\ server[u] # r
  /\ server' = [server EXCEPT ![u] = r]
  /\ edits' = edits + 1
  /\ UNCHANGED <<listed, cache, store, synced, marks, tools, cycle, faults, history>>

\* The canonical list catches up with the accepted contents of a row.
Propagate(u) ==
  /\ listed[u] # server[u]
  /\ listed' = [listed EXCEPT ![u] = server[u]]
  /\ UNCHANGED <<server, cache, store, synced, marks, tools, cycle, edits, faults, history>>

(***************************************************************************)
(* A write tool: save on the server, then the commit protocol.             *)
(***************************************************************************)

Touched(w) == {u \in Uid : wops[w][u] # Untouched}
Deleted(w) == {u \in Uid : wops[w][u] = None}
Upserted(w) == Touched(w) \ Deleted(w)

NoOps == [u \in Uid |-> Untouched]

\* The call is over, with a result or an error.
Return(w) == /\ wpc' = [wpc EXCEPT ![w] = "idle"]
             /\ wops' = [wops EXCEPT ![w] = NoOps]

Committing(w) == wpc[w] \in {"marked", "buffered"}
InCommit(u) == \E w \in Writer : Committing(w) /\ u \in Touched(w)

\* The reconcile has started reading the cache and has not yet written it back.
SyncWindow == spc \in {"reading", "read", "pruning", "loaded"}

\* Mutant: a tool does not look whether there is anything to answer from yet.
MutSave(w, ops) ==
  /\ wpc[w] = "idle"
  /\ edits < MaxEdits
  /\ \E u \in Uid : ops[u] # Untouched
  /\ \A u \in Uid : ops[u] = None => store[u] # None
  /\ server' = [u \in Uid |-> IF ops[u] = Untouched THEN server[u] ELSE ops[u]]
  /\ edits' = edits + 1
  /\ wpc' = [wpc EXCEPT ![w] = "saved"]
  /\ wops' = [wops EXCEPT ![w] = ops]
  /\ UNCHANGED <<listed, cache, store, synced, marks, cycle, faults, history>>

\* The server accepts the save; a tool only deletes a row it has looked up.
Save(w, ops) ==
  /\ wpc[w] = "idle"
  /\ synced
  /\ edits < MaxEdits
  /\ \E u \in Uid : ops[u] # Untouched
  /\ \A u \in Uid : ops[u] = None => store[u] # None
  /\ server' = [u \in Uid |-> IF ops[u] = Untouched THEN server[u] ELSE ops[u]]
  /\ edits' = edits + 1
  /\ wpc' = [wpc EXCEPT ![w] = "saved"]
  /\ wops' = [wops EXCEPT ![w] = ops]
  /\ UNCHANGED <<listed, cache, store, synced, marks, cycle, faults, history>>

\* The response is back: mark every uid of the commit, before any cache I/O.
Mark(w) ==
  /\ wpc[w] = "saved"
  /\ wpc' = [wpc EXCEPT ![w] = "marked"]
  /\ IF TTL = 0
       THEN UNCHANGED marks
       ELSE /\ mark' = [u \in Uid |-> IF u \in Upserted(w) THEN "upsert"
                                      ELSE IF u \in Deleted(w) THEN "delete" ELSE mark[u]]
            /\ age' = [u \in Uid |-> IF u \in Touched(w) THEN 0 ELSE age[u]]
  /\ clean' = [u \in Uid |-> IF u \in Touched(w) THEN ~SyncWindow /\ ~InCommit(u) ELSE clean[u]]
  /\ UNCHANGED <<paprika, cache, store, synced, wops, cycle, edits, faults, committed>>

\* The batch gets its turn on the mutex: puts are buffered, removes reach the disk.
CacheOps(w) ==
  /\ wpc[w] = "marked"
  /\ wpc' = [wpc EXCEPT ![w] = "buffered"]
  /\ disk' = [u \in Uid |-> IF u \in Deleted(w) THEN None ELSE disk[u]]
  /\ buf' = [u \in Uid |-> IF u \in Touched(w) THEN wops[w][u] ELSE buf[u]]
  /\ UNCHANGED <<paprika, store, synced, marks, wops, cycle, edits, faults, history>>

\* Some unlink of the batch failed: every mark of the commit is cleared.
CacheOpsFail(w, D) ==
  /\ wpc[w] = "marked"
  /\ faults < MaxFaults
  /\ D \in SUBSET Deleted(w) /\ D # Deleted(w)
  /\ disk' = [u \in Uid |-> IF u \in D THEN None ELSE disk[u]]
  /\ buf' = [u \in Uid |-> IF u \in Upserted(w) \cup D THEN wops[w][u] ELSE buf[u]]
  /\ ClearMarks(Touched(w))
  /\ Return(w)
  /\ faults' = faults + 1
  /\ UNCHANGED <<paprika, store, synced, cycle, edits, history>>

\* The flush succeeds; its continuation applies the operations to the store.
FlushAndApply(w) ==
  /\ wpc[w] = "buffered"
  /\ FlushAll
  /\ store' = [u \in Uid |-> IF u \in Touched(w) THEN wops[w][u] ELSE store[u]]
  /\ committed' = [u \in Uid |-> IF u \in Touched(w) THEN wops[w][u] ELSE committed[u]]
  /\ Return(w)
  /\ UNCHANGED <<paprika, synced, marks, cycle, edits, faults, clean>>

\* The flush fails: the marks are cleared and the store is left alone.
FlushFail(w, L) ==
  /\ wpc[w] = "buffered"
  /\ faults < MaxFaults
  /\ L # Buffered
  /\ FlushSome(L)
  /\ ClearMarks(Touched(w))
  /\ Return(w)
  /\ faults' = faults + 1
  /\ UNCHANGED <<paprika, store, synced, cycle, edits, history>>

(***************************************************************************)
(* The reconcile.                                                          *)
(***************************************************************************)

\* What the reconcile has collected is garbage once it returns.
Forget == raw' = Empty /\ seen' = Empty /\ eff' = Empty

\* The server answers the list request.
SyncList ==
  /\ spc = "idle"
  /\ raw' = listed
  /\ spc' = "listed"
  /\ UNCHANGED <<paprika, cache, store, synced, marks, tools, seen, eff, edits, faults, history>>

\* The response arrives: getAll seeds its result with the buffer ...
SyncGetAll ==
  /\ spc = "listed"
  /\ seen' = buf
  /\ spc' = "reading"
  /\ clean' = [u \in Uid |-> clean[u] /\ ~InCommit(u)]
  /\ UNCHANGED <<paprika, cache, store, synced, marks, tools, raw, eff, edits, faults, committed>>

\* ... and reads the files of the other rows.
SyncRead ==
  /\ spc = "reading"
  /\ seen' = [u \in Uid |-> IF seen[u] # None THEN seen[u] ELSE disk[u]]
  /\ spc' = "read"
  /\ UNCHANGED <<paprika, cache, store, synced, marks, tools, raw, eff, edits, faults, history>>

\* Mutant: the list is not filtered through the pending deletes.
MutEffective ==
  [u \in Uid |-> IF mark[u] = "upsert" THEN seen[u] ELSE raw[u]]

\* The rows a cycle installs: the list without the shielded rows, and the
\* cached copies of the pending upserts.  The catalog variant has no
\* pending-delete filter.
Effective ==
  LET hidden(u) == IF Reconcile = "replaceAll" THEN mark[u] # "none" ELSE mark[u] = "upsert"
  IN  [u \in Uid |-> IF mark[u] = "upsert" THEN seen[u]
                     ELSE IF hidden(u) THEN None ELSE raw[u]]

\* Rows in the cache that are not among a set of rows to install.
Orphans(rows) == {u \in Uid : seen[u] # None /\ rows[u] = None}

\* With nothing to prune the continuation loads the store at once.
SyncFilterLoad ==
  /\ spc = "read"
  /\ Orphans(Effective) = {}
  /\ eff' = Effective
  /\ store' = Effective
  /\ synced' = TRUE
  /\ spc' = "loaded"
  /\ UNCHANGED <<paprika, cache, marks, tools, raw, seen, edits, faults, history>>

\* Otherwise the removes queue on the mutex first.
SyncFilterPrune ==
  /\ spc = "read"
  /\ Orphans(Effective) # {}
  /\ eff' = Effective
  /\ spc' = "pruning"
  /\ UNCHANGED <<paprika, cache, store, synced, marks, tools, raw, seen, edits, faults, history>>

\* The orphans are gone; store.load replaces every row.
SyncPruneLoad ==
  /\ spc = "pruning"
  /\ RemoveRows(Orphans(eff))
  /\ store' = eff
  /\ synced' = TRUE
  /\ spc' = "loaded"
  /\ UNCHANGED <<paprika, marks, tools, raw, seen, eff, edits, faults, history>>

\* Mutant: a row that is on the list is confirmed, whatever it shows.
MutObserved == {u \in Uid : raw[u] # None /\ mark[u] = "upsert"}

\* The uids whose pending upsert the list confirms.
Observed ==
  {u \in Uid : /\ raw[u] # None
               /\ mark[u] = "upsert"
               /\ Reconcile = "replaceAll" => seen[u] = raw[u]}

\* The installed rows are put back in the cache, then confirmed marks are cleared.
SyncPuts ==
  /\ spc = "loaded"
  /\ buf' = [u \in Uid |-> IF eff[u] # None THEN eff[u] ELSE buf[u]]
  /\ ClearMarks(Observed)
  /\ spc' = "reconciled"
  /\ Forget
  /\ UNCHANGED <<paprika, disk, store, synced, tools, edits, faults, history>>

\* The list, a read or an unlink fails.  A core-tier err aborts the cycle; the
\* cycle goes on to its flush and sweep after a reference or additive one.
SyncFail(R) ==
  /\ spc \in {"idle", "reading", "pruning"}
  /\ faults < MaxFaults
  /\ IF spc = "pruning"
       THEN R \in SUBSET Orphans(eff) /\ R # Orphans(eff) /\ RemoveRows(R)
       ELSE R = {} /\ UNCHANGED cache
  /\ spc' \in {"idle", "reconciled"}
  /\ Forget
  /\ faults' = faults + 1
  /\ UNCHANGED <<paprika, store, synced, marks, tools, edits, history>>

(***************************************************************************)
(* The end of the cycle, and a restart.                                    *)
(***************************************************************************)

\* Every other reconcile succeeded too: the cycle flushes this cache ...
CycleFlush ==
  /\ spc = "reconciled"
  /\ FlushAll
  /\ spc' = "flushed"
  /\ UNCHANGED <<paprika, store, synced, marks, tools, raw, seen, eff, edits, faults, history>>

\* ... and sweeps the marks past their TTL once every cache is flushed.
CycleSweep ==
  /\ spc = "flushed"
  /\ ClearMarks(Expired)
  /\ spc' = "idle"
  /\ UNCHANGED <<paprika, cache, store, synced, tools, raw, seen, eff, edits, faults, history>>

\* A later core reconcile or this flush fails: no sweep in this cycle.
CycleFail(L) ==
  /\ spc = "reconciled"
  /\ faults < MaxFaults
  /\ FlushSome(L)
  /\ spc' = "idle"
  /\ faults' = faults + 1
  /\ UNCHANGED <<paprika, store, synced, marks, tools, raw, seen, eff, edits, history>>

\* The process stops and boots again on whatever the files hold.
Crash(L) ==
  /\ faults < MaxFaults
  /\ L \in SUBSET Buffered
  /\ L # {} => (spc = "reconciled" \/ \E w \in Writer : wpc[w] = "buffered")
  /\ disk' = Written(L)
  /\ buf' = Empty
  /\ store' = HydratedStore(disk')
  /\ synced' = HydratedSynced(disk')
  /\ mark' = [u \in Uid |-> "none"]
  /\ age' = [u \in Uid |-> 0]
  /\ wpc' = [w \in Writer |-> "idle"]
  /\ wops' = [w \in Writer |-> NoOps]
  /\ spc' = "idle"
  /\ Forget
  /\ faults' = faults + 1
  /\ UNCHANGED <<paprika, edits, history>>

-----------------------------------------------------------------------------

Ops == [Uid -> Slot \cup {Untouched}]

Init ==
  /\ server \in [Uid -> Slot]
  /\ listed = server
  /\ disk \in [Uid -> Slot]
  /\ buf = Empty
  /\ store = HydratedStore(disk)
  /\ synced = HydratedSynced(disk)
  /\ mark = [u \in Uid |-> "none"]
  /\ age = [u \in Uid |-> 0]
  /\ wpc = [w \in Writer |-> "idle"]
  /\ wops = [w \in Writer |-> NoOps]
  /\ spc = "idle"
  /\ raw = Empty
  /\ seen = Empty
  /\ eff = Empty
  /\ edits = 0
  /\ faults = 0
  /\ committed = Empty
  /\ clean = [u \in Uid |-> FALSE]

ToolStep(w) == Mark(w) \/ CacheOps(w) \/ FlushAndApply(w)

SyncStep == \/ SyncList \/ SyncGetAll \/ SyncRead
            \/ SyncFilterLoad \/ SyncFilterPrune \/ SyncPruneLoad \/ SyncPuts
            \/ CycleFlush \/ CycleSweep

Fault ==
  \/ \E w \in Writer : \E S \in SUBSET Uid : CacheOpsFail(w, S) \/ FlushFail(w, S)
  \/ \E S \in SUBSET Uid : SyncFail(S) \/ CycleFail(S) \/ Crash(S)

Next ==
  \/ Tick
  \/ \E u \in Uid, r \in Slot : ExternalEdit(u, r)
  \/ \E u \in Uid : Propagate(u)
  \/ \E w \in Writer, ops \in Ops : Save(w, ops)
  \/ \E w \in Writer : ToolStep(w)
  \/ SyncStep
  \/ Fault

Spec == Init /\ [][Next]_vars

\* The interval loop keeps starting cycles (server/sync-loop.ts), requests and
\* file operations complete, Paprika's list catches up, and time passes.
Fairness ==
  /\ WF_vars(Tick)
  /\ \A u \in Uid : WF_vars(Propagate(u))
  /\ \A w \in Writer : WF_vars(ToolStep(w))
  /\ WF_vars(SyncStep)

FairSpec == Spec /\ Fairness

-----------------------------------------------------------------------------

Types ==
  /\ server \in [Uid -> Slot]
  /\ listed \in [Uid -> Slot]
  /\ disk \in [Uid -> Slot]
  /\ buf \in [Uid -> Slot]
  /\ store \in [Uid -> Slot]
  /\ synced \in BOOLEAN
  /\ mark \in [Uid -> MarkKinds]
  /\ age \in [Uid -> 0..TTL]
  /\ wpc \in [Writer -> {"idle", "saved", "marked", "buffered"}]
  /\ wops \in [Writer -> Ops]
  /\ spc \in {"idle", "listed", "reading", "read", "pruning", "loaded", "reconciled", "flushed"}
  /\ raw \in [Uid -> Slot]
  /\ seen \in [Uid -> Slot]
  /\ eff \in [Uid -> Slot]
  /\ edits \in 0..MaxEdits
  /\ faults \in 0..MaxFaults
  /\ committed \in [Uid -> Slot]
  /\ clean \in [Uid -> BOOLEAN]

\* The type invariant: the types, and what an unsynced store is: no tool has read a row of it or saved
\* one, whether it was cold at boot, after a crash, or through cycles that failed (cache/hydrate.ts).
TypeOK ==
  /\ Types
  /\ ~synced => store = Empty /\ \A w \in Writer : wpc[w] = "idle"

\* A uid whose last commit has returned and whose mark is still set.
Pending(u) == mark[u] # "none" /\ ~InCommit(u)
Shielded(u) == Pending(u) /\ clean[u]

(***************************************************************************)
(* The purpose of the marks (entity/commit.ts, paprika/sync.ts): as long   *)
(* as the mark of a completed commit stands, no cycle, whatever list it    *)
(* works from, changes what the tools read for that row: an edit is not    *)
(* rolled back, a deleted row does not come back.  Stated of commits that  *)
(* overlap neither the cache window of a reconcile nor another commit on   *)
(* the row.                                                                *)
(***************************************************************************)
Shield == \A u \in Uid : Shielded(u) => store[u] = committed[u]

(***************************************************************************)
(* The same for the disk: a commit that has returned is on disk, whatever  *)
(* the buffers of later cycles and other commits hold, so that a restart   *)
(* at any moment hydrates the store with it (flush before store apply in   *)
(* entity/commit.ts, hydrateStore in cache/hydrate.ts).                    *)
(***************************************************************************)
DurableAck ==
  \A u \in Uid : Shielded(u) => disk[u] = committed[u] /\ View(u) = committed[u]

(***************************************************************************)
(* Observation-clearing (paprika/sync.ts, #92): a cycle takes a pending    *)
(* upsert's protection away only if the list it fetched shows what the     *)
(* commit wrote; a list with the row's earlier contents leaves the mark.   *)
(***************************************************************************)
ClearsOnlyConfirmed ==
  [][\A u \in Uid : SyncPuts /\ Shielded(u) /\ mark'[u] = "none" => raw[u] = committed[u]]_vars

(***************************************************************************)
(* Once edits and failures stop, the store, the cache and Paprika agree    *)
(* for good: no race, failed commit, aborted cycle or restart leaves a row *)
(* stale forever ("the next sync reconciles it", entity/commit.ts).        *)
(***************************************************************************)
Agreement == \A u \in Uid : store[u] = server[u] /\ View(u) = server[u]
Converges == <>[]Agreement

(***************************************************************************)
(* entity/commit.ts, without the proviso of Shield: "The pending mark      *)
(* shields a just-written UID from a sync cycle that reads a canonical     *)
(* list issued before the write propagated".                               *)
(***************************************************************************)
MarkAlwaysShields == \A u \in Uid : Pending(u) => store[u] = committed[u]
=============================================================================
