------------------------------ MODULE RecipeSync ------------------------------
(***************************************************************************)
(* The recipes, the one entity that syncs by DIFF-AND-FETCH: the recipe    *)
(* cache and its uid -> hash index (src/domains/recipe/disk.ts), the       *)
(* reconcile that fetches what differs from the index                      *)
(* (src/domains/recipe/syncs/recipe-sync.ts), the commit and the canonical *)
(* pull the recipe tools end with (src/domains/recipe/module.ts).          *)
(*                                                                         *)
(* The index decides what is fetched.  A uid whose index entry equals the  *)
(* list's is never looked at again, so everything here turns on the index  *)
(* and the store moving together.                                          *)
(*                                                                         *)
(* The operations of the cache queue on its mutex; `queue` is that queue.  *)
(* A put takes no I/O: it and what its continuation does run before any    *)
(* response or file operation is handled (Drained).                        *)
(***************************************************************************)
EXTENDS Naturals, Sequences, FiniteSets

CONSTANTS
  Uid,        \* recipes
  Body,       \* the contents a recipe can have; also their hashes
  None,       \* no recipe, no hash
  Purged,     \* what the server keeps of a recipe deleted for good
  Writer,     \* tool calls that may be in flight at the same time
  Cycle,      \* the sync cycle, as an owner of cache operations
  Failure,    \* which failures occur: subset of FailureKinds
  MaxEdits,   \* bound: writes accepted by the server, from tools and other devices
  MaxFaults   \* bound: failures

\* fetch: a list or a recipe request; write: a file operation of a flush;
\* unlink: the one of a remove; cycle: a later reconcile; crash: the process.
FailureKinds == {"fetch", "write", "unlink", "cycle", "crash"}

Recipe == [body : Body, trash : BOOLEAN]

ASSUME NamesAssumption == /\ None \notin Body \cup Recipe /\ Purged \notin Recipe /\ Purged # None
                          /\ None \notin Uid /\ Uid \cap Writer = {} /\ Cycle \notin Uid \cup Writer
ASSUME UidAssumption == IsFiniteSet(Uid)   \* the recipes of an account
ASSUME FailureAssumption == Failure \subseteq FailureKinds
ASSUME BoundAssumption == MaxEdits \in Nat /\ MaxFaults \in Nat

Slot == Recipe \cup {None}
Hash == Body \cup {None}

VARIABLES
  server,   \* Paprika: the recipe, in the trash or not
  listed,   \* Paprika: the recipe as its list shows it, which may lag
  disk,     \* <uid>.json files
  buf,      \* DiskCache._pending
  index,    \* index.json
  hashes,   \* RecipeDiskCache._hashes
  store,    \* RecipeStore._items
  synced,   \* RecipeStore._hasSynced
  mark,     \* EntityStore._pendingWrites: the kind of mark, if any
  old,      \* the marks that have reached their TTL
  queue,    \* the cache mutex: the operation that runs, and those that wait
  pc,       \* where each tool call is
  op,       \* its recipe, what it writes (None to remove), and whether it is a pull
  spc,      \* where the recipe reconcile is
  entries,  \* the list it works from
  task,     \* what it does about each uid
  got,      \* the recipes fetched so far
  edits, faults,
  alone,    \* history: the commit of a call has had its recipe to itself
  promise   \* history: what the last undisturbed commit of a recipe wrote

paprika == <<server, listed>>
files   == <<disk, index>>
memory  == <<buf, hashes>>
marks   == <<mark, old>>
calls   == <<pc, op>>
cycle   == <<spc, entries, task, got>>
history == <<alone, promise>>
bounds  == <<edits, faults>>
vars == <<server, listed, disk, buf, index, hashes, store, synced, mark, old, queue, pc, op,
          spc, entries, task, got, edits, faults, alone, promise>>

Empty == [u \in Uid |-> None]
HashOf(r) == IF r \in Recipe THEN r.body ELSE None
Live(r) == IF r \in Recipe /\ ~r.trash THEN r.body ELSE None   \* all that Paprika lists

\* What the reconcile has collected is garbage once it returns.
Forget == entries' = Empty /\ got' = Empty /\ task' = [u \in Uid |-> "none"]

(***************************************************************************)
(* The mutex.                                                              *)
(***************************************************************************)

Job(kind, by) == [kind |-> kind, by |-> by]
Running(kind, by) == queue # <<>> /\ Head(queue) = Job(kind, by)

InTask(states) == {u \in Uid : task[u] \in states}
Fetched == spc = "fetching" /\ InTask({"asked", "answered", "landing"}) = {}
Dropped == spc = "dropping" /\ InTask({"dropping"}) = {}

\* No continuation is due: the next thing to happen is an event.
Drained == /\ queue # <<>> => Head(queue).kind \notin {"put", "land"}
           /\ ~Fetched /\ ~Dropped

Fail(kind) == kind \in Failure /\ faults < MaxFaults /\ faults' = faults + 1

(***************************************************************************)
(* Paprika's server, as this program sees it.                              *)
(***************************************************************************)

\* Another device creates, edits, trashes, restores or purges a recipe.
ExternalEdit(u, r) ==
  /\ Drained
  /\ edits < MaxEdits
  /\ server[u] \notin {r, Purged}
  /\ r = Purged => server[u] # None /\ server[u].trash
  /\ server[u] = None => r # Purged /\ ~r.trash
  /\ server' = [server EXCEPT ![u] = r]
  /\ edits' = edits + 1
  /\ UNCHANGED <<listed, files, memory, store, synced, marks, queue, calls, cycle, faults, history>>

\* The list catches up with a recipe.
Propagate(u) ==
  /\ Drained
  /\ listed[u] # server[u]
  /\ listed' = [listed EXCEPT ![u] = server[u]]
  /\ UNCHANGED <<server, files, memory, store, synced, marks, queue, calls, cycle, bounds, history>>

\* A mark reaches its TTL.
Age(u) ==
  /\ Drained
  /\ mark[u] # "none" /\ u \notin old
  /\ old' = old \cup {u}
  /\ UNCHANGED <<paprika, files, memory, store, synced, mark, queue, calls, cycle, bounds, history>>

(***************************************************************************)
(* The recipe tools.                                                       *)
(***************************************************************************)

NoOp == [uid |-> None, row |-> None, pull |-> FALSE]
Commit(u, r) == [uid |-> u, row |-> r, pull |-> FALSE]
Pull(u, r) == [uid |-> u, row |-> r, pull |-> TRUE]

Return(w) == pc' = [pc EXCEPT ![w] = "idle"] /\ op' = [op EXCEPT ![w] = NoOp]
           /\ alone' = [alone EXCEPT ![w] = FALSE]

\* The server accepts what a tool saves.
Save(w, o) ==
  /\ edits < MaxEdits
  /\ edits' = edits + 1
  /\ server[o.uid] # Purged
  /\ server' = [server EXCEPT ![o.uid] = IF o.row = None THEN Purged ELSE o.row]
  /\ pc' = [pc EXCEPT ![w] = "saved"]
  /\ op' = [op EXCEPT ![w] = o]
  /\ UNCHANGED <<listed, files, memory, store, synced, marks, queue, cycle, faults, history>>

\* create, under a fresh uid.
CreateRecipe(w, u, b) ==
  /\ Drained /\ pc[w] = "idle" /\ synced
  /\ server[u] = None
  /\ Save(w, Commit(u, [body |-> b, trash |-> FALSE]))

\* update, rate, categorize, favorite: the stored recipe with other contents.
UpdateRecipe(w, u, b) ==
  /\ Drained /\ pc[w] = "idle" /\ synced
  /\ store[u] # None
  /\ Save(w, Commit(u, [store[u] EXCEPT !.body = b]))

\* trash: the stored recipe, moved to the trash.
TrashRecipe(w, u) ==
  /\ Drained /\ pc[w] = "idle" /\ synced
  /\ store[u] # None /\ ~store[u].trash
  /\ Save(w, Commit(u, [store[u] EXCEPT !.trash = TRUE]))

\* restore and purge ask the server first ...
LookUp(w, u) ==
  /\ Drained /\ pc[w] = "idle" /\ synced
  /\ server[u] # None
  /\ pc' = [pc EXCEPT ![w] = "looked"]
  /\ op' = [op EXCEPT ![w] = Pull(u, IF server[u] = Purged THEN None ELSE server[u])]
  /\ UNCHANGED <<paprika, files, memory, store, synced, marks, queue, cycle, bounds, history>>

\* ... a recipe in the trash is saved out of it ...
RestoreRecipe(w) ==
  /\ Drained /\ pc[w] = "looked"
  /\ op[w].row # None /\ op[w].row.trash
  /\ Save(w, Commit(op[w].uid, [op[w].row EXCEPT !.trash = FALSE]))

\* ... or deleted for good ...
PurgeRecipe(w) ==
  /\ Drained /\ pc[w] = "looked"
  /\ op[w].row # None /\ op[w].row.trash
  /\ Save(w, Commit(op[w].uid, None))

\* ... and a recipe that is live or gone is pulled, if the store disagrees.
PullRecipe(w) ==
  /\ Drained /\ pc[w] = "looked"
  /\ op[w].row # None => ~op[w].row.trash
  /\ IF store[op[w].uid] = op[w].row
       THEN Return(w) /\ UNCHANGED <<queue, promise>>
       ELSE /\ pc' = [pc EXCEPT ![w] = "writing"]
            /\ queue' = Append(queue, Job(IF op[w].row = None THEN "remove" ELSE "put", w))
            /\ UNCHANGED <<op, history>>
  /\ UNCHANGED <<paprika, files, memory, store, synced, marks, cycle, bounds>>

\* Another call is writing the recipe, or the reconcile has plans for it.
Disturbed(w, u) == \/ \E v \in Writer \ {w} : pc[v] = "writing" /\ op[v].uid = u
                   \/ task[u] # "none"

\* The save's response is back: mark the recipe, then queue the cache operation.
Respond(w) ==
  /\ Drained /\ pc[w] = "saved"
  /\ LET u == op[w].uid
         r == op[w].row
     IN  /\ mark' = [mark EXCEPT ![u] = IF r = None \/ r.trash THEN "delete" ELSE "upsert"]
         /\ old' = old \ {u}
         /\ queue' = Append(queue, Job(IF r = None THEN "remove" ELSE "put", w))
         /\ alone' = [alone EXCEPT ![w] = ~Disturbed(w, u)]
         /\ promise' = [promise EXCEPT ![u] = "broken"]
  /\ pc' = [pc EXCEPT ![w] = "writing"]
  /\ UNCHANGED <<paprika, files, memory, store, synced, op, cycle, bounds>>

(***************************************************************************)
(* The cache operations of a tool call.                                    *)
(***************************************************************************)

\* put: the buffer and the hash index, at once.
RunPut(w) ==
  /\ Running("put", w)
  /\ buf' = [buf EXCEPT ![op[w].uid] = op[w].row]
  /\ hashes' = [hashes EXCEPT ![op[w].uid] = op[w].row.body]
  /\ queue' = Append(Tail(queue), Job("flush", w))
  /\ UNCHANGED <<paprika, files, store, synced, marks, calls, cycle, bounds, history>>

\* remove: the file, then the buffer and the hash.
RunRemove(w) ==
  /\ Drained /\ Running("remove", w)
  /\ disk' = [disk EXCEPT ![op[w].uid] = None]
  /\ buf' = [buf EXCEPT ![op[w].uid] = None]
  /\ hashes' = [hashes EXCEPT ![op[w].uid] = None]
  /\ queue' = Append(Tail(queue), Job("flush", w))
  /\ UNCHANGED <<paprika, index, store, synced, marks, calls, cycle, bounds, history>>

\* A failed commit drops its mark; a failed pull has none.
GiveUp(w) ==
  /\ IF op[w].pull
       THEN UNCHANGED marks
       ELSE mark' = [mark EXCEPT ![op[w].uid] = "none"] /\ old' = old \ {op[w].uid}
  /\ Return(w)

RunRemoveFail(w) ==
  /\ Drained /\ Running("remove", w)
  /\ Fail("unlink")
  /\ GiveUp(w)
  /\ queue' = Tail(queue)
  /\ UNCHANGED <<paprika, files, memory, store, synced, cycle, edits, promise>>

Buffered == {u \in Uid : buf[u] # None}
Written(L) == [u \in Uid |-> IF u \in L THEN buf[u] ELSE disk[u]]

\* _writePending: the buffered files, and then the whole index.
WritePending == disk' = Written(Buffered) /\ buf' = Empty /\ index' = hashes

\* Mutant: the index is written next to the files, not after them.
MutWritePendingFail(L) ==
  /\ L \in SUBSET Buffered
  /\ disk' = Written(L)
  /\ index' = hashes
  /\ UNCHANGED buf

\* A data file fails, the buffer stays; or only the index does.
WritePendingFail(L) ==
  /\ L \in SUBSET Buffered
  /\ disk' = Written(L)
  /\ buf' \in {buf} \cup (IF L = Buffered THEN {Empty} ELSE {})
  /\ L = Buffered => buf' = Empty
  /\ UNCHANGED index

\* The flush is done: the store follows.
RunFlush(w) ==
  /\ Drained /\ Running("flush", w)
  /\ WritePending
  /\ store' = [store EXCEPT ![op[w].uid] = op[w].row]
  /\ promise' = [promise EXCEPT ![op[w].uid] =
                   IF alone[w] /\ ~Disturbed(w, op[w].uid) THEN Live(op[w].row) ELSE "broken"]
  /\ Return(w)
  /\ queue' = Tail(queue)
  /\ UNCHANGED <<paprika, hashes, synced, marks, cycle, bounds>>

RunFlushFail(w, L) ==
  /\ Drained /\ Running("flush", w)
  /\ Fail("write")
  /\ WritePendingFail(L)
  /\ GiveUp(w)
  /\ queue' = Tail(queue)
  /\ UNCHANGED <<paprika, hashes, store, synced, cycle, edits, promise>>

(***************************************************************************)
(* The reconcile.                                                          *)
(***************************************************************************)

EndCycle == spc' = "idle" /\ Forget

\* The server answers the list request.
SyncList ==
  /\ Drained /\ spc = "idle"
  /\ entries' = [u \in Uid |-> Live(listed[u])]
  /\ spc' = "listed"
  /\ UNCHANGED <<paprika, files, memory, store, synced, marks, queue, calls, task, got, bounds, history>>

\* Mutant: the diff is not filtered through the marks.
MutSyncDiff ==
  LET wanted(u) == entries[u] \notin {None, hashes[u]}
      gone(u)   == hashes[u] # None /\ entries[u] = None
  IN  /\ Drained /\ spc = "listed"
      /\ task' = [u \in Uid |-> IF wanted(u) THEN "asked" ELSE IF gone(u) THEN "gone" ELSE "none"]
      /\ spc' = "fetching"
      /\ UNCHANGED <<paprika, files, memory, store, synced, marks, queue, calls, entries, got, bounds, history>>

\* diff, filtered through the marks: a pending row is not fetched; a pending
\* delete that the server no longer lists is removed.
SyncDiff ==
  LET wanted(u) == entries[u] \notin {None, hashes[u]} /\ mark[u] = "none"
      gone(u)   == hashes[u] # None /\ entries[u] = None /\ mark[u] # "upsert"
  IN  /\ Drained /\ spc = "listed"
      /\ task' = [u \in Uid |-> IF wanted(u) THEN "asked" ELSE IF gone(u) THEN "gone" ELSE "none"]
      /\ spc' = "fetching"
      /\ UNCHANGED <<paprika, files, memory, store, synced, marks, queue, calls, entries, got, bounds, history>>

\* Mutant: what the server keeps of a purged recipe is taken for a recipe.
MutSyncFetch(u, r) ==
  /\ Drained /\ task[u] = "asked"
  /\ r \in {server[u], listed[u]}
  /\ task' = [task EXCEPT ![u] = "answered"]
  /\ got' = [got EXCEPT ![u] = r]
  /\ UNCHANGED <<paprika, files, memory, store, synced, marks, queue, calls, spc, entries, bounds, history>>

\* The server answers the request for a recipe, perhaps with what the list shows ...
SyncFetch(u, r) ==
  /\ Drained /\ task[u] = "asked"
  /\ r \in {server[u], listed[u]}
  /\ task' = [task EXCEPT ![u] = IF r \in Recipe THEN "answered" ELSE "failed"]
  /\ got' = [got EXCEPT ![u] = IF r \in Recipe THEN r ELSE None]
  /\ UNCHANGED <<paprika, files, memory, store, synced, marks, queue, calls, spc, entries, bounds, history>>

\* ... or does not ...
SyncFetchFail(u) ==
  /\ Drained /\ task[u] = "asked"
  /\ Fail("fetch")
  /\ task' = [task EXCEPT ![u] = "failed"]
  /\ UNCHANGED <<paprika, files, memory, store, synced, marks, queue, calls, spc, entries, got, edits, history>>

\* ... the response arrives and its put queues on the mutex ...
SyncArrive(u) ==
  /\ Drained /\ task[u] = "answered"
  /\ task' = [task EXCEPT ![u] = "landing"]
  /\ queue' = Append(queue, Job("land", u))
  /\ UNCHANGED <<paprika, files, memory, store, synced, marks, calls, spc, entries, got, bounds, history>>

\* Mutant: the put lands and its store set is skipped.
MutRunLand(u) ==
  /\ Running("land", u)
  /\ buf' = [buf EXCEPT ![u] = got[u]]
  /\ hashes' = [hashes EXCEPT ![u] = got[u].body]
  /\ task' = [task EXCEPT ![u] = "landed"]
  /\ queue' = Tail(queue)
  /\ UNCHANGED <<paprika, files, store, synced, marks, calls, spc, entries, got, bounds, history>>

\* ... and the store follows the put.
RunLand(u) ==
  /\ Running("land", u)
  /\ buf' = [buf EXCEPT ![u] = got[u]]
  /\ hashes' = [hashes EXCEPT ![u] = got[u].body]
  /\ store' = [store EXCEPT ![u] = got[u]]
  /\ task' = [task EXCEPT ![u] = "landed"]
  /\ queue' = Tail(queue)
  /\ UNCHANGED <<paprika, files, synced, marks, calls, spc, entries, got, bounds, history>>

\* The removes, in any order.
Removes(U) == {s \in [1..Cardinality(U) -> {Job("drop", u) : u \in U}] :
                 \A u \in U : \E i \in DOMAIN s : s[i] = Job("drop", u)}

\* Every fetch has settled.  All landed: on to the removes.
SyncLanded ==
  /\ Fetched /\ InTask({"failed"}) = {}
  /\ \E s \in Removes(InTask({"gone"})) : queue' = queue \o s
  /\ task' = [u \in Uid |-> IF task[u] = "gone" THEN "dropping" ELSE task[u]]
  /\ spc' = "dropping"
  /\ UNCHANGED <<paprika, files, memory, store, synced, marks, calls, entries, got, bounds, history>>

\* Mutant: the cycle aborts without flushing what landed.
MutSyncPartial ==
  /\ Fetched /\ InTask({"failed"}) # {} /\ InTask({"landed"}) # {}
  /\ EndCycle
  /\ UNCHANGED <<paprika, files, memory, store, synced, marks, queue, calls, bounds, history>>

\* Some landed: they are flushed, and the cycle ends with a PartialSyncError.
SyncPartial ==
  /\ Fetched /\ InTask({"failed"}) # {} /\ InTask({"landed"}) # {}
  /\ queue' = Append(queue, Job("flush", Cycle))
  /\ spc' = "partial"
  /\ UNCHANGED <<paprika, files, memory, store, synced, marks, calls, entries, task, got, bounds, history>>

\* None landed: the cycle aborts.
SyncNothing ==
  /\ Fetched /\ InTask({"failed"}) # {} /\ InTask({"landed"}) = {}
  /\ EndCycle
  /\ UNCHANGED <<paprika, files, memory, store, synced, marks, queue, calls, bounds, history>>

\* Mutant: the store delete of a remove is skipped.
MutRunDrop(u) ==
  /\ Drained /\ Running("drop", u)
  /\ disk' = [disk EXCEPT ![u] = None]
  /\ buf' = [buf EXCEPT ![u] = None]
  /\ hashes' = [hashes EXCEPT ![u] = None]
  /\ task' = [task EXCEPT ![u] = "dropped"]
  /\ queue' = Tail(queue)
  /\ UNCHANGED <<paprika, index, store, synced, marks, calls, spc, entries, got, bounds, history>>

\* A remove reaches the disk, and the store follows it.
RunDrop(u) ==
  /\ Drained /\ Running("drop", u)
  /\ disk' = [disk EXCEPT ![u] = None]
  /\ buf' = [buf EXCEPT ![u] = None]
  /\ hashes' = [hashes EXCEPT ![u] = None]
  /\ store' = [store EXCEPT ![u] = None]
  /\ task' = [task EXCEPT ![u] = "dropped"]
  /\ queue' = Tail(queue)
  /\ UNCHANGED <<paprika, index, synced, marks, calls, spc, entries, got, bounds, history>>

RunDropFail(u) ==
  /\ Drained /\ Running("drop", u)
  /\ Fail("unlink")
  /\ task' = [task EXCEPT ![u] = "failed"]
  /\ queue' = Tail(queue)
  /\ UNCHANGED <<paprika, files, memory, store, synced, marks, calls, spc, entries, got, edits, history>>

\* The pending upserts the list confirms: it shows the hash the store has.
Observed == {u \in Uid : entries[u] # None /\ mark[u] = "upsert" /\ HashOf(store[u]) = entries[u]}

\* Every remove has settled, one with an error: the cycle aborts ...
SyncUndropped ==
  /\ Dropped /\ InTask({"failed"}) # {}
  /\ EndCycle
  /\ UNCHANGED <<paprika, files, memory, store, synced, marks, queue, calls, bounds, history>>

\* ... or the recipes are reconciled.
SyncFinish ==
  /\ Dropped /\ InTask({"failed"}) = {}
  /\ mark' = [u \in Uid |-> IF u \in Observed THEN "none" ELSE mark[u]]
  /\ old' = old \ Observed
  /\ synced' = TRUE
  /\ spc' = "reconciled"
  /\ Forget
  /\ UNCHANGED <<paprika, files, memory, store, queue, calls, bounds, history>>

\* The other reconciles are done: the cycle flushes ...
CycleFlush ==
  /\ Drained /\ spc = "reconciled"
  /\ queue' = Append(queue, Job("flush", Cycle))
  /\ spc' = "flushing"
  /\ UNCHANGED <<paprika, files, memory, store, synced, marks, calls, entries, task, got, bounds, history>>

RunCycleFlush ==
  /\ Drained /\ Running("flush", Cycle)
  /\ WritePending
  /\ queue' = Tail(queue)
  /\ IF spc = "partial" THEN EndCycle ELSE spc' = "flushed" /\ UNCHANGED <<entries, task, got>>
  /\ UNCHANGED <<paprika, hashes, store, synced, marks, calls, bounds, history>>

\* ... and, when every cache has been, sweeps the marks past their TTL.
CycleSweep ==
  /\ Drained /\ spc = "flushed"
  /\ mark' = [u \in Uid |-> IF u \in old THEN "none" ELSE mark[u]]
  /\ old' = {}
  /\ EndCycle
  /\ UNCHANGED <<paprika, files, memory, store, synced, queue, calls, bounds, history>>

RunCycleFlushFail(L) ==
  /\ Drained /\ Running("flush", Cycle)
  /\ Fail("write")
  /\ WritePendingFail(L)
  /\ queue' = Tail(queue)
  /\ EndCycle
  /\ UNCHANGED <<paprika, hashes, store, synced, marks, calls, edits, history>>

\* The list fails, or a later core reconcile: no flush, no sweep.
CycleFail ==
  /\ Drained
  /\ \/ spc = "idle" /\ Fail("fetch")
     \/ spc \in {"reconciled", "flushed"} /\ Fail("cycle")
  /\ EndCycle
  /\ UNCHANGED <<paprika, files, memory, store, synced, marks, queue, calls, edits, history>>

(***************************************************************************)
(* A restart: the store from the files, the hashes from index.json.        *)
(***************************************************************************)

\* The process stops, perhaps in the middle of a flush.
Crash(L) ==
  /\ Drained
  /\ Fail("crash")
  /\ IF queue # <<>> /\ Head(queue).kind = "flush"
       THEN /\ L \in SUBSET Buffered
            /\ disk' = Written(L)
            /\ index' \in IF L = Buffered THEN {index, hashes} ELSE {index}
       ELSE L = {} /\ UNCHANGED files
  /\ buf' = Empty
  /\ hashes' = index'
  /\ store' = disk'
  /\ synced' = (disk' # Empty)
  /\ mark' = [u \in Uid |-> "none"] /\ old' = {}
  /\ queue' = <<>>
  /\ pc' = [w \in Writer |-> "idle"] /\ op' = [w \in Writer |-> NoOp]
  /\ alone' = [w \in Writer |-> FALSE]
  /\ EndCycle
  /\ UNCHANGED <<paprika, edits, promise>>

-----------------------------------------------------------------------------

\* The program starts with an empty cache, or with the one it had.
Init ==
  /\ server \in [Uid -> {r \in Slot : r # None => ~r.trash}]
  /\ listed = server
  /\ disk \in {f \in [Uid -> Slot] : \A u \in Uid : f[u] \in {None, server[u]}}
  /\ buf = Empty
  /\ index = [u \in Uid |-> HashOf(disk[u])]
  /\ hashes = index
  /\ store = disk
  /\ synced = (disk # Empty)
  /\ mark = [u \in Uid |-> "none"]
  /\ old = {}
  /\ queue = <<>>
  /\ pc = [w \in Writer |-> "idle"]
  /\ op = [w \in Writer |-> NoOp]
  /\ spc = "idle"
  /\ entries = Empty
  /\ task = [u \in Uid |-> "none"]
  /\ got = Empty
  /\ edits = 0
  /\ faults = 0
  /\ alone = [w \in Writer |-> FALSE]
  /\ promise = [u \in Uid |-> "broken"]

ToolStart(w) == \E u \in Uid : \/ \E b \in Body : CreateRecipe(w, u, b) \/ UpdateRecipe(w, u, b)
                              \/ TrashRecipe(w, u) \/ LookUp(w, u)

ToolStep(w) == \/ RestoreRecipe(w) \/ PurgeRecipe(w) \/ PullRecipe(w) \/ Respond(w)
               \/ RunPut(w) \/ RunRemove(w) \/ RunFlush(w)

SyncStep ==
  \/ SyncList \/ SyncDiff \/ SyncLanded \/ SyncPartial \/ SyncNothing \/ SyncUndropped \/ SyncFinish
  \/ CycleFlush \/ RunCycleFlush \/ CycleSweep
  \/ \E u \in Uid, r \in Recipe \cup {Purged} : SyncFetch(u, r)
  \/ \E u \in Uid : SyncArrive(u) \/ RunLand(u) \/ RunDrop(u)

Fault ==
  \/ \E w \in Writer : RunRemoveFail(w) \/ \E L \in SUBSET Uid : RunFlushFail(w, L)
  \/ \E u \in Uid : SyncFetchFail(u) \/ RunDropFail(u)
  \/ \E L \in SUBSET Uid : RunCycleFlushFail(L) \/ Crash(L)
  \/ CycleFail

Next ==
  \/ \E u \in Uid : Propagate(u) \/ Age(u) \/ \E r \in Recipe \cup {Purged} : ExternalEdit(u, r)
  \/ \E w \in Writer : ToolStart(w) \/ ToolStep(w)
  \/ SyncStep
  \/ Fault

Spec == Init /\ [][Next]_vars

\* Requests and file operations complete, the interval loop keeps starting
\* cycles, the list catches up and marks age.  Strong, because an event that is
\* due waits, disabled, for the continuations that run before it (Drained); the
\* event loop gets to it.
Fairness ==
  /\ \A u \in Uid : SF_vars(Propagate(u)) /\ SF_vars(Age(u))
  /\ \A w \in Writer : SF_vars(ToolStep(w))
  /\ WF_vars(SyncStep)

FairSpec == Spec /\ Fairness

-----------------------------------------------------------------------------

Jobs == [kind : {"put", "remove", "flush"}, by : Writer]
        \cup [kind : {"land", "drop"}, by : Uid] \cup {Job("flush", Cycle)}

TypeOK ==
  /\ server \in [Uid -> Slot \cup {Purged}] /\ listed \in [Uid -> Slot \cup {Purged}]
  /\ disk \in [Uid -> Slot] /\ buf \in [Uid -> Slot]
  /\ index \in [Uid -> Hash] /\ hashes \in [Uid -> Hash]
  /\ store \in [Uid -> Slot] /\ synced \in BOOLEAN
  /\ mark \in [Uid -> {"none", "upsert", "delete"}] /\ old \subseteq Uid
  /\ queue \in Seq(Jobs)
  /\ pc \in [Writer -> {"idle", "looked", "saved", "writing"}]
  /\ op \in [Writer -> [uid : Uid \cup {None}, row : Slot, pull : BOOLEAN]]
  /\ spc \in {"idle", "listed", "fetching", "dropping", "partial", "reconciled", "flushing", "flushed"}
  /\ entries \in [Uid -> Hash]
  /\ task \in [Uid -> {"none", "asked", "answered", "landing", "landed", "failed",
                       "gone", "dropping", "dropped"}]
  /\ got \in [Uid -> Slot]
  /\ edits \in 0..MaxEdits /\ faults \in 0..MaxFaults
  /\ alone \in [Writer -> BOOLEAN]
  /\ promise \in [Uid -> Hash \cup {"broken"}]

\* Nothing that is under way concerns the recipe.
Quiet(u) == /\ task[u] = "none"
            /\ \A w \in Writer : ~(pc[w] = "writing" /\ op[w].uid = u)

(***************************************************************************)
(* "A put that landed with its store set skipped would leave the index     *)
(* current but the store stale - and the next cycle's diff, trusting the   *)
(* index, would never re-fetch it" (recipe-sync.ts).  When nothing is      *)
(* under way for a recipe, an index entry that is what the server has      *)
(* stands for a recipe the tools see that way.                             *)
(***************************************************************************)
IndexTruthful ==
  \A u \in Uid : Quiet(u) /\ hashes[u] # None /\ hashes[u] = HashOf(server[u])
                  => HashOf(store[u]) = hashes[u]

(***************************************************************************)
(* Files before index (RecipeDiskCache._writePending): index.json gains an *)
(* entry only when the file it stands for is there with those contents, so *)
(* that a restart does not trust a hash it has no recipe for.              *)
(***************************************************************************)
IndexAfterFile ==
  [][\A u \in Uid : index'[u] \notin {None, index[u]} => HashOf(disk'[u]) = index'[u]]_vars

(***************************************************************************)
(* Partial progress (#483, recipe-sync.ts): when a cycle aborts because    *)
(* some recipe could not be fetched, the ones that landed are on disk and  *)
(* in the index, so that the next diff asks only for what is missing,      *)
(* "even after a restart".                                                 *)
(***************************************************************************)
PartialProgress ==
  [][\A u \in Uid : task[u] = "landed" /\ spc \in {"fetching", "partial"} /\ spc' = "idle"
                     /\ faults' = faults
                       => index'[u] = hashes[u] /\ HashOf(disk'[u]) = hashes[u]]_vars

(***************************************************************************)
(* While the mark of a completed commit stands, no cycle brings back what  *)
(* the commit replaced or trashed, whatever list and whatever responses it *)
(* works from.  Stated of commits that had the recipe to themselves.       *)
(***************************************************************************)
Shield ==
  \A u \in Uid : mark[u] # "none" /\ promise[u] # "broken" => Live(store[u]) = promise[u]

(***************************************************************************)
(* Once edits and failures stop, what Paprika lists is what the store has, *)
(* and the tools see nothing that Paprika does not have, for good.  (The   *)
(* trash flag of a listed recipe is left out: see the README.)             *)
(***************************************************************************)
Agreement ==
  \A u \in Uid : IF Live(server[u]) = None THEN Live(store[u]) = None
                ELSE HashOf(store[u]) = Live(server[u])
Converges == <>[]Agreement
=============================================================================
