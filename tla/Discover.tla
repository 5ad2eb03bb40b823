---- MODULE Discover ----
(***************************************************************************)
(* Semantic search: a vector index derived from the recipe store.  Writes, *)
(* the sync and category changes announce themselves; the handlers do not  *)
(* wait for each other and share one mutex around the index.  On disk the  *)
(* index, the hash map that says what it was built from, and the model it  *)
(* was built with are three files, written one after the other.            *)
(***************************************************************************)
EXTENDS Naturals, Sequences, FiniteSets, SequencesExt

CONSTANTS
  Recipe,
  Categorized,    \* the recipes filed under the one category
  Trashed,        \* a recipe that is in the trash, or gone
  MaxVersion,     \* bound: contents a recipe can have
  MaxModel,       \* bound: embedding models an operator goes through
  MaxEdits,       \* bound: edits and cycles that change something
  MaxIndexFaults, \* bound: failed calls, failed writes, corrupt files
  MaxBoots        \* bound: restarts and crashes

ASSUME DiscoverAssumption ==
  /\ IsFiniteSet(Recipe)
  /\ Categorized \subseteq Recipe /\ MaxVersion \in Nat /\ Trashed \notin 0..MaxVersion
  /\ MaxModel \in Nat \ {0} /\ {MaxEdits, MaxIndexFaults, MaxBoots} \subseteq Nat

VARIABLES
  content,        \* the recipe store: its contents, or Trashed
  category,       \* the category: times it was renamed, Deleted or Gone
  vectors,        \* the index: recipe -> the text embedded and the model that did it
  hashes,         \* the hash map: recipe -> the text
  hashFile, metaFile,   \* the hash map and the model, on disk
  model,          \* the model this process is configured with
  jobs,           \* the mutex: the one that holds it, then those that wait
  step,           \* where the holder is, and what it embeds
  pending,        \* reconcilePending
  boot,           \* init, reset (the index is recreated, not yet the hash map), reconcile, or up
  torn,           \* history: recipes whose files disagreed at a restart
  overtaken,      \* history: recipes of which a newer announcement was already waiting
  failed,         \* history: what failed since the index last agreed with its hash map at a boot
  edits, indexFaults, boots

indexState == <<vectors, hashes, hashFile, metaFile, jobs, step, pending, boot, torn, overtaken, failed>>
discoverVars == <<content, category, model, indexState, edits, indexFaults, boots>>

Deleted == MaxEdits + 1    \* by a tool
Gone == MaxEdits + 2       \* found missing by a cycle
Text == [version : 0..MaxVersion, name : 0..Gone]
Models == 1..MaxModel
NoStep == [at |-> "free", batch |-> [r \in {} |-> 0]]

PartialOn(S, f) == DOMAIN f \subseteq Recipe /\ \A r \in DOMAIN f : f[r] \in S
DiscoverTypeOK ==
  /\ content \in [Recipe -> 0..MaxVersion \cup {Trashed}] /\ category \in 0..Gone
  /\ PartialOn([text : Text, by : Models], vectors) /\ PartialOn(Text, hashes) /\ PartialOn(Text, hashFile)
  /\ metaFile \in 0..MaxModel /\ model \in Models /\ pending \in BOOLEAN
  /\ \A k \in 1..Len(jobs) : /\ jobs[k].op \in {"index", "remove"}
                             /\ PartialOn(0..MaxVersion, jobs[k].want) /\ PartialOn(0..MaxVersion, jobs[k].after)
  /\ step.at \in {"free", "embed", "put", "hashes", "meta"} /\ PartialOn(Text, step.batch)
  /\ boot \in {"init", "reset", "reconcile", "up"} /\ torn \cup overtaken \subseteq Recipe
  /\ edits \in 0..MaxEdits /\ indexFaults \in 0..MaxIndexFaults /\ boots \in 0..MaxBoots

\* The first boot: nothing on disk, recipes synced.
DiscoverInit ==
  /\ content = [r \in Recipe |-> 0] /\ category = 0
  /\ vectors = [r \in {} |-> 0] /\ hashes = [r \in {} |-> 0] /\ hashFile = [r \in {} |-> 0]
  /\ metaFile = 0 /\ model = 1
  /\ jobs = <<>> /\ step = NoStep /\ pending = FALSE /\ boot = "init"
  /\ torn = {} /\ overtaken = {} /\ failed = FALSE
  /\ edits = 0 /\ indexFaults = 0 /\ boots = 0

----------------------------------------------------------------------------

Active == {r \in Recipe : content[r] # Trashed}
Only(f, S) == [r \in DOMAIN f \cap S |-> f[r]]
Over(f, g) == [r \in DOMAIN f \cup DOMAIN g |-> IF r \in DOMAIN g THEN g[r] ELSE f[r]]
None == [r \in {} |-> 0]
Fault == indexFaults < MaxIndexFaults /\ indexFaults' = indexFaults + 1

\* recipeToEmbeddingText: the contents, and the category's name at the time of the call.
MutEmbeddingText(r, version) == [version |-> content[r], name |-> IF r \in Categorized THEN category ELSE 0]
EmbeddingText(r, version) == [version |-> version, name |-> IF r \in Categorized THEN category ELSE 0]

\* A call that waits for the mutex; after is what the handler indexes next, rest what it removes next.
IndexJob(want, reconcile, after) == [op |-> "index", want |-> want, reconcile |-> reconcile, after |-> after, rest |-> <<>>]
RemoveJob(uids) == [op |-> "remove", want |-> [r \in {Head(uids)} |-> 0], reconcile |-> FALSE, after |-> None, rest |-> Tail(uids)]
RemoveJobs(uids) == IF uids = <<>> THEN <<>> ELSE <<RemoveJob(uids)>>
IndexJobs(want) == IF DOMAIN want = {} THEN <<>> ELSE <<IndexJob(want, FALSE, None)>>

\* The whole index against the store; a short one is rebuilt, by forgetting what it was built from.
Short(now) == 10 * Cardinality(DOMAIN hashes) < 9 * Cardinality({r \in Recipe : now[r] # Trashed})
Everything(now) == Only(now, {r \in Recipe : now[r] # Trashed})

\* The handler of recipe-changed: a reconcile that failed is tried again first.
MutChanged(now, want) == IndexJobs(want)
Changed(now, want) == IF pending /\ DOMAIN Everything(now) # {} THEN <<IndexJob(Everything(now), TRUE, want)>> ELSE IndexJobs(want)
Retried(now) == /\ pending' = FALSE
                /\ hashes' = IF pending /\ Short(now) THEN None ELSE hashes

Edit == boot = "up" /\ edits < MaxEdits /\ edits' = edits + 1
Announced == UNCHANGED <<model, vectors, hashFile, metaFile, step, boot, torn, overtaken, failed, indexFaults, boots>>

\* A tool's commit, or a canonical pull: a live recipe is announced as changed, a trashed one as removed.
Commit(r) ==
  /\ Edit
  /\ \/ \E v \in 0..MaxVersion :
          /\ content' = [content EXCEPT ![r] = v]
          /\ jobs' = jobs \o Changed(content', [q \in {r} |-> v])
          /\ Retried(content')
     \/ /\ content' = [content EXCEPT ![r] = Trashed]
        /\ jobs' = Append(jobs, RemoveJob(<<r>>))
        /\ UNCHANGED <<pending, hashes>>
  /\ UNCHANGED category
  /\ Announced

\* The end of the recipe reconcile, which announces itself though nothing changed.  What it fetched
\* counts as changed, trashed or not; what is no longer listed is removed, one after the other.
Cycle(fetched, trashed, removed) ==
  /\ boot = "up"
  /\ IF fetched = None /\ removed = {} THEN UNCHANGED edits ELSE Edit
  /\ content' = [r \in Recipe |-> IF r \in removed \/ (r \in trashed /\ r \in DOMAIN fetched) THEN Trashed
                                  ELSE IF r \in DOMAIN fetched THEN fetched[r] ELSE content[r]]
  /\ \E uids \in SetToAllKPermutations(removed) :
       /\ Len(uids) = Cardinality(removed)
       /\ jobs' = jobs \o Changed(content', fetched) \o RemoveJobs(uids)
  /\ Retried(content')
  /\ UNCHANGED category
  /\ Announced

\* A rename, here or on another device, or a deletion there: the live recipes of the category, as they are now.
Rename ==
  /\ Edit
  /\ category < Deleted - 1
  /\ category' \in {category + 1, Gone}
  /\ jobs' = jobs \o IndexJobs(Only(content, Active \cap Categorized))
  /\ UNCHANGED <<content, pending, hashes>>
  /\ Announced

\* commitCategoryDelete announces nothing.
DeleteCategory ==
  /\ Edit
  /\ category < Deleted
  /\ category' = Deleted
  /\ UNCHANGED <<content, jobs, pending, hashes>>
  /\ Announced

----------------------------------------------------------------------------
\* The holder of the mutex.

Holder == Head(jobs)
At(s) == step.at = s /\ jobs # <<>>

\* The handler goes on behind those that already wait.
Next(job, ok) ==
  /\ jobs' = Tail(jobs) \o IndexJobs(job.after) \o RemoveJobs(job.rest)
  /\ overtaken' = overtaken \cup ((DOMAIN job.after \cup ToSet(job.rest)) \cap UNION {DOMAIN jobs[k].want : k \in 2..Len(jobs)})
  /\ step' = NoStep
  /\ pending' = (pending \/ (job.reconcile /\ ~ok))
  /\ boot' = IF boot = "reconcile" THEN "up" ELSE boot
Stay(s) == step' = [step EXCEPT !.at = s] /\ UNCHANGED <<jobs, pending, boot, overtaken>>

indexRest == <<content, category, model, torn, edits, boots>>

\* What differs from what was embedded, with the names of this moment; nothing, and it is done.
Drifted(want) == {r \in DOMAIN want : r \notin DOMAIN hashes \/ hashes[r] # EmbeddingText(r, want[r])}
StartIndex ==
  /\ At("free") /\ Holder.op = "index"
  /\ LET drifted == Drifted(Holder.want)
     IN IF drifted = {} THEN Next(Holder, TRUE)
        ELSE /\ step' = [at |-> "embed", batch |-> [r \in drifted |-> EmbeddingText(r, Holder.want[r])]]
             /\ UNCHANGED <<jobs, pending, boot, overtaken>>
  /\ UNCHANGED <<indexRest, vectors, hashes, hashFile, metaFile, failed, indexFaults>>

\* The provider answers; an embedding that is all zeros or not finite is left out.
Embed ==
  /\ At("embed")
  /\ \/ Stay("put") /\ UNCHANGED <<failed, indexFaults>>
     \/ /\ Fault /\ failed' = TRUE
        /\ \E r \in DOMAIN step.batch : step' = [at |-> "put", batch |-> Only(step.batch, Recipe \ {r})]
        /\ UNCHANGED <<jobs, pending, boot, overtaken>>
     \/ Fault /\ failed' = TRUE /\ Next(Holder, FALSE)
  /\ UNCHANGED <<indexRest, vectors, hashes, hashFile, metaFile>>

\* The transaction of the index: the file first, then memory, or neither.
MutPut ==
  /\ At("put")
  /\ \/ /\ vectors' = Over(vectors, [r \in DOMAIN step.batch |-> [text |-> step.batch[r], by |-> model]])
        /\ hashes' = Over(hashes, step.batch)
        /\ Stay("hashes") /\ UNCHANGED <<failed, indexFaults>>
     \/ Fault /\ failed' = TRUE /\ Next(Holder, FALSE) /\ hashes' = Over(hashes, step.batch) /\ UNCHANGED vectors
  /\ UNCHANGED <<indexRest, hashFile, metaFile>>
Put ==
  /\ At("put")
  /\ \/ /\ vectors' = Over(vectors, [r \in DOMAIN step.batch |-> [text |-> step.batch[r], by |-> model]])
        /\ hashes' = Over(hashes, step.batch)
        /\ Stay("hashes") /\ UNCHANGED <<failed, indexFaults>>
     \/ Fault /\ failed' = TRUE /\ Next(Holder, FALSE) /\ UNCHANGED <<vectors, hashes>>
  /\ UNCHANGED <<indexRest, hashFile, metaFile>>

\* removeRecipe: out of the index, then out of the hash map, if it was in it.
Unindex ==
  /\ At("free") /\ Holder.op = "remove"
  /\ \/ /\ vectors' = Only(vectors, Recipe \ DOMAIN Holder.want)
        /\ hashes' = Only(hashes, Recipe \ DOMAIN Holder.want)
        /\ IF hashes' = hashes THEN Next(Holder, TRUE) ELSE Stay("hashes")
        /\ UNCHANGED <<failed, indexFaults>>
     \/ Fault /\ failed' = TRUE /\ Next(Holder, FALSE) /\ UNCHANGED <<vectors, hashes>>
  /\ UNCHANGED <<indexRest, hashFile, metaFile>>

PersistHashes ==
  /\ At("hashes")
  /\ \/ /\ hashFile' = hashes
        /\ IF Holder.op = "index" THEN Stay("meta") ELSE Next(Holder, TRUE)
        /\ UNCHANGED <<failed, indexFaults>>
     \/ Fault /\ failed' = TRUE /\ Next(Holder, FALSE) /\ UNCHANGED hashFile
  /\ UNCHANGED <<indexRest, vectors, hashes, metaFile>>

PersistMeta ==
  /\ At("meta")
  /\ \/ metaFile' = model /\ Next(Holder, TRUE) /\ UNCHANGED <<failed, indexFaults>>
     \/ Fault /\ failed' = TRUE /\ Next(Holder, FALSE) /\ UNCHANGED metaFile
  /\ UNCHANGED <<indexRest, vectors, hashes, hashFile>>

----------------------------------------------------------------------------
\* Boot.

Disagree == {r \in Recipe : (r \in DOMAIN vectors) # (r \in DOMAIN hashFile)}
            \cup {r \in DOMAIN vectors \cap DOMAIN hashFile : vectors[r].text # hashFile[r]}
            \cup {r \in DOMAIN vectors : vectors[r].by # metaFile}

\* Down, by a crash at any point or by a stop, and up again; recipes change meanwhile, the operator
\* may choose another model.
Restart ==
  /\ boots < MaxBoots /\ boots' = boots + 1
  /\ boot' = "init"
  /\ torn' = torn \cup Disagree /\ overtaken' = {}
  /\ jobs' = <<>> /\ step' = NoStep /\ pending' = FALSE
  /\ hashes' = None
  /\ \E r \in Recipe, v \in 0..MaxVersion \cup {Trashed} : content' = [content EXCEPT ![r] = v]
  /\ category' \in {category} \cup {n \in {category + 1} : n < Deleted}
  /\ model' \in Models
  /\ failed' = FALSE
  /\ UNCHANGED <<vectors, hashFile, metaFile, edits, indexFaults>>

\* init.  A corrupt index is recreated, and then its hash map; a corrupt hash map is empty; another
\* model than the last one clears both, the hash map in memory only.
Invalidated == metaFile # 0 /\ metaFile # model
VectorInit ==
  /\ boot = "init"
  /\ \/ /\ Fault /\ DOMAIN vectors # {}
        /\ vectors' = None /\ boot' = "reset"
        /\ UNCHANGED <<hashes, hashFile>>
     \/ /\ boot' = "reconcile"
        /\ \E empty \in BOOLEAN :
             /\ IF empty THEN Fault ELSE UNCHANGED indexFaults
             /\ hashFile' = IF empty THEN None ELSE hashFile
             /\ hashes' = IF Invalidated \/ empty THEN None ELSE hashFile
             /\ vectors' = IF Invalidated THEN None ELSE vectors
  /\ UNCHANGED <<indexRest, metaFile, jobs, step, pending, overtaken, failed>>

ResetHashes ==
  /\ boot = "reset"
  /\ hashes' = None /\ hashFile' = None
  /\ boot' = "reconcile"
  /\ UNCHANGED <<indexRest, vectors, metaFile, jobs, step, pending, overtaken, failed, indexFaults>>

\* onIndexReady: the startup reconcile; the handlers are there once it has ended.
StartReconcile ==
  /\ boot = "reconcile" /\ jobs = <<>>
  /\ IF Active = {} THEN boot' = "up" /\ UNCHANGED <<jobs, hashes>>
     ELSE /\ jobs' = <<IndexJob(Everything(content), TRUE, None)>>
          /\ hashes' = IF Short(content) THEN None ELSE hashes
          /\ UNCHANGED boot
  /\ UNCHANGED <<indexRest, vectors, hashFile, metaFile, step, pending, overtaken, failed, indexFaults>>

IndexStep == StartIndex \/ Embed \/ Put \/ Unindex \/ PersistHashes \/ PersistMeta \/ VectorInit \/ ResetHashes \/ StartReconcile

QuietCycle == Cycle(None, {}, {})

DiscoverNext ==
  \/ \E r \in Recipe : Commit(r)
  \/ \E r \in Recipe, v \in 0..MaxVersion, trashed \in SUBSET Recipe : trashed \subseteq {r} /\ Cycle([q \in {r} |-> v], trashed, {})
  \/ \E removed \in SUBSET Recipe : Cycle(None, {}, removed)
  \/ Rename \/ DeleteCategory
  \/ IndexStep
  \/ Restart

\* Calls end, and the loop keeps cycling.
DiscoverFairness == WF_discoverVars(IndexStep) /\ WF_discoverVars(QuietCycle)

DiscoverSpec == DiscoverInit /\ [][DiscoverNext]_discoverVars /\ DiscoverFairness

----------------------------------------------------------------------------
\* A recipe is only taken for unchanged if its vector is of the very text the hash map names, through
\* failed calls, failed transactions and removals; a crash between the two files is the exception.
HashAgrees == \A r \in DOMAIN hashes \ torn : r \in DOMAIN vectors /\ vectors[r].text = hashes[r]

\* The index never mixes vectors of two models, which differ in dimension, unless a crash came between
\* the files (vector-store.ts, _postLoad).
OneModel == boot # "init" /\ torn = {} => \A r \in DOMAIN vectors : vectors[r].by = model

\* When the handlers have all ended and nothing failed, every live recipe is indexed as it is, however
\* writes, cycles and renames overlapped.  Not kept by the code: the order of a recipe's announcements
\* behind a retried reconcile or in a removal of several, and the name of a category a tool deleted.
Idle == boot = "up" /\ jobs = <<>>
FreshFor(r) == /\ r \in DOMAIN vectors /\ vectors[r].text.version = content[r]
               /\ category = Deleted \/ vectors[r].text = EmbeddingText(r, content[r])
Fresh == Idle /\ ~pending /\ ~failed /\ torn = {} => \A r \in Active \ overtaken : FreshFor(r)

\* The three together: the index is of one model and says of every recipe what it is.
IndexRight == HashAgrees /\ OneModel /\ Fresh

\* A startup reconcile that failed is made up for without an edit (discover/module.ts).
CatchesUp == pending ~> Active \subseteq DOMAIN hashes

\* vector-store.ts: without the reset "a restart before the first successful re-index would reload the
\* stale hash-index.json against the empty index, [...] leaving the index permanently empty".
NeverStaleAgainstEmpty == boot \in {"reconcile", "up"} /\ vectors = None => hashes = None
====
