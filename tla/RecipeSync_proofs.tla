---- MODULE RecipeSync_proofs ----
(***************************************************************************)
(* What TLAPS proves of RecipeSync, for any recipes, contents and tool     *)
(* calls, whichever failures occur and however many.                       *)
(*                                                                         *)
(* RecipeInv ties three things together: the jobs on the mutex and the     *)
(* calls and reconciles that wait for them; the hashes and the contents    *)
(* they stand for; and the mark of a completed commit and the plans that a *)
(* reconcile may still have for its recipe.                                *)
(***************************************************************************)
EXTENDS RecipeSync, FiniteSetTheorems, SequenceTheorems, TLAPS

\* Where the jobs of the mutex stand.
Place == 1..Len(queue)

\* A call has one job at a time, and so has a reconcile for each recipe.
Once == \A m, n \in Place : queue[m].by = queue[n].by => m = n

\* A job is that of a call, or of a reconcile, that waits for it.
Fits(j) ==
  /\ j.by \in Writer => pc[j.by] = "writing"
  /\ j.kind = "put" => op[j.by].row # None
  /\ j.kind = "land" => task[j.by] = "landing"
  /\ j.kind = "drop" => task[j.by] = "dropping"
  /\ j.by = Cycle => spc \in {"partial", "flushing"}

HasJob(b) == \E m \in Place : queue[m].by = b
QueueInv == Once /\ \A m \in Place : Fits(queue[m])

\* A call has a recipe, and while it writes a job.
CallInv(w) ==
  /\ pc[w] # "idle" => op[w].uid \in Uid
  /\ pc[w] = "saved" => ~op[w].pull
  /\ pc[w] = "writing" => HasJob(w)

\* What a reconcile does about a recipe agrees with where it is; what lands is a recipe.
TaskInv(u) ==
  /\ task[u] \in {"asked", "answered", "landing"} => spc = "fetching"
  /\ task[u] \in {"answered", "landing"} => got[u] # None
  /\ task[u] = "dropping" => spc = "dropping"

\* A hash in memory is that of the buffered recipe, of the file, or of the index the files are under.
HashInv(u) ==
  /\ buf[u] # None => hashes[u] = HashOf(buf[u])
  /\ buf[u] = None /\ hashes[u] \notin {None, index[u]} => HashOf(disk[u]) = hashes[u]
  /\ buf[u] = None /\ task[u] = "landed" => HashOf(disk[u]) = hashes[u]

\* The job at m comes to its end before the job at n does.
Before(m, n) == IF queue[m].kind = "flush" THEN queue[n].kind = "flush" => m < n
                                           ELSE queue[n].kind # "flush" /\ m < n

\* A call that had its recipe to itself when it was answered writes before those answered since ...
First(w) ==
  \A v \in Writer \ {w} : \A m, n \in Place :
     op[v].uid = op[w].uid /\ queue[m].by = w /\ queue[n].by = v => Before(m, n)

\* ... and the mark is its own unless one of those has set it.
MarkOf(r) == IF r = None \/ r.trash THEN "delete" ELSE "upsert"
Marked(w) ==
  \/ mark[op[w].uid] \in {"none", MarkOf(op[w].row)}
  \/ \E v \in Writer \ {w} : pc[v] = "writing" /\ op[v].uid = op[w].uid /\ ~op[v].pull

AloneInv(w) == alone[w] => pc[w] = "writing" /\ ~op[w].pull /\ First(w) /\ Marked(w)

\* While a commit's mark and its promise stand, no reconcile has plans for the recipe but to delete
\* one that the commit has deleted.
Guarded(u) ==
  mark[u] # "none" /\ promise[u] # "broken" =>
    /\ Live(store[u]) = promise[u]
    /\ task[u] \in {"none", "gone", "dropping", "dropped", "failed"}
    /\ mark[u] = "upsert" => task[u] = "none"
    /\ mark[u] = "delete" => promise[u] = None

\* TypeOK in parts: the account and what is kept of it, the calls, the reconcile, the bounds.
FileTypes ==
  /\ server \in [Uid -> Slot \cup {Purged}] /\ listed \in [Uid -> Slot \cup {Purged}]
  /\ disk \in [Uid -> Slot] /\ buf \in [Uid -> Slot]
  /\ index \in [Uid -> Hash] /\ hashes \in [Uid -> Hash]
  /\ store \in [Uid -> Slot] /\ synced \in BOOLEAN
OpType == [uid : Uid \cup {None}, row : Slot, pull : BOOLEAN]
CallTypes ==
  /\ mark \in [Uid -> {"none", "upsert", "delete"}] /\ old \subseteq Uid
  /\ pc \in [Writer -> {"idle", "looked", "saved", "writing"}]
  /\ op \in [Writer -> OpType]
  /\ alone \in [Writer -> BOOLEAN]
  /\ promise \in [Uid -> Hash \cup {"broken"}]
SyncTypes ==
  /\ spc \in {"idle", "listed", "fetching", "dropping", "partial", "reconciled", "flushing", "flushed"}
  /\ entries \in [Uid -> Hash]
  /\ task \in [Uid -> {"none", "asked", "answered", "landing", "landed", "failed",
                       "gone", "dropping", "dropped"}]
  /\ got \in [Uid -> Slot]
BoundTypes == edits \in 0..MaxEdits /\ faults \in 0..MaxFaults

RecipeInv ==
  /\ TypeOK /\ QueueInv
  /\ \A w \in Writer : CallInv(w) /\ AloneInv(w)
  /\ \A u \in Uid : TaskInv(u) /\ HashInv(u) /\ Guarded(u)

----------------------------------------------------------------------------
\* Recipes and jobs.

\* A recipe is no marker, and its hash is its body.
LEMMA RecipeFacts ==
  ASSUME NEW r \in Recipe
  PROVE  /\ r # None /\ r # Purged /\ r.body \in Body /\ r.body # None /\ r.trash \in BOOLEAN
         /\ HashOf(r) = r.body
  BY NamesAssumption DEF Recipe, HashOf

\* What a slot holds has a hash, and lists as a hash.
LEMMA SlotFacts ==
  ASSUME NEW r \in Slot
  PROVE  /\ HashOf(r) \in Hash /\ Live(r) \in Hash
         /\ r # None => r \in Recipe
         /\ HashOf(None) = None /\ Live(None) = None
  BY RecipeFacts, NamesAssumption DEF Slot, Hash, HashOf, Live, Recipe

\* The jobs there are, and whose.
LEMMA JobFacts ==
  /\ \A w \in Writer, k \in {"put", "remove", "flush"} : Job(k, w) \in Jobs
  /\ \A u \in Uid, k \in {"land", "drop"} : Job(k, u) \in Jobs
  /\ Job("flush", Cycle) \in Jobs
  BY DEF Jobs, Job

\* What a job is made of.
LEMMA JobFields == ASSUME NEW k, NEW b PROVE Job(k, b).kind = k /\ Job(k, b).by = b
  BY DEF Job

\* The owner of a job, by its kind: a call, a recipe, or the cycle itself.
LEMMA JobOwner ==
  ASSUME NEW j \in Jobs
  PROVE  \/ j.kind \in {"put", "remove", "flush"} /\ j.by \in Writer /\ j.by \notin Uid /\ j.by # Cycle
         \/ j.kind \in {"land", "drop"} /\ j.by \in Uid /\ j.by \notin Writer /\ j.by # Cycle
         \/ j.kind = "flush" /\ j.by = Cycle /\ j.by \notin Writer /\ j.by \notin Uid
  BY NamesAssumption DEF Jobs, Job

----------------------------------------------------------------------------
\* The queue of the mutex.

\* A job that joins the queue, one that leaves it, one that goes on to its flush.
LEMMA AppendFacts ==
  ASSUME queue \in Seq(Jobs), NEW j \in Jobs, queue' = Append(queue, j)
  PROVE  /\ queue' \in Seq(Jobs) /\ Len(queue) \in Nat /\ Len(queue') = Len(queue) + 1
         /\ \A m \in Place : queue'[m] = queue[m] /\ queue[m] \in Jobs
         /\ queue'[Len(queue) + 1] = j
  BY LenProperties, AppendProperties, ElementOfSeq DEF Place

\* A job that leaves the queue: those behind it move up by one place.
LEMMA TailFacts ==
  ASSUME queue \in Seq(Jobs), queue # <<>>, queue' = Tail(queue)
  PROVE  /\ queue' \in Seq(Jobs) /\ Len(queue) \in Nat \ {0} /\ Len(queue') = Len(queue) - 1
         /\ \A m \in 1..(Len(queue) - 1) : queue'[m] = queue[m + 1]
         /\ \A m \in Place : queue[m] \in Jobs
         /\ Head(queue) = queue[1]
  BY LenProperties, HeadTailProperties, EmptySeq, ElementOfSeq DEF Place

\* A job that leaves the queue while another, such as the flush of its commit, joins it at the end.
LEMMA TurnFacts ==
  ASSUME queue \in Seq(Jobs), queue # <<>>, NEW j \in Jobs, queue' = Append(Tail(queue), j)
  PROVE  /\ queue' \in Seq(Jobs) /\ Len(queue) \in Nat \ {0} /\ Len(queue') = Len(queue)
         /\ \A m \in 1..(Len(queue) - 1) : queue'[m] = queue[m + 1]
         /\ queue'[Len(queue)] = j
         /\ \A m \in Place : queue[m] \in Jobs
         /\ Head(queue) = queue[1]
<1> DEFINE tl == Tail(queue)
<1>1. /\ tl \in Seq(Jobs) /\ Len(queue) \in Nat \ {0} /\ Len(tl) = Len(queue) - 1
      /\ \A m \in 1..(Len(queue) - 1) : tl[m] = queue[m + 1]
      /\ Head(queue) = queue[1]
  BY LenProperties, HeadTailProperties, EmptySeq
<1> HIDE DEF tl
<1>2. queue' = Append(tl, j)
  BY DEF tl
<1>3. /\ queue' \in Seq(Jobs) /\ Len(queue') = Len(tl) + 1 /\ queue'[Len(tl) + 1] = j
      /\ \A m \in 1..Len(tl) : queue'[m] = tl[m]
  BY <1>1, <1>2, AppendProperties
<1>4. \A m \in Place : queue[m] \in Jobs
  BY ElementOfSeq DEF Place
<1> QED BY <1>1, <1>3, <1>4

\* Nothing moves: the jobs still fit.
LEMMA QueueSame ==
  ASSUME queue \in Seq(Jobs), QueueInv, queue' = queue, \A i \in Jobs : Fits(i) => Fits(i)'
  PROVE  QueueInv' /\ \A b : HasJob(b) => HasJob(b)'
<1>1. Place' = Place /\ \A m \in Place : queue'[m] = queue[m] /\ queue[m] \in Jobs
  BY ElementOfSeq DEF Place
<1>2. Once'
  BY <1>1 DEF QueueInv, Once
<1>3. ASSUME NEW m \in Place' PROVE Fits(queue[m])'
  <2>1. PICK i \in Jobs : i = queue[m] /\ i = queue'[m] /\ Fits(i)
    BY <1>1, <1>3 DEF QueueInv
  <2>2. Fits(i)'
    BY <2>1
  <2> QED BY <2>1, <2>2
<1>4. \A b : HasJob(b) => HasJob(b)'
  BY <1>1 DEF HasJob
<1> QED BY <1>2, <1>3, <1>4 DEF QueueInv

\* A job joins.
LEMMA QueueAdd ==
  ASSUME queue \in Seq(Jobs), QueueInv, NEW j \in Jobs, queue' = Append(queue, j),
         ~HasJob(j.by), Fits(j)', \A i \in Jobs : Fits(i) => Fits(i)'
  PROVE  /\ queue' \in Seq(Jobs) /\ QueueInv'
         /\ HasJob(j.by)' /\ \A b : HasJob(b) => HasJob(b)'
<1>1. /\ queue' \in Seq(Jobs) /\ Len(queue) \in Nat /\ Len(queue') = Len(queue) + 1
      /\ \A m \in Place : queue'[m] = queue[m] /\ queue[m] \in Jobs
      /\ queue'[Len(queue) + 1] = j
  BY AppendFacts
<1>2. Place' = Place \cup {Len(queue) + 1} /\ Len(queue) + 1 \notin Place
  BY <1>1 DEF Place
<1>3. Once'
  <2>1. \A m \in Place : queue[m].by # j.by
    BY DEF HasJob
  <2>2. \A m, n \in Place : queue[m].by = queue[n].by => m = n
    BY DEF QueueInv, Once
  <2>3. \A m \in Place : queue'[m] = queue[m]
    BY <1>1
  <2>4. queue'[Len(queue) + 1] = j
    BY <1>1
  <2>5. ASSUME NEW m \in Place', NEW n \in Place', queue'[m].by = queue'[n].by PROVE m = n
    BY <1>2, <2>1, <2>2, <2>3, <2>4, <2>5
  <2> QED BY <2>5 DEF Once
<1>4. ASSUME NEW m \in Place' PROVE Fits(queue[m])'
  <2>1. CASE m \in Place
    <3>1. PICK i \in Jobs : i = queue[m] /\ i = queue'[m] /\ Fits(i)
      BY <1>1, <2>1 DEF QueueInv
    <3>2. Fits(i)'
      BY <3>1
    <3> QED BY <3>1, <3>2
  <2>2. CASE m = Len(queue) + 1
    BY <1>1, <2>2
  <2> QED BY <1>2, <2>1, <2>2
<1>5. \A b : HasJob(b) => HasJob(b)'
  BY <1>1, <1>2 DEF HasJob
<1>6. HasJob(j.by)'
  BY <1>1, <1>2 DEF HasJob
<1> QED BY <1>1, <1>3, <1>4, <1>5, <1>6 DEF QueueInv

\* The job at the head is done.
LEMMA QueueTail ==
  ASSUME queue \in Seq(Jobs), QueueInv, queue # <<>>, queue' = Tail(queue),
         \A i \in Jobs : Fits(i) /\ i.by # Head(queue).by => Fits(i)'
  PROVE  /\ queue' \in Seq(Jobs) /\ QueueInv'
         /\ \A b : HasJob(b) /\ b # Head(queue).by => HasJob(b)'
<1>1. /\ queue' \in Seq(Jobs) /\ Len(queue) \in Nat \ {0} /\ Len(queue') = Len(queue) - 1
      /\ \A m \in 1..(Len(queue) - 1) : queue'[m] = queue[m + 1]
      /\ \A m \in Place : queue[m] \in Jobs
      /\ Head(queue) = queue[1]
  BY TailFacts
<1>2. Place' = 1..(Len(queue) - 1) /\ 1 \in Place /\ \A m \in Place' : m + 1 \in Place /\ m + 1 # 1
  BY <1>1 DEF Place
<1>3. ASSUME NEW m \in Place', NEW n \in Place', queue'[m].by = queue'[n].by PROVE m = n
  <2>1. queue[m + 1].by = queue[n + 1].by
    BY <1>1, <1>2, <1>3
  <2>2. m + 1 = n + 1
    BY <1>2, <2>1 DEF QueueInv, Once
  <2> QED BY <1>1, <1>2, <2>2
<1>4. ASSUME NEW m \in Place' PROVE Fits(queue[m])'
  <2>1. PICK i \in Jobs : i = queue[m + 1] /\ i = queue'[m] /\ Fits(i) /\ i.by # Head(queue).by
    <3>1. queue[m + 1] \in Jobs /\ queue[m + 1] = queue'[m] /\ Fits(queue[m + 1])
      BY <1>1, <1>2 DEF QueueInv
    <3>2. queue[m + 1].by # queue[1].by
      BY <1>2 DEF QueueInv, Once
    <3> QED BY <1>1, <3>1, <3>2
  <2>2. Fits(i)'
    BY <2>1
  <2> QED BY <2>1, <2>2
<1>5. ASSUME NEW b, HasJob(b), b # Head(queue).by PROVE HasJob(b)'
  <2>1. PICK m \in Place : queue[m].by = b
    BY <1>5 DEF HasJob
  <2>2. m # 1
    BY <1>1, <1>5, <2>1
  <2>3. m - 1 \in Place' /\ queue'[m - 1] = queue[m]
    BY <1>1, <1>2, <2>2 DEF Place
  <2> QED BY <2>1, <2>3 DEF HasJob
<1> QED BY <1>1, <1>3, <1>4, <1>5 DEF QueueInv, Once

\* The job at the head goes to the end of the queue as another of the same owner.
LEMMA QueueTurn ==
  ASSUME queue \in Seq(Jobs), QueueInv, queue # <<>>, NEW j \in Jobs, queue' = Append(Tail(queue), j),
         j.by = Head(queue).by, Fits(j)', \A i \in Jobs : Fits(i) /\ i.by # j.by => Fits(i)'
  PROVE  /\ queue' \in Seq(Jobs) /\ QueueInv'
         /\ \A b : HasJob(b) => HasJob(b)'
<1>1. /\ queue' \in Seq(Jobs) /\ Len(queue) \in Nat \ {0} /\ Len(queue') = Len(queue)
      /\ \A m \in 1..(Len(queue) - 1) : queue'[m] = queue[m + 1]
      /\ queue'[Len(queue)] = j
      /\ \A m \in Place : queue[m] \in Jobs
      /\ Head(queue) = queue[1]
  BY TurnFacts
<1>2. /\ Place' = Place /\ 1 \in Place
      /\ \A m \in Place : m = Len(queue) \/ (m \in 1..(Len(queue) - 1) /\ m + 1 \in Place /\ m + 1 # 1)
  BY <1>1 DEF Place
<1>3. \A m \in 1..(Len(queue) - 1) : queue[m + 1].by # queue[1].by
  <2>1. ASSUME NEW m \in 1..(Len(queue) - 1) PROVE queue[m + 1].by # queue[1].by
    <3>1. m + 1 \in Place /\ m + 1 # 1
      BY <1>1 DEF Place
    <3> QED BY <1>2, <3>1 DEF QueueInv, Once
  <2> QED BY <2>1
<1>7. queue'[Len(queue)].by = queue[1].by
  BY <1>1
<1>8. \A k \in Place : k = Len(queue) \/ (k \in 1..(Len(queue) - 1) /\ queue'[k] = queue[k + 1])
  BY <1>1, <1>2
<1>9. \A k \in Place : k # Len(queue) => queue'[k].by # queue'[Len(queue)].by
  BY <1>3, <1>7, <1>8
<1>4. ASSUME NEW m \in Place', NEW n \in Place', queue'[m].by = queue'[n].by PROVE m = n
  <2>1. CASE m = Len(queue) \/ n = Len(queue)
    BY <1>2, <1>4, <1>9, <2>1
  <2>2. CASE m # Len(queue) /\ n # Len(queue)
    <3>1. queue[m + 1].by = queue[n + 1].by
      BY <1>1, <1>2, <1>4, <2>2
    <3>2. m + 1 = n + 1
      BY <1>2, <2>2, <3>1 DEF QueueInv, Once
    <3>3. Place \subseteq Nat
      BY <1>1 DEF Place
    <3> QED BY <1>2, <3>2, <3>3
  <2> QED BY <2>1, <2>2
<1>5. ASSUME NEW m \in Place' PROVE Fits(queue[m])'
  <2>1. CASE m = Len(queue)
    BY <1>1, <2>1
  <2>2. CASE m # Len(queue)
    <3>1. PICK i \in Jobs : i = queue[m + 1] /\ i = queue'[m] /\ Fits(i) /\ i.by # j.by
      BY <1>1, <1>2, <1>3, <2>2 DEF QueueInv
    <3>2. Fits(i)'
      BY <3>1
    <3> QED BY <3>1, <3>2
  <2> QED BY <2>1, <2>2
<1>6. ASSUME NEW b, HasJob(b) PROVE HasJob(b)'
  <2>1. PICK m \in Place : queue[m].by = b
    BY <1>6 DEF HasJob
  <2>2. CASE m = 1
    <3>1. Len(queue) \in Place'
      BY <1>1 DEF Place
    <3>2. queue'[Len(queue)].by = b
      BY <1>7, <2>1, <2>2
    <3> QED BY <3>1, <3>2 DEF HasJob
  <2>3. CASE m # 1
    <3> DEFINE L == Len(queue)
    <3>3. L \in Nat /\ m \in 1..L
      BY <1>1 DEF Place
    <3>4. m - 1 \in Place'
      <4>1. Place' = 1..L
        BY <1>2 DEF Place
      <4> QED BY <2>3, <3>3, <4>1
    <3> HIDE DEF L
    <3>1. m - 1 \in 1..(L - 1) /\ (m - 1) + 1 = m
      BY <2>3, <3>3
    <3>2. queue'[m - 1] = queue[(m - 1) + 1]
      BY <1>1, <3>1 DEF L
    <3> QED BY <2>1, <3>1, <3>2, <3>4 DEF HasJob
  <2> QED BY <2>2, <2>3
<1> QED BY <1>1, <1>4, <1>5, <1>6 DEF QueueInv, Once

----------------------------------------------------------------------------
\* The order of the jobs of calls on one recipe.

\* Nothing moves.
LEMMA FirstSame ==
  ASSUME NEW w \in Writer, First(w), queue' = queue, \A v \in Writer : HasJob(v) => op'[v] = op[v]
  PROVE  First(w)'
<1>1. Place' = Place
  BY DEF Place
<1>2. SUFFICES ASSUME NEW v \in Writer \ {w}, NEW m \in Place, NEW n \in Place,
                      op'[v].uid = op'[w].uid, queue[m].by = w, queue[n].by = v
               PROVE  Before(m, n)'
  BY <1>1 DEF First
<1>3. op'[v] = op[v] /\ op'[w] = op[w]
  BY <1>2 DEF HasJob
<1>4. Before(m, n)
  BY <1>2, <1>3 DEF First
<1> QED BY <1>4 DEF Before

\* A job that joins is behind all others.
LEMMA FirstAdd ==
  ASSUME queue \in Seq(Jobs), NEW w \in Writer, First(w), op' = op,
         NEW j \in Jobs, queue' = Append(queue, j), j.by # w, j.by \in Writer => j.kind # "flush"
  PROVE  First(w)'
<1> DEFINE L == Len(queue)
<1>1. L \in Nat /\ \A m \in Place : queue'[m] = queue[m]
  BY AppendFacts
<1>2. queue'[L + 1] = j /\ Len(queue') = L + 1
  BY AppendFacts
<1>3. Place' = Place \cup {L + 1} /\ \A m \in Place : m \in Nat /\ m < L + 1
  BY <1>1, <1>2 DEF Place
<1> HIDE DEF L
<1>4. SUFFICES ASSUME NEW v \in Writer \ {w}, NEW m \in Place', NEW n \in Place',
                      op[v].uid = op[w].uid, queue'[m].by = w, queue'[n].by = v
               PROVE  Before(m, n)'
  BY DEF First
<1>5. m \in Place /\ queue'[m] = queue[m]
  BY <1>1, <1>2, <1>3, <1>4
<1>6. CASE n \in Place
  <2>1. queue'[n] = queue[n] /\ Before(m, n)
    BY <1>1, <1>4, <1>5, <1>6 DEF First
  <2> QED BY <1>5, <2>1 DEF Before
<1>7. CASE n = L + 1
  <2>1. queue'[n].kind # "flush" /\ m < n
    BY <1>2, <1>3, <1>4, <1>5, <1>7
  <2> QED BY <2>1 DEF Before
<1> QED BY <1>3, <1>6, <1>7

\* The job at the head leaves; the order of the others stays.
LEMMA FirstTail ==
  ASSUME queue \in Seq(Jobs), QueueInv, queue # <<>>, queue' = Tail(queue),
         NEW w \in Writer, First(w), w # Head(queue).by,
         \A v \in Writer : v # Head(queue).by => op'[v] = op[v]
  PROVE  First(w)'
<1> DEFINE L == Len(queue)
<1>1. L \in Nat \ {0} /\ Head(queue) = queue[1] /\ \A m \in 1..(L - 1) : queue'[m] = queue[m + 1]
  BY TailFacts
<1>2. Len(queue') = L - 1
  BY TailFacts
<1>3. Place' = 1..(L - 1) /\ Place = 1..L
  BY <1>2 DEF Place
<1> HIDE DEF L
<1>4. SUFFICES ASSUME NEW v \in Writer \ {w}, NEW m \in Place', NEW n \in Place',
                      op'[v].uid = op'[w].uid, queue'[m].by = w, queue'[n].by = v
               PROVE  Before(m, n)'
  BY DEF First
<1>5. /\ m + 1 \in Place /\ n + 1 \in Place /\ 1 \in Place /\ n + 1 # 1
      /\ m \in Nat /\ n \in Nat
  BY <1>1, <1>3
<1>6. queue'[m] = queue[m + 1] /\ queue'[n] = queue[n + 1]
  BY <1>1, <1>3
<1>7. v # Head(queue).by
  <2>1. \A k \in Place : queue[k].by = queue[1].by => k = 1
    BY <1>5 DEF QueueInv, Once
  <2>2. queue[n + 1].by # queue[1].by
    BY <1>5, <2>1
  <2> QED BY <1>1, <1>4, <1>6, <2>2
<1>8. Before(m + 1, n + 1)
  <2>1. op'[v] = op[v] /\ op'[w] = op[w]
    BY <1>7
  <2>2. op[v].uid = op[w].uid /\ queue[m + 1].by = w /\ queue[n + 1].by = v
    BY <1>4, <1>6, <2>1
  <2> QED BY <1>5, <2>2 DEF First
<1>9. m + 1 < n + 1 => m < n
  BY <1>5
<1> QED BY <1>6, <1>8, <1>9 DEF Before

\* The job at the head goes on to its flush: behind the flushes of those before it, and before
\* those that have not begun.
LEMMA FirstTurn ==
  ASSUME queue \in Seq(Jobs), QueueInv, queue # <<>>, NEW j \in Jobs, queue' = Append(Tail(queue), j),
         j.by = Head(queue).by, j.kind = "flush", Head(queue).kind # "flush",
         NEW w \in Writer, First(w), op' = op
  PROVE  First(w)'
<1> DEFINE L == Len(queue)
<1>1. L \in Nat \ {0} /\ Head(queue) = queue[1] /\ \A m \in 1..(L - 1) : queue'[m] = queue[m + 1]
  BY TurnFacts
<1>2. Len(queue') = L /\ queue'[L] = j
  BY TurnFacts
<1>3. Place' = Place /\ Place = 1..L /\ 1 \in Place
  BY <1>1, <1>2 DEF Place
<1> HIDE DEF L
<1>4. SUFFICES ASSUME NEW v \in Writer \ {w}, NEW m \in Place, NEW n \in Place,
                      op[v].uid = op[w].uid, queue'[m].by = w, queue'[n].by = v
               PROVE  Before(m, n)'
  BY <1>3 DEF First
<1>5. ASSUME NEW k \in Place, k # L
      PROVE  k + 1 \in Place /\ queue'[k] = queue[k + 1]
  <2>1. L \in Nat /\ k \in 1..L
    BY <1>1, <1>3
  <2>2. k \in 1..(L - 1) /\ k + 1 \in 1..L
    BY <1>5, <2>1
  <2> QED BY <1>1, <1>3, <2>2
<1>6. m \in Nat /\ n \in Nat /\ (m # L => m < L) /\ (m + 1 < n + 1 => m < n) /\ ~(m + 1 < 1)
  BY <1>1, <1>3
<1>7. CASE m = L
  <2>1. n # L /\ queue[1].by = w
    BY <1>1, <1>2, <1>4, <1>7
  <2>2. Before(1, n + 1)
    BY <1>3, <1>4, <1>5, <2>1 DEF First
  <2>3. queue'[n].kind # "flush"
    BY <1>1, <1>5, <2>1, <2>2 DEF Before
  <2>4. queue'[m].kind = "flush"
    BY <1>2, <1>7
  <2> QED BY <2>3, <2>4 DEF Before
<1>8. CASE m # L /\ n = L
  <2>1. queue[1].by = v
    BY <1>1, <1>2, <1>4, <1>8
  <2>2. Before(m + 1, 1)
    BY <1>3, <1>4, <1>5, <1>8, <2>1 DEF First
  <2>3. queue'[m].kind = "flush"
    BY <1>5, <1>6, <1>8, <2>2 DEF Before
  <2> QED BY <1>6, <1>8, <2>3 DEF Before
<1>9. CASE m # L /\ n # L
  <2>1. queue'[m] = queue[m + 1] /\ queue'[n] = queue[n + 1]
    BY <1>5, <1>9
  <2>2. Before(m + 1, n + 1)
    BY <1>4, <1>5, <1>9, <2>1 DEF First
  <2> QED BY <1>6, <2>1, <2>2 DEF Before
<1> QED BY <1>7, <1>8, <1>9

\* Nobody behind a call that comes first is at the head with a flush.
LEMMA FirstHead ==
  ASSUME queue \in Seq(Jobs), queue # <<>>, NEW w \in Writer, First(w), HasJob(w),
         Head(queue).kind = "flush", NEW v \in Writer \ {w}, Head(queue).by = v
  PROVE  op[v].uid # op[w].uid
<1>1. Len(queue) \in Nat \ {0} /\ Head(queue) = queue[1]
  BY TailFacts, LenProperties, HeadTailProperties, EmptySeq
<1>2. 1 \in Place /\ \A m \in Place : m \in Nat /\ ~(m < 1)
  BY <1>1 DEF Place
<1>3. PICK m \in Place : queue[m].by = w
  BY DEF HasJob
<1>4. ~Before(m, 1)
  BY <1>1, <1>2 DEF Before
<1> QED BY <1>1, <1>2, <1>3, <1>4 DEF First

----------------------------------------------------------------------------
\* The removes of a reconcile, in whichever order, are one for each recipe.
LEMMA RemovesFacts ==
  ASSUME NEW U \in SUBSET Uid, NEW s \in Removes(U)
  PROVE  /\ s \in Seq(Jobs)
         /\ \A m \in 1..Len(s) : s[m].kind = "drop" /\ s[m].by \in U
         /\ \A m, n \in 1..Len(s) : s[m].by = s[n].by => m = n
<1> DEFINE T == {Job("drop", u) : u \in U}
           N == Cardinality(U)
           f == [u \in U |-> Job("drop", u)]
<1>1. IsFiniteSet(U) /\ N \in Nat
  BY UidAssumption, FS_Subset, FS_CardinalityType
<1>2. \A u, v \in U : Job("drop", u) = Job("drop", v) => u = v
  BY JobFields
<1>3. f \in Bijection(U, T)
  <2>1. f \in [U -> T]
    OBVIOUS
  <2>2. IsInjective(f)
    BY <1>2 DEF IsInjective
  <2>3. \A t \in T : \E u \in U : f[u] = t
    OBVIOUS
  <2> QED BY <2>1, <2>2, <2>3 DEF Bijection, Injection, Surjection
<1>4. IsFiniteSet(T) /\ Cardinality(T) = N
  BY <1>1, <1>3, FS_Bijection DEF ExistsBijection
<1>5. s \in [1..N -> T] /\ \A u \in U : \E i \in DOMAIN s : s[i] = Job("drop", u)
  BY DEF Removes
<1>6. \A t \in T : t \in Jobs /\ t.kind = "drop" /\ t.by \in U
  BY JobFacts, JobFields
<1> HIDE DEF f, T, N
<1>7. s \in Surjection(1..N, T)
  <2>1. DOMAIN s = 1..N
    BY <1>5
  <2>2. \A t \in T : \E i \in 1..N : s[i] = t
    BY <1>5, <2>1 DEF T
  <2> QED BY <1>5, <2>2 DEF Surjection
<1>8. IsFiniteSet(1..N) /\ Cardinality(1..N) = N
  <2>1. N \in Int /\ 1 \in Int
    BY <1>1
  <2>2. IsFiniteSet(1..N) /\ Cardinality(1..N) = IF 1 > N THEN 0 ELSE N - 1 + 1
    BY <2>1, FS_Interval
  <2> QED BY <1>1, <2>2
<1>9. s \in Injection(1..N, T)
  BY <1>4, <1>7, <1>8, FS_SurjSameCardinalityImpliesInj
<1>10. \A m, n \in 1..N : s[m] = s[n] => m = n
  BY <1>9 DEF Injection, IsInjective
<1>11. Len(s) = N /\ s \in Seq(Jobs)
  <2>1. s \in [1..N -> Jobs]
    BY <1>5, <1>6
  <2> QED BY <1>1, <2>1
<1>12. \A m \in 1..N : s[m] \in T
  BY <1>5
<1>13. \A m, n \in 1..N : s[m].by = s[n].by => s[m] = s[n]
  <2>1. \A t \in T : t = Job("drop", t.by)
    BY JobFields DEF T
  <2> QED BY <1>12, <2>1
<1> QED BY <1>6, <1>10, <1>11, <1>12, <1>13

\* They join the queue together.
LEMMA QueueJoin ==
  ASSUME queue \in Seq(Jobs), QueueInv, NEW U \in SUBSET Uid, NEW s \in Removes(U), queue' = queue \o s,
         \A u \in U : ~HasJob(u) /\ task'[u] = "dropping",
         \A i \in Jobs : Fits(i) => Fits(i)'
  PROVE  /\ queue' \in Seq(Jobs) /\ QueueInv'
         /\ \A b : HasJob(b) => HasJob(b)'
         /\ \A w \in Writer : First(w) /\ op' = op => First(w)'
<1> DEFINE L == Len(queue)
           K == Len(s)
<1>1. /\ s \in Seq(Jobs) /\ \A m \in 1..K : s[m].kind = "drop" /\ s[m].by \in U
      /\ \A m, n \in 1..K : s[m].by = s[n].by => m = n
  BY RemovesFacts
<1>2. L \in Nat /\ K \in Nat
  BY <1>1, LenProperties
<1>3. /\ queue' \in Seq(Jobs) /\ Len(queue') = L + K
      /\ \A i \in 1..(L + K) : queue'[i] = IF i <= L THEN queue[i] ELSE s[i - L]
  BY <1>1, ConcatProperties
<1>4. \A m \in Place : queue[m] \in Jobs
  BY ElementOfSeq DEF Place
<1> HIDE DEF L, K
<1>5. Place = 1..L /\ Place' = 1..(L + K)
  BY <1>3 DEF Place, L
<1>6. ASSUME NEW m \in Place'
      PROVE  \/ m \in Place /\ queue'[m] = queue[m]
             \/ m \notin Place /\ m - L \in 1..K /\ queue'[m] = s[m - L]
  <2>1. CASE m <= L
    BY <1>2, <1>3, <1>5, <2>1
  <2>2. CASE ~(m <= L)
    <3>1. m \in 1..(L + K) /\ m \notin Place /\ m - L \in 1..K
      BY <1>2, <1>5, <2>2
    <3> QED BY <1>3, <2>2, <3>1
  <2> QED BY <2>1, <2>2
<1>14. \A k \in 1..K : s[k].kind = "drop" /\ s[k].by \in U
  BY <1>1 DEF K
<1>15. \A j, k \in 1..K : s[j].by = s[k].by => j = k
  BY <1>1 DEF K
<1>7. ASSUME NEW m \in Place', m \notin Place PROVE queue'[m].kind = "drop" /\ queue'[m].by \in U
  <2>1. m - L \in 1..K /\ queue'[m] = s[m - L]
    BY <1>6, <1>7
  <2> QED BY <1>14, <2>1
<1>8. \A m \in Place' \cap Place : queue'[m] = queue[m] /\ queue[m].by \notin U
  BY <1>6 DEF HasJob
<1>9. Place \subseteq Place'
  BY <1>2, <1>5
<1>10. ASSUME NEW m \in Place', NEW n \in Place', queue'[m].by = queue'[n].by PROVE m = n
  <2>1. CASE m \in Place /\ n \in Place
    BY <1>8, <1>10, <2>1 DEF QueueInv, Once
  <2>2. CASE m \notin Place /\ n \notin Place
    <3>2. /\ m - L \in 1..K /\ queue'[m] = s[m - L]
          /\ n - L \in 1..K /\ queue'[n] = s[n - L]
      BY <1>6, <2>2
    <3>3. s[m - L].by = s[n - L].by
      BY <1>10, <3>2
    <3>1. m - L = n - L
      BY <1>15, <3>2, <3>3
    <3> QED BY <1>2, <1>5, <3>1
  <2>3. CASE m \in Place <=> n \notin Place
    BY <1>7, <1>8, <1>10, <2>3
  <2> QED BY <2>1, <2>2, <2>3
<1>11. ASSUME NEW m \in Place' PROVE Fits(queue[m])'
  <2>1. CASE m \in Place
    <3>1. PICK i \in Jobs : i = queue[m] /\ i = queue'[m] /\ Fits(i)
      BY <1>4, <1>8, <2>1 DEF QueueInv
    <3>2. Fits(i)'
      BY <3>1
    <3> QED BY <3>1, <3>2
  <2>2. CASE m \notin Place
    <3>1. PICK i \in Jobs : i = queue'[m] /\ i.kind = "drop" /\ i.by \in U
      BY <1>3, <1>5, <1>7, <2>2, ElementOfSeq
    <3>2. i.by \notin Writer /\ i.by # Cycle
      BY <3>1, JobOwner
    <3>3. Fits(i)'
      BY <3>1, <3>2 DEF Fits
    <3> QED BY <3>1, <3>3
  <2> QED BY <2>1, <2>2
<1>12. \A b : HasJob(b) => HasJob(b)'
  BY <1>8, <1>9 DEF HasJob
<1>13. ASSUME NEW w \in Writer, First(w), op' = op PROVE First(w)'
  <2>1. SUFFICES ASSUME NEW v \in Writer \ {w}, NEW m \in Place', NEW n \in Place',
                        op[v].uid = op[w].uid, queue'[m].by = w, queue'[n].by = v
                 PROVE  Before(m, n)'
    BY <1>13 DEF First
  <2>2. v \notin Uid /\ w \notin Uid
    BY NamesAssumption
  <2>3. m \in Place /\ n \in Place
    BY <1>7, <2>1, <2>2
  <2>4. queue'[m] = queue[m] /\ queue'[n] = queue[n]
    BY <1>8, <2>3
  <2>5. Before(m, n)
    BY <1>13, <2>1, <2>3, <2>4 DEF First
  <2> QED BY <2>4, <2>5 DEF Before
<1> QED BY <1>3, <1>10, <1>11, <1>12, <1>13 DEF QueueInv, Once

----------------------------------------------------------------------------
\* Who runs.

\* The type invariant is its parts and the type of the queue.
LEMMA TypeParts == TypeOK <=> FileTypes /\ CallTypes /\ SyncTypes /\ BoundTypes /\ queue \in Seq(Jobs)
  BY DEF TypeOK, FileTypes, CallTypes, SyncTypes, BoundTypes, OpType

\* The job that runs is at the head of the queue and fits its owner.
LEMMA RunningFacts ==
  ASSUME queue \in Seq(Jobs), QueueInv, NEW k, NEW b, Running(k, b)
  PROVE  /\ queue # <<>> /\ Head(queue) \in Jobs /\ Fits(Head(queue)) /\ HasJob(b)
         /\ Head(queue).kind = k /\ Head(queue).by = b
<1>1. queue # <<>> /\ Head(queue) = Job(k, b)
  BY DEF Running
<1>2. Len(queue) \in Nat \ {0} /\ Head(queue) = queue[1] /\ Head(queue) \in Jobs
  BY <1>1, LenProperties, HeadTailProperties, EmptySeq
<1>3. 1 \in Place
  BY <1>2 DEF Place
<1>4. Fits(Head(queue))
  BY <1>2, <1>3 DEF QueueInv
<1>5. Head(queue).kind = k /\ Head(queue).by = b
  BY <1>1, JobFields
<1> QED BY <1>1, <1>2, <1>3, <1>4, <1>5 DEF HasJob

\* The call whose job runs is writing a recipe; a put has one.
LEMMA WriterFacts ==
  ASSUME RecipeInv, NEW w \in Writer, NEW k, Running(k, w)
  PROVE  /\ pc[w] = "writing" /\ op[w].uid \in Uid /\ op[w].row \in Slot /\ op[w].pull \in BOOLEAN
         /\ k = "put" => op[w].row \in Recipe
<1>1. queue \in Seq(Jobs) /\ QueueInv /\ CallInv(w) /\ CallTypes
  BY TypeParts DEF RecipeInv
<1>2. Fits(Head(queue)) /\ Head(queue).kind = k /\ Head(queue).by = w
  BY <1>1, RunningFacts
<1>3. pc[w] = "writing" /\ (k = "put" => op[w].row # None)
  BY <1>2 DEF Fits
<1>4. op[w] \in OpType
  BY <1>1 DEF CallTypes
<1>5. op[w].row \in Slot /\ op[w].pull \in BOOLEAN
  BY <1>4 DEF OpType
<1> QED BY <1>1, <1>3, <1>5, SlotFacts DEF CallInv

\* What lands is a recipe.
LEMMA LandFacts ==
  ASSUME RecipeInv, NEW u \in Uid, Running("land", u)
  PROVE  task[u] = "landing" /\ got[u] \in Recipe /\ got[u] \in Slot
<1>1. queue \in Seq(Jobs) /\ QueueInv /\ TaskInv(u) /\ SyncTypes
  BY TypeParts DEF RecipeInv
<1>2. Fits(Head(queue)) /\ Head(queue).kind = "land" /\ Head(queue).by = u
  BY <1>1, RunningFacts
<1>3. task[u] = "landing" /\ got[u] # None /\ got[u] \in Slot
  BY <1>1, <1>2 DEF Fits, TaskInv, SyncTypes
<1> QED BY <1>3, SlotFacts

\* A recipe that is dropped was to be.
LEMMA DropFacts ==
  ASSUME RecipeInv, NEW u \in Uid, Running("drop", u)
  PROVE  task[u] = "dropping"
<1>1. queue \in Seq(Jobs) /\ QueueInv
  BY TypeParts DEF RecipeInv
<1>2. Fits(Head(queue)) /\ Head(queue).kind = "drop" /\ Head(queue).by = u
  BY <1>1, RunningFacts
<1> QED BY <1>2 DEF Fits

----------------------------------------------------------------------------
\* Types.

\* A save comes from a tool with a recipe of its own, and is no pull.
Saving(w) == \E o \in OpType : o.uid \in Uid /\ o.pull = FALSE /\ pc[w] \in {"idle", "looked"} /\ Save(w, o)

\* Every tool that changes a recipe saves a commit for a recipe of the account.
LEMMA SavingStep ==
  ASSUME RecipeInv, NEW w \in Writer,
         \/ \E u \in Uid : (\E b \in Body : CreateRecipe(w, u, b) \/ UpdateRecipe(w, u, b)) \/ TrashRecipe(w, u)
         \/ RestoreRecipe(w) \/ PurgeRecipe(w)
  PROVE  Saving(w)
<1>1. FileTypes /\ op[w] \in OpType /\ CallInv(w)
  BY TypeParts DEF RecipeInv, CallTypes
<1>2. ASSUME NEW u \in Uid, NEW r \in Slot PROVE Commit(u, r) \in OpType /\ Commit(u, r).uid \in Uid /\ Commit(u, r).pull = FALSE
  BY DEF Commit, OpType
<1>3. ASSUME NEW u \in Uid, NEW b \in Body, CreateRecipe(w, u, b) PROVE Saving(w)
  <2>1. [body |-> b, trash |-> FALSE] \in Slot
    BY DEF Slot, Recipe
  <2>2. pc[w] = "idle" /\ Save(w, Commit(u, [body |-> b, trash |-> FALSE]))
    BY <1>3 DEF CreateRecipe
  <2> QED BY <1>2, <2>1, <2>2 DEF Saving
<1>4. ASSUME NEW u \in Uid, NEW b \in Body, UpdateRecipe(w, u, b) PROVE Saving(w)
  <2>1. store[u] \in Recipe
    BY <1>1, <1>4, SlotFacts DEF UpdateRecipe, FileTypes
  <2>2. [store[u] EXCEPT !.body = b] \in Slot
    BY <2>1 DEF Slot, Recipe
  <2>3. pc[w] = "idle" /\ Save(w, Commit(u, [store[u] EXCEPT !.body = b]))
    BY <1>4 DEF UpdateRecipe
  <2> QED BY <1>2, <2>2, <2>3 DEF Saving
<1>5. ASSUME NEW u \in Uid, TrashRecipe(w, u) PROVE Saving(w)
  <2>1. store[u] \in Recipe
    BY <1>1, <1>5, SlotFacts DEF TrashRecipe, FileTypes
  <2>2. [store[u] EXCEPT !.trash = TRUE] \in Slot
    BY <2>1 DEF Slot, Recipe
  <2>3. pc[w] = "idle" /\ Save(w, Commit(u, [store[u] EXCEPT !.trash = TRUE]))
    BY <1>5 DEF TrashRecipe
  <2> QED BY <1>2, <2>2, <2>3 DEF Saving
<1>6. pc[w] = "looked" => op[w].uid \in Uid
  BY <1>1 DEF CallInv
<1>7. CASE RestoreRecipe(w)
  <2>1. pc[w] = "looked" /\ op[w].row # None /\ Save(w, Commit(op[w].uid, [op[w].row EXCEPT !.trash = FALSE]))
    BY <1>7 DEF RestoreRecipe
  <2>2. op[w].row \in Recipe
    BY <1>1, <2>1, SlotFacts DEF OpType
  <2>3. [op[w].row EXCEPT !.trash = FALSE] \in Slot
    BY <2>2 DEF Slot, Recipe
  <2> QED BY <1>2, <1>6, <2>1, <2>3 DEF Saving
<1>8. CASE PurgeRecipe(w)
  <2>1. pc[w] = "looked" /\ Save(w, Commit(op[w].uid, None)) /\ None \in Slot
    BY <1>8 DEF PurgeRecipe, Slot
  <2> QED BY <1>2, <1>6, <2>1 DEF Saving
<1> QED BY <1>3, <1>4, <1>5, <1>7, <1>8

\* A step is one of the world's, of a call's, of the reconcile's, or a restart.
WorldStep == \E u \in Uid : Propagate(u) \/ Age(u) \/ \E r \in Recipe \cup {Purged} : ExternalEdit(u, r)
CallStep(w) ==
  \/ Saving(w) \/ (\E u \in Uid : LookUp(w, u)) \/ PullRecipe(w) \/ Respond(w)
  \/ RunPut(w) \/ RunRemove(w) \/ RunRemoveFail(w) \/ RunFlush(w) \/ \E L \in SUBSET Uid : RunFlushFail(w, L)
RecipeStep(u) ==
  \/ \E r \in Recipe \cup {Purged} : SyncFetch(u, r)
  \/ SyncFetchFail(u) \/ SyncArrive(u) \/ RunLand(u) \/ RunDrop(u) \/ RunDropFail(u)
ReconcileStep ==
  \/ SyncList \/ SyncDiff \/ SyncLanded \/ SyncPartial \/ SyncNothing \/ SyncUndropped \/ SyncFinish
  \/ CycleFlush \/ RunCycleFlush \/ CycleSweep \/ CycleFail \/ \E L \in SUBSET Uid : RunCycleFlushFail(L)

\* The steps of the system by what they concern: Paprika, a call, a recipe, a reconcile, a crash.
LEMMA StepCases ==
  ASSUME RecipeInv, [Next]_vars
  PROVE  \/ UNCHANGED vars \/ WorldStep \/ \E w \in Writer : CallStep(w)
         \/ (\E u \in Uid : RecipeStep(u)) \/ ReconcileStep \/ \E L \in SUBSET Uid : Crash(L)
<1>1. ASSUME NEW w \in Writer, ToolStart(w) PROVE CallStep(w)
  BY <1>1, SavingStep DEF ToolStart, CallStep
<1>2. ASSUME NEW w \in Writer, ToolStep(w) PROVE CallStep(w)
  BY <1>2, SavingStep DEF ToolStep, CallStep
<1>3. ASSUME SyncStep PROVE ReconcileStep \/ \E u \in Uid : RecipeStep(u)
  BY <1>3 DEF SyncStep, ReconcileStep, RecipeStep
<1>4. ASSUME Fault
      PROVE  \/ \E w \in Writer : CallStep(w)
             \/ (\E u \in Uid : RecipeStep(u)) \/ ReconcileStep \/ \E L \in SUBSET Uid : Crash(L)
  BY <1>4 DEF Fault, CallStep, ReconcileStep, RecipeStep
<1> QED BY <1>1, <1>2, <1>3, <1>4 DEF Next, WorldStep

\* The steps that leave the account and what is kept of it alone.
FilesKept == UNCHANGED <<server, listed, disk, buf, index, hashes, store, synced>>

\* The steps of a call that touch neither the files nor the buffer nor the hash index.
LEMMA CallsKeepFiles ==
  ASSUME NEW w \in Writer, (\E u \in Uid : LookUp(w, u)) \/ PullRecipe(w) \/ Respond(w) \/ RunRemoveFail(w)
  PROVE  FilesKept
  BY DEF FilesKept, LookUp, PullRecipe, Respond, RunRemoveFail, paprika, files, memory

\* The steps about one recipe that touch none of these.
LEMMA RecipeKeepsFiles ==
  ASSUME NEW u \in Uid,
         (\E r : SyncFetch(u, r)) \/ SyncFetchFail(u) \/ SyncArrive(u) \/ RunDropFail(u) \/ Age(u)
  PROVE  FilesKept
  BY DEF FilesKept, SyncFetch, Age, SyncFetchFail, SyncArrive, RunDropFail, paprika, files, memory

\* The steps of a reconcile that touch none of these.
LEMMA ReconcileKeepsFiles ==
  ASSUME \/ SyncList \/ SyncDiff \/ SyncLanded \/ SyncPartial \/ SyncNothing \/ SyncUndropped
         \/ CycleFlush \/ CycleSweep \/ CycleFail
  PROVE  FilesKept
<1>1. ASSUME SyncList \/ SyncDiff \/ SyncLanded \/ SyncPartial \/ SyncNothing PROVE FilesKept
  BY <1>1 DEF FilesKept, SyncList, SyncDiff, SyncLanded, SyncPartial, SyncNothing, paprika, files, memory
<1>2. ASSUME SyncUndropped \/ CycleFlush \/ CycleSweep \/ CycleFail PROVE FilesKept
  BY <1>2 DEF FilesKept, SyncUndropped, CycleFlush, CycleSweep, CycleFail, paprika, files, memory
<1> QED BY <1>1, <1>2

\* What is written is what was buffered.
LEMMA WrittenType ==
  ASSUME FileTypes, NEW L
  PROVE  Written(L) \in [Uid -> Slot] /\ Empty \in [Uid -> Slot]
  BY DEF FileTypes, Written, Empty, Slot

\* Every step keeps the types of the account, the files, the memory and the store.
LEMMA FilesStep ==
  ASSUME RecipeInv, [Next]_vars
  PROVE  FileTypes'
<1> FileTypes /\ SyncTypes
  BY TypeParts DEF RecipeInv
<1>1. ASSUME FilesKept PROVE FileTypes'
  BY <1>1 DEF FilesKept, FileTypes
<1>2. CASE UNCHANGED vars
  BY <1>1, <1>2 DEF vars, FilesKept
<1>3. CASE WorldStep
  <2>1. ASSUME NEW u \in Uid, NEW r \in Recipe \cup {Purged}, ExternalEdit(u, r) PROVE FileTypes'
    BY <2>1 DEF ExternalEdit, FileTypes, Slot, files, memory
  <2>2. ASSUME NEW u \in Uid, Propagate(u) PROVE FileTypes'
    BY <2>2 DEF Propagate, FileTypes, files, memory
  <2> QED BY <1>1, <1>3, <2>1, <2>2, RecipeKeepsFiles DEF WorldStep
<1>4. ASSUME NEW w \in Writer, Saving(w) PROVE FileTypes'
  <2>1. PICK o \in OpType : Save(w, o)
    BY <1>4 DEF Saving
  <2> QED BY <2>1 DEF Save, FileTypes, OpType, files, memory
<1>5. ASSUME NEW w \in Writer, RunPut(w) PROVE FileTypes'
  <2>1. op[w].row \in Recipe /\ op[w].row \in Slot
    BY <1>5, WriterFacts DEF RunPut
  <2>2. op[w].row.body \in Hash
    BY <2>1, RecipeFacts DEF Hash
  <2> QED BY <1>5, <2>1, <2>2 DEF RunPut, FileTypes, paprika, files
<1>6. ASSUME NEW w \in Writer, RunRemove(w) PROVE FileTypes'
  BY <1>6 DEF RunRemove, FileTypes, Slot, Hash, paprika
<1>7. ASSUME NEW w \in Writer, RunFlush(w) PROVE FileTypes'
  <2>1. op[w].row \in Slot
    BY <1>7, WriterFacts DEF RunFlush
  <2>2. disk' \in [Uid -> Slot] /\ buf' \in [Uid -> Slot] /\ index' = hashes
    BY <1>7, WrittenType DEF RunFlush, WritePending
  <2> QED BY <1>7, <2>1, <2>2 DEF RunFlush, FileTypes, paprika
<1>8. ASSUME NEW L, WritePendingFail(L) PROVE disk' \in [Uid -> Slot] /\ buf' \in [Uid -> Slot] /\ index' = index
  BY <1>8, WrittenType DEF WritePendingFail, FileTypes
<1>9. ASSUME NEW w \in Writer, NEW L, RunFlushFail(w, L) PROVE FileTypes'
  BY <1>8, <1>9 DEF RunFlushFail, FileTypes, paprika
<1>10. ASSUME NEW L, RunCycleFlushFail(L) PROVE FileTypes'
  BY <1>8, <1>10 DEF RunCycleFlushFail, FileTypes, paprika
<1>11. CASE RunCycleFlush
  <2>1. disk' \in [Uid -> Slot] /\ buf' \in [Uid -> Slot] /\ index' = hashes
    BY <1>11, WrittenType DEF RunCycleFlush, WritePending
  <2> QED BY <1>11, <2>1 DEF RunCycleFlush, FileTypes, paprika
<1>12. ASSUME NEW u \in Uid, RunLand(u) PROVE FileTypes'
  <2>1. got[u] \in Recipe /\ got[u] \in Slot
    BY <1>12, LandFacts DEF RunLand
  <2>2. got[u].body \in Hash
    BY <2>1, RecipeFacts DEF Hash
  <2> QED BY <1>12, <2>1, <2>2 DEF RunLand, FileTypes, paprika, files
<1>13. ASSUME NEW u \in Uid, RunDrop(u) PROVE FileTypes'
  BY <1>13 DEF RunDrop, FileTypes, Slot, Hash, paprika
<1>14. CASE SyncFinish
  BY <1>14 DEF SyncFinish, FileTypes, paprika, files, memory
<1>15. ASSUME NEW L, Crash(L) PROVE FileTypes'
  <2>1. disk' \in [Uid -> Slot] /\ index' \in [Uid -> Hash]
    BY <1>15, WrittenType DEF Crash, FileTypes, files
  <2>2. buf' \in [Uid -> Slot] /\ hashes' = index' /\ store' = disk' /\ server' = server /\ listed' = listed
    BY <1>15, WrittenType DEF Crash, paprika
  <2>3. synced' \in BOOLEAN
    BY <1>15, Zenon DEF Crash
  <2> QED BY <2>1, <2>2, <2>3 DEF FileTypes
<1>16. ASSUME NEW w \in Writer, CallStep(w) PROVE FileTypes'
  BY <1>1, <1>4, <1>5, <1>6, <1>7, <1>9, <1>16, CallsKeepFiles DEF CallStep
<1>17. ASSUME NEW u \in Uid, RecipeStep(u) PROVE FileTypes'
  BY <1>1, <1>12, <1>13, <1>17, RecipeKeepsFiles DEF RecipeStep
<1>18. CASE ReconcileStep
  BY <1>1, <1>10, <1>11, <1>14, <1>18, ReconcileKeepsFiles DEF ReconcileStep
<1> QED BY <1>2, <1>3, <1>15, <1>16, <1>17, <1>18, StepCases

\* The steps that leave the calls, the marks and the promises alone, and those that leave the reconcile alone.
CallsKept == UNCHANGED <<mark, old, pc, op, alone, promise>>
SyncKept == UNCHANGED <<spc, entries, task, got>>

\* No step of a reconcile is one of a call ...
LEMMA SyncKeepsCalls ==
  \/ \E u \in Uid : RecipeStep(u)
  \/ SyncList \/ SyncDiff \/ SyncLanded \/ SyncPartial \/ SyncNothing \/ SyncUndropped
  \/ CycleFlush \/ RunCycleFlush \/ CycleFail \/ \E L \in SUBSET Uid : RunCycleFlushFail(L)
  => CallsKept
<1>1. ASSUME NEW u \in Uid, RecipeStep(u) PROVE CallsKept
  <2>1. ASSUME NEW r, SyncFetch(u, r) PROVE CallsKept
    BY <2>1 DEF SyncFetch, CallsKept, marks, calls, history
  <2>2. ASSUME SyncFetchFail(u) \/ SyncArrive(u) \/ RunLand(u) PROVE CallsKept
    BY <2>2 DEF SyncFetchFail, SyncArrive, RunLand, CallsKept, marks, calls, history
  <2>3. ASSUME RunDrop(u) \/ RunDropFail(u) PROVE CallsKept
    BY <2>3 DEF RunDrop, RunDropFail, CallsKept, marks, calls, history
  <2> QED BY <1>1, <2>1, <2>2, <2>3 DEF RecipeStep
<1>2. ASSUME SyncList \/ SyncDiff \/ SyncLanded \/ SyncPartial \/ SyncNothing PROVE CallsKept
  BY <1>2 DEF CallsKept, SyncList, SyncDiff, SyncLanded, SyncPartial, SyncNothing, marks, calls, history
<1>3. ASSUME SyncUndropped \/ CycleFlush \/ RunCycleFlush \/ CycleFail PROVE CallsKept
  BY <1>3 DEF CallsKept, SyncUndropped, CycleFlush, RunCycleFlush, CycleFail, marks, calls, history
<1>4. ASSUME NEW L, RunCycleFlushFail(L) PROVE CallsKept
  BY <1>4 DEF CallsKept, RunCycleFlushFail, marks, calls, history
<1> QED BY <1>1, <1>2, <1>3, <1>4

\* ... and none of a call, or of the world, is one of a reconcile.
LEMMA CallsKeepSync ==
  WorldStep \/ (\E w \in Writer : CallStep(w)) => SyncKept
<1>1. ASSUME NEW u, NEW r, Propagate(u) \/ Age(u) \/ ExternalEdit(u, r) PROVE SyncKept
  BY <1>1 DEF Propagate, Age, ExternalEdit, SyncKept, cycle
<1>2. ASSUME NEW w, NEW o, Save(w, o) PROVE SyncKept
  BY <1>2 DEF Save, SyncKept, cycle
<1>3. ASSUME NEW w, NEW u, LookUp(w, u) \/ PullRecipe(w) \/ Respond(w) \/ RunPut(w) PROVE SyncKept
  BY <1>3 DEF LookUp, PullRecipe, Respond, RunPut, SyncKept, cycle
<1>4. ASSUME NEW w, NEW L, RunRemove(w) \/ RunRemoveFail(w) \/ RunFlush(w) \/ RunFlushFail(w, L) PROVE SyncKept
  BY <1>4 DEF RunRemove, RunRemoveFail, RunFlush, RunFlushFail, SyncKept, cycle
<1>5. ASSUME NEW w \in Writer, CallStep(w) PROVE SyncKept
  BY <1>2, <1>3, <1>4, <1>5 DEF CallStep, Saving
<1> QED BY <1>1, <1>5 DEF WorldStep

\* A call that returns, or gives up, is idle.
LEMMA ReturnFacts ==
  ASSUME NEW w \in Writer, Return(w), CallTypes
  PROVE  /\ pc' \in [Writer -> {"idle", "looked", "saved", "writing"}]
         /\ op' \in [Writer -> OpType]
         /\ alone' \in [Writer -> BOOLEAN]
<1>1. NoOp \in OpType
  BY DEF NoOp, OpType, Slot
<1> QED BY <1>1 DEF Return, CallTypes

\* A commit that fails withdraws its mark and returns.
LEMMA GiveUpFacts ==
  ASSUME NEW w \in Writer, GiveUp(w), CallTypes
  PROVE  /\ mark' \in [Uid -> {"none", "upsert", "delete"}] /\ old' \subseteq Uid
         /\ Return(w)
  BY DEF GiveUp, CallTypes, marks

\* Every step keeps the types of the calls, the marks and the promises.
LEMMA CallsStep ==
  ASSUME RecipeInv, [Next]_vars
  PROVE  CallTypes'
<1> CallTypes /\ FileTypes
  BY TypeParts DEF RecipeInv
<1>1. ASSUME CallsKept PROVE CallTypes'
  BY <1>1 DEF CallsKept, CallTypes
<1>2. CASE UNCHANGED vars
  BY <1>1, <1>2 DEF vars, CallsKept
<1>3. CASE WorldStep
  <2>1. ASSUME NEW u \in Uid, NEW r, ExternalEdit(u, r) \/ Propagate(u) PROVE CallTypes'
    BY <1>1, <2>1 DEF ExternalEdit, Propagate, CallsKept, marks, calls, history
  <2>2. ASSUME NEW u \in Uid, Age(u) PROVE CallTypes'
    BY <2>2 DEF Age, CallTypes, calls, history
  <2> QED BY <1>3, <2>1, <2>2 DEF WorldStep
<1>4. ASSUME NEW w \in Writer, Saving(w) PROVE CallTypes'
  <2>1. PICK o \in OpType : Save(w, o)
    BY <1>4 DEF Saving
  <2> QED BY <2>1 DEF Save, CallTypes, marks, history
<1>5. ASSUME NEW w \in Writer, NEW u \in Uid, LookUp(w, u) PROVE CallTypes'
  <2>1. Pull(u, IF server[u] = Purged THEN None ELSE server[u]) \in OpType
    BY DEF Pull, OpType, FileTypes, Slot
  <2> QED BY <1>5, <2>1 DEF LookUp, CallTypes, marks, history
<1>6. ASSUME NEW w \in Writer, PullRecipe(w) PROVE CallTypes'
  <2>1. CASE Return(w)
    <3>1. UNCHANGED <<mark, old, promise>>
      BY <1>6, <2>1 DEF PullRecipe, Return, marks, history
    <3> QED BY <2>1, <3>1, ReturnFacts DEF CallTypes
  <2>2. CASE ~Return(w)
    BY <1>6, <2>2 DEF PullRecipe, CallTypes, marks, history
  <2> QED BY <2>1, <2>2
<1>7. ASSUME NEW w \in Writer, Respond(w) PROVE CallTypes'
  <2>1. alone' = [alone EXCEPT ![w] = TRUE] \/ alone' = [alone EXCEPT ![w] = FALSE]
    <3>1. alone' = [alone EXCEPT ![w] = ~Disturbed(w, op[w].uid)]
      BY <1>7 DEF Respond
    <3>2. CASE Disturbed(w, op[w].uid)
      BY <3>1, <3>2
    <3>3. CASE ~Disturbed(w, op[w].uid)
      BY <3>1, <3>3
    <3> QED BY <3>2, <3>3
  <2>2. alone' \in [Writer -> BOOLEAN]
    BY <2>1 DEF CallTypes
  <2>3. mark' \in [Uid -> {"none", "upsert", "delete"}] /\ old' \subseteq Uid
    BY <1>7 DEF Respond, CallTypes
  <2>4. promise' \in [Uid -> Hash \cup {"broken"}]
    BY <1>7 DEF Respond, CallTypes
  <2>5. pc' \in [Writer -> {"idle", "looked", "saved", "writing"}] /\ op' = op
    BY <1>7 DEF Respond, CallTypes
  <2> QED BY <2>2, <2>3, <2>4, <2>5 DEF CallTypes
<1>8. ASSUME NEW w \in Writer, RunPut(w) \/ RunRemove(w) PROVE CallTypes'
  BY <1>1, <1>8 DEF RunPut, RunRemove, CallsKept, marks, calls, history
<1>9. ASSUME NEW w \in Writer, NEW L, RunRemoveFail(w) \/ RunFlushFail(w, L) PROVE CallTypes'
  BY <1>9, ReturnFacts, GiveUpFacts DEF RunRemoveFail, RunFlushFail, CallTypes
<1>10. ASSUME NEW w \in Writer, RunFlush(w) PROVE CallTypes'
  <2>1. op[w].row \in Slot
    BY <1>10, WriterFacts DEF RunFlush
  <2>2. Live(op[w].row) \in Hash
    BY <2>1, SlotFacts
  <2>3. promise' \in [Uid -> Hash \cup {"broken"}]
    BY <1>10, <2>2 DEF RunFlush, CallTypes
  <2>4. UNCHANGED <<mark, old>> /\ Return(w)
    BY <1>10 DEF RunFlush, marks
  <2> QED BY <2>3, <2>4, ReturnFacts DEF CallTypes
<1>11. CASE SyncFinish
  BY <1>11 DEF SyncFinish, CallTypes, calls, history
<1>12. CASE CycleSweep
  BY <1>12 DEF CycleSweep, CallTypes, calls, history
<1>13. ASSUME NEW L, Crash(L) PROVE CallTypes'
  <2>1. NoOp \in OpType
    BY DEF NoOp, OpType, Slot
  <2> QED BY <1>13, <2>1 DEF Crash, CallTypes
<1>14. ASSUME NEW w \in Writer, CallStep(w) PROVE CallTypes'
  BY <1>4, <1>5, <1>6, <1>7, <1>8, <1>9, <1>10, <1>14 DEF CallStep
<1>15. CASE (\E u \in Uid : RecipeStep(u)) \/ ReconcileStep
  BY <1>1, <1>11, <1>12, <1>15, SyncKeepsCalls DEF ReconcileStep
<1> QED BY <1>2, <1>3, <1>13, <1>14, <1>15, StepCases

\* What a reconcile holds once it is over.
LEMMA EndFacts ==
  /\ Forget => entries' \in [Uid -> Hash] /\ got' \in [Uid -> Slot] /\ task' = [u \in Uid |-> "none"]
  /\ EndCycle => Forget /\ spc' = "idle"
  BY DEF EndCycle, Forget, Empty, Hash, Slot

\* Every step keeps the types of the reconcile.
LEMMA SyncsStep ==
  ASSUME RecipeInv, [Next]_vars
  PROVE  SyncTypes'
<1> SyncTypes /\ FileTypes
  BY TypeParts DEF RecipeInv
<1>1. ASSUME SyncKept PROVE SyncTypes'
  BY <1>1 DEF SyncKept, SyncTypes
<1>2. CASE UNCHANGED vars
  BY <1>1, <1>2 DEF vars, SyncKept
<1>3. ASSUME EndCycle PROVE SyncTypes'
  BY <1>3, EndFacts DEF SyncTypes
<1>4. ASSUME NEW u \in Uid, NEW r \in Recipe \cup {Purged}, SyncFetch(u, r) PROVE SyncTypes'
  BY <1>4 DEF SyncFetch, SyncTypes, Slot
<1>5. ASSUME NEW u \in Uid, SyncFetchFail(u) \/ SyncArrive(u) PROVE SyncTypes'
  BY <1>5 DEF SyncFetchFail, SyncArrive, SyncTypes
<1>6. ASSUME NEW u \in Uid, RunLand(u) \/ RunDrop(u) \/ RunDropFail(u) PROVE SyncTypes'
  BY <1>6 DEF RunLand, RunDrop, RunDropFail, SyncTypes
<1>7. CASE SyncList
  <2>1. \A u \in Uid : Live(listed[u]) \in Hash
    <3>1. ASSUME NEW u \in Uid PROVE Live(listed[u]) \in Hash
      BY RecipeFacts, SlotFacts DEF FileTypes, Live, Hash, Slot
    <3> QED BY <3>1
  <2> QED BY <1>7, <2>1 DEF SyncList, SyncTypes
<1>8. CASE SyncDiff
  BY <1>8 DEF SyncDiff, SyncTypes
<1>9. CASE SyncLanded \/ SyncPartial \/ CycleFlush
  BY <1>9 DEF SyncLanded, SyncPartial, CycleFlush, SyncTypes
<1>10. CASE SyncFinish
  BY <1>10, EndFacts DEF SyncFinish, SyncTypes
<1>11. CASE RunCycleFlush
  BY <1>3, <1>11 DEF RunCycleFlush, SyncTypes
<1>12. ASSUME NEW L, RunCycleFlushFail(L) \/ Crash(L) PROVE SyncTypes'
  BY <1>3, <1>12 DEF RunCycleFlushFail, Crash
<1>13. CASE SyncNothing \/ SyncUndropped \/ CycleSweep \/ CycleFail
  BY <1>3, <1>13 DEF SyncNothing, SyncUndropped, CycleSweep, CycleFail
<1>14. ASSUME NEW u \in Uid, RecipeStep(u) PROVE SyncTypes'
  BY <1>4, <1>5, <1>6, <1>14 DEF RecipeStep
<1>15. CASE ReconcileStep
  BY <1>7, <1>8, <1>9, <1>10, <1>11, <1>12, <1>13, <1>15 DEF ReconcileStep
<1> QED BY <1>1, <1>2, <1>12, <1>14, <1>15, CallsKeepSync, StepCases

\* Every step keeps to the bounds.
LEMMA BoundsStep ==
  ASSUME RecipeInv, [Next]_vars
  PROVE  BoundTypes'
<1> BoundTypes /\ MaxEdits \in Nat /\ MaxFaults \in Nat
  BY TypeParts, BoundAssumption DEF RecipeInv
<1>1. ASSUME UNCHANGED <<edits, faults>> PROVE BoundTypes'
  BY <1>1 DEF BoundTypes
<1>2. ASSUME edits < MaxEdits, edits' = edits + 1, faults' = faults PROVE BoundTypes'
  BY <1>2 DEF BoundTypes
<1>3. ASSUME NEW k, Fail(k), edits' = edits PROVE BoundTypes'
  BY <1>3 DEF Fail, BoundTypes
<1>4. CASE UNCHANGED vars
  BY <1>1, <1>4 DEF vars
<1>5. ASSUME NEW u, NEW r, ExternalEdit(u, r) PROVE BoundTypes'
  BY <1>2, <1>5 DEF ExternalEdit
<1>6. ASSUME NEW u, Propagate(u) \/ Age(u) PROVE BoundTypes'
  BY <1>1, <1>6 DEF Propagate, Age, bounds
<1>7. ASSUME NEW w \in Writer, CallStep(w) PROVE BoundTypes'
  <2>1. ASSUME NEW o, Save(w, o) PROVE BoundTypes'
    BY <1>2, <2>1 DEF Save
  <2>2. ASSUME NEW u, LookUp(w, u) \/ PullRecipe(w) \/ Respond(w) \/ RunPut(w) PROVE BoundTypes'
    BY <1>1, <2>2 DEF LookUp, PullRecipe, Respond, RunPut, bounds
  <2>3. ASSUME RunRemove(w) \/ RunFlush(w) PROVE BoundTypes'
    BY <1>1, <2>3 DEF RunRemove, RunFlush, bounds
  <2>4. ASSUME NEW L, RunRemoveFail(w) \/ RunFlushFail(w, L) PROVE BoundTypes'
    BY <1>3, <2>4 DEF RunRemoveFail, RunFlushFail
  <2> QED BY <1>7, <2>1, <2>2, <2>3, <2>4 DEF CallStep, Saving
<1>8. ASSUME NEW u \in Uid, RecipeStep(u) PROVE BoundTypes'
  <2>1. ASSUME NEW r, SyncFetch(u, r) \/ SyncArrive(u) \/ RunLand(u) \/ RunDrop(u) PROVE BoundTypes'
    BY <1>1, <2>1 DEF SyncFetch, SyncArrive, RunLand, RunDrop, bounds
  <2>2. ASSUME SyncFetchFail(u) \/ RunDropFail(u) PROVE BoundTypes'
    BY <1>3, <2>2 DEF SyncFetchFail, RunDropFail
  <2> QED BY <1>8, <2>1, <2>2 DEF RecipeStep
<1>9. CASE SyncList \/ SyncDiff \/ SyncLanded \/ SyncPartial \/ SyncNothing \/ SyncUndropped
  BY <1>1, <1>9 DEF SyncList, SyncDiff, SyncLanded, SyncPartial, SyncNothing, SyncUndropped, bounds
<1>10. CASE SyncFinish \/ CycleFlush \/ RunCycleFlush \/ CycleSweep
  BY <1>1, <1>10 DEF SyncFinish, CycleFlush, RunCycleFlush, CycleSweep, bounds
<1>11. CASE CycleFail
  BY <1>3, <1>11 DEF CycleFail
<1>12. ASSUME NEW L, RunCycleFlushFail(L) \/ Crash(L) PROVE BoundTypes'
  BY <1>3, <1>12 DEF RunCycleFlushFail, Crash
<1>13. CASE WorldStep
  BY <1>5, <1>6, <1>13 DEF WorldStep
<1>14. CASE ReconcileStep
  BY <1>9, <1>10, <1>11, <1>12, <1>14 DEF ReconcileStep
<1> QED BY <1>4, <1>7, <1>8, <1>12, <1>13, <1>14, StepCases

----------------------------------------------------------------------------
\* The jobs and those who wait for them.

\* A job still fits if its call still writes and its reconcile still waits for it.
LEMMA FitsKept ==
  ASSUME NEW i \in Jobs, Fits(i),
         i.by \in Writer => pc'[i.by] = "writing" /\ op'[i.by] = op[i.by],
         i.by \in Uid /\ task[i.by] \in {"landing", "dropping"} => task'[i.by] = task[i.by],
         i.by = Cycle /\ spc \in {"partial", "flushing"} => spc' = spc
  PROVE  Fits(i)'
<1>1. CASE i.by \in Writer
  <2>1. i.kind \in {"put", "remove", "flush"} /\ i.by # Cycle
    BY <1>1, JobOwner
  <2> QED BY <1>1, <2>1 DEF Fits
<1>2. CASE i.by \in Uid
  <2>1. i.kind \in {"land", "drop"} /\ i.by # Cycle /\ i.by \notin Writer
    BY <1>2, JobOwner
  <2> QED BY <1>2, <2>1 DEF Fits
<1>3. CASE i.by = Cycle
  <2>1. i.kind = "flush" /\ i.by \notin Writer
    BY <1>3, JobOwner
  <2> QED BY <1>3, <2>1 DEF Fits
<1> QED BY <1>1, <1>2, <1>3, JobOwner

\* Who waits for nothing has no job.
LEMMA NoJob ==
  ASSUME queue \in Seq(Jobs), QueueInv
  PROVE  /\ \A w \in Writer : pc[w] # "writing" => ~HasJob(w)
         /\ \A u \in Uid : task[u] \notin {"landing", "dropping"} => ~HasJob(u)
         /\ spc \notin {"partial", "flushing"} => ~HasJob(Cycle)
<1>1. ASSUME NEW m \in Place
      PROVE  LET b == queue[m].by IN
               \/ b \in Writer /\ b \notin Uid /\ b # Cycle /\ pc[b] = "writing"
               \/ b \in Uid /\ b \notin Writer /\ b # Cycle /\ task[b] \in {"landing", "dropping"}
               \/ b = Cycle /\ b \notin Uid /\ b \notin Writer /\ spc \in {"partial", "flushing"}
  <2>1. PICK i \in Jobs : i = queue[m] /\ Fits(i)
    BY ElementOfSeq DEF Place, QueueInv
  <2> QED BY <2>1, JobOwner DEF Fits
<1>2. ASSUME NEW w \in Writer, HasJob(w) PROVE pc[w] = "writing"
  BY <1>1, <1>2 DEF HasJob
<1>3. ASSUME NEW u \in Uid, HasJob(u) PROVE task[u] \in {"landing", "dropping"}
  BY <1>1, <1>3 DEF HasJob
<1>4. ASSUME HasJob(Cycle) PROVE spc \in {"partial", "flushing"}
  BY <1>1, <1>4 DEF HasJob
<1> QED BY <1>2, <1>3, <1>4

\* A call that stays where it is keeps its invariant as long as it keeps its job.
LEMMA CallKept ==
  ASSUME NEW w \in Writer, CallInv(w), pc'[w] = pc[w], op'[w] = op[w], HasJob(w) => HasJob(w)'
  PROVE  CallInv(w)'
  BY DEF CallInv

\* The jobs and the calls stay in order.
JobsInOrder == queue' \in Seq(Jobs) /\ QueueInv' /\ \A w \in Writer : CallInv(w)'
OrderKept == \A w \in Writer : First(w) => First(w)'

\* The reconcile, and the world, leave the calls alone, and their own jobs while they wait for them.
LEMMA JobsOfSync ==
  ASSUME RecipeInv, pc' = pc, op' = op, queue' = queue,
         \A u \in Uid : task[u] \in {"landing", "dropping"} => task'[u] = task[u],
         spc \in {"partial", "flushing"} => spc' = spc
  PROVE  JobsInOrder /\ OrderKept
<1>1. queue \in Seq(Jobs) /\ QueueInv /\ \A w \in Writer : CallInv(w)
  BY TypeParts DEF RecipeInv
<1>2. ASSUME NEW i \in Jobs, Fits(i) PROVE Fits(i)'
  <2>1. i.by \in Writer => pc'[i.by] = "writing"
    BY <1>2 DEF Fits
  <2> QED BY <1>2, <2>1, FitsKept
<1>3. QueueInv' /\ \A b : HasJob(b) => HasJob(b)'
  BY <1>1, <1>2, QueueSame
<1>9. OrderKept
  BY <1>1, FirstSame DEF OrderKept
<1> QED BY <1>9, <1>1, <1>3, CallKept DEF JobsInOrder

\* A job of the reconcile joins.
LEMMA JobOfSyncJoins ==
  ASSUME RecipeInv, pc' = pc, op' = op, NEW j \in Jobs, j.by \notin Writer, queue' = Append(queue, j),
         ~HasJob(j.by), Fits(j)',
         \A u \in Uid : task[u] \in {"landing", "dropping"} => task'[u] = task[u],
         spc \in {"partial", "flushing"} => spc' = spc
  PROVE  JobsInOrder /\ OrderKept
<1>1. queue \in Seq(Jobs) /\ QueueInv /\ \A w \in Writer : CallInv(w)
  BY TypeParts DEF RecipeInv
<1>2. ASSUME NEW i \in Jobs, Fits(i) PROVE Fits(i)'
  <2>1. i.by \in Writer => pc'[i.by] = "writing"
    BY <1>2 DEF Fits
  <2> QED BY <1>2, <2>1, FitsKept
<1>3. queue' \in Seq(Jobs) /\ QueueInv' /\ \A b : HasJob(b) => HasJob(b)'
  BY <1>1, <1>2, QueueAdd
<1>9. OrderKept
  BY <1>1, FirstAdd DEF OrderKept
<1> QED BY <1>9, <1>1, <1>3, CallKept DEF JobsInOrder

\* A job of the reconcile is done.
LEMMA JobOfSyncEnds ==
  ASSUME RecipeInv, pc' = pc, op' = op, NEW k, NEW b, b \notin Writer, Running(k, b), queue' = Tail(queue),
         \A u \in Uid \ {b} : task[u] \in {"landing", "dropping"} => task'[u] = task[u],
         b # Cycle /\ spc \in {"partial", "flushing"} => spc' = spc
  PROVE  JobsInOrder /\ OrderKept
<1>1. queue \in Seq(Jobs) /\ QueueInv /\ \A w \in Writer : CallInv(w)
  BY TypeParts DEF RecipeInv
<1>2. queue # <<>> /\ Head(queue).by = b
  BY <1>1, RunningFacts
<1>3. ASSUME NEW i \in Jobs, Fits(i), i.by # b PROVE Fits(i)'
  <2>1. i.by \in Writer => pc'[i.by] = "writing"
    BY <1>3 DEF Fits
  <2> QED BY <1>3, <2>1, FitsKept
<1>4. queue' \in Seq(Jobs) /\ QueueInv' /\ \A c : HasJob(c) /\ c # b => HasJob(c)'
  BY <1>1, <1>2, <1>3, QueueTail
<1>9. OrderKept
  BY <1>1, <1>2, FirstTail DEF OrderKept
<1> QED BY <1>9, <1>1, <1>4, CallKept DEF JobsInOrder

\* A call that does not write moves on, and may start to write.
LEMMA JobsOfCall ==
  ASSUME RecipeInv, SyncKept, NEW w \in Writer, pc[w] # "writing",
         \A v \in Writer \ {w} : pc'[v] = pc[v] /\ op'[v] = op[v],
         pc'[w] # "idle" => op'[w].uid \in Uid, pc'[w] = "saved" => ~op'[w].pull,
         \/ queue' = queue /\ pc'[w] # "writing"
         \/ \E j \in Jobs : /\ queue' = Append(queue, j) /\ j.by = w /\ pc'[w] = "writing"
                            /\ j.kind = "put" => op'[w].row # None
  PROVE  JobsInOrder
<1>1. queue \in Seq(Jobs) /\ QueueInv /\ \A v \in Writer : CallInv(v)
  BY TypeParts DEF RecipeInv
<1>2. ASSUME NEW i \in Jobs, Fits(i) PROVE Fits(i)'
  <2>1. i.by \in Writer => pc'[i.by] = "writing" /\ op'[i.by] = op[i.by]
    BY <1>2 DEF Fits
  <2> QED BY <1>2, <2>1, FitsKept DEF SyncKept
<1>3. CASE queue' = queue /\ pc'[w] # "writing"
  <2>1. QueueInv' /\ \A b : HasJob(b) => HasJob(b)'
    BY <1>1, <1>2, <1>3, QueueSame
  <2>2. CallInv(w)'
    BY <1>3 DEF CallInv
  <2> QED BY <1>1, <1>3, <2>1, <2>2, CallKept DEF JobsInOrder
<1>4. ASSUME NEW j \in Jobs, queue' = Append(queue, j), j.by = w, pc'[w] = "writing",
             j.kind = "put" => op'[w].row # None
      PROVE  JobsInOrder
  <2>1. ~HasJob(w)
    BY <1>1, NoJob
  <2>2. Fits(j)'
    <3>1. j.kind \in {"put", "remove", "flush"} /\ j.by # Cycle
      BY <1>4, JobOwner
    <3> QED BY <1>4, <3>1 DEF Fits
  <2>3. queue' \in Seq(Jobs) /\ QueueInv' /\ HasJob(w)' /\ \A b : HasJob(b) => HasJob(b)'
    BY <1>1, <1>2, <1>4, <2>1, <2>2, QueueAdd
  <2>4. CallInv(w)'
    BY <1>4, <2>3 DEF CallInv
  <2> QED BY <1>1, <2>3, <2>4, CallKept DEF JobsInOrder
<1> QED BY <1>3, <1>4

\* A call's job goes on to its flush.
LEMMA JobGoesOn ==
  ASSUME RecipeInv, SyncKept, pc' = pc, op' = op, NEW w \in Writer, NEW k, Running(k, w),
         queue' = Append(Tail(queue), Job("flush", w))
  PROVE  JobsInOrder
<1>1. queue \in Seq(Jobs) /\ QueueInv /\ \A v \in Writer : CallInv(v)
  BY TypeParts DEF RecipeInv
<1>2. queue # <<>> /\ Head(queue).by = w /\ pc[w] = "writing"
  BY <1>1, RunningFacts, WriterFacts
<1>3. Job("flush", w) \in Jobs /\ Job("flush", w).by = w /\ Job("flush", w).kind = "flush"
  BY JobFacts, JobFields
<1>4. ASSUME NEW i \in Jobs, Fits(i) PROVE Fits(i)'
  <2>1. i.by \in Writer => pc'[i.by] = "writing"
    BY <1>4 DEF Fits
  <2> QED BY <1>4, <2>1, FitsKept DEF SyncKept
<1>5. Fits(Job("flush", w))'
  <2>1. w # Cycle
    BY NamesAssumption
  <2> QED BY <1>2, <1>3, <2>1 DEF Fits
<1>6. queue' \in Seq(Jobs) /\ QueueInv' /\ \A b : HasJob(b) => HasJob(b)'
  BY <1>1, <1>2, <1>3, <1>4, <1>5, QueueTurn
<1> QED BY <1>1, <1>6, CallKept DEF JobsInOrder

\* A call returns as its job ends.
LEMMA JobReturns ==
  ASSUME RecipeInv, SyncKept, NEW w \in Writer, NEW k, Running(k, w), Return(w), queue' = Tail(queue)
  PROVE  JobsInOrder
<1>1. queue \in Seq(Jobs) /\ QueueInv /\ CallTypes /\ \A v \in Writer : CallInv(v)
  BY TypeParts DEF RecipeInv
<1>2. queue # <<>> /\ Head(queue).by = w
  BY <1>1, RunningFacts
<1>3. pc'[w] = "idle" /\ \A v \in Writer \ {w} : pc'[v] = pc[v] /\ op'[v] = op[v]
  BY <1>1 DEF Return, CallTypes
<1>4. ASSUME NEW i \in Jobs, Fits(i), i.by # w PROVE Fits(i)'
  <2>1. i.by \in Writer => pc'[i.by] = "writing" /\ op'[i.by] = op[i.by]
    BY <1>3, <1>4 DEF Fits
  <2> QED BY <1>4, <2>1, FitsKept DEF SyncKept
<1>5. queue' \in Seq(Jobs) /\ QueueInv' /\ \A c : HasJob(c) /\ c # w => HasJob(c)'
  BY <1>1, <1>2, <1>4, QueueTail
<1>6. CallInv(w)'
  BY <1>3 DEF CallInv
<1> QED BY <1>1, <1>3, <1>5, <1>6, CallKept DEF JobsInOrder

\* Every step of a call keeps them in order ...
LEMMA JobsCall ==
  ASSUME RecipeInv, NEW w \in Writer, CallStep(w)
  PROVE  JobsInOrder
<1> CallTypes /\ CallInv(w)
  BY TypeParts DEF RecipeInv
<1>0. SyncKept
  BY CallsKeepSync
<1>1. CASE Saving(w)
  <2>1. PICK o \in OpType : o.uid \in Uid /\ o.pull = FALSE /\ pc[w] \in {"idle", "looked"} /\ Save(w, o)
    BY <1>1 DEF Saving
  <2>2. queue' = queue /\ pc' = [pc EXCEPT ![w] = "saved"] /\ op' = [op EXCEPT ![w] = o]
    BY <2>1 DEF Save
  <2>3. pc'[w] = "saved" /\ op'[w] = o /\ \A v \in Writer \ {w} : pc'[v] = pc[v] /\ op'[v] = op[v]
    BY <2>2 DEF CallTypes
  <2>4. pc[w] # "writing"
    BY <2>1
  <2> QED BY <1>0, <2>1, <2>2, <2>3, <2>4, JobsOfCall
<1>2. ASSUME NEW u \in Uid, LookUp(w, u) PROVE JobsInOrder
  <2>1. /\ queue' = queue /\ pc[w] = "idle" /\ pc' = [pc EXCEPT ![w] = "looked"]
        /\ op' = [op EXCEPT ![w] = Pull(u, IF server[u] = Purged THEN None ELSE server[u])]
    BY <1>2 DEF LookUp
  <2>2. pc'[w] = "looked" /\ op'[w].uid = u /\ \A v \in Writer \ {w} : pc'[v] = pc[v] /\ op'[v] = op[v]
    BY <2>1 DEF CallTypes, Pull
  <2> QED BY <1>0, <2>1, <2>2, JobsOfCall
<1>3. CASE PullRecipe(w)
  <2>0. pc[w] = "looked" /\ op[w].uid \in Uid
    BY <1>3 DEF PullRecipe, CallInv
  <2>1. CASE Return(w) /\ queue' = queue
    <3>1. pc'[w] = "idle" /\ \A v \in Writer \ {w} : pc'[v] = pc[v] /\ op'[v] = op[v]
      BY <2>1 DEF Return, CallTypes
    <3> QED BY <1>0, <2>0, <2>1, <3>1, JobsOfCall
  <2>2. ASSUME pc' = [pc EXCEPT ![w] = "writing"], op' = op,
               queue' = Append(queue, Job(IF op[w].row = None THEN "remove" ELSE "put", w))
        PROVE  JobsInOrder
    <3>1. pc'[w] = "writing" /\ \A v \in Writer \ {w} : pc'[v] = pc[v]
      BY <2>2 DEF CallTypes
    <3>2. PICK j \in Jobs : /\ queue' = Append(queue, j) /\ j.by = w
                            /\ j.kind = "put" => op'[w].row # None
      BY <2>2, JobFacts, JobFields
    <3> QED BY <1>0, <2>0, <2>2, <3>1, <3>2, JobsOfCall
  <2> QED BY <1>3, <2>1, <2>2 DEF PullRecipe
<1>4. CASE Respond(w)
  <2>1. /\ pc[w] = "saved" /\ pc' = [pc EXCEPT ![w] = "writing"] /\ op' = op
        /\ queue' = Append(queue, Job(IF op[w].row = None THEN "remove" ELSE "put", w))
    BY <1>4 DEF Respond
  <2>2. op[w].uid \in Uid /\ pc'[w] = "writing" /\ \A v \in Writer \ {w} : pc'[v] = pc[v]
    BY <2>1 DEF CallTypes, CallInv
  <2>3. PICK j \in Jobs : /\ queue' = Append(queue, j) /\ j.by = w
                          /\ j.kind = "put" => op'[w].row # None
    BY <2>1, JobFacts, JobFields
  <2> QED BY <1>0, <2>1, <2>2, <2>3, JobsOfCall
<1>5. CASE RunPut(w) \/ RunRemove(w)
  <2>1. PICK k \in {"put", "remove"} : Running(k, w)
    BY <1>5 DEF RunPut, RunRemove
  <2>2. queue' = Append(Tail(queue), Job("flush", w)) /\ pc' = pc /\ op' = op
    BY <1>5 DEF RunPut, RunRemove, calls
  <2> QED BY <1>0, <2>1, <2>2, JobGoesOn
<1>6. CASE RunRemoveFail(w)
  <2>1. Running("remove", w) /\ Return(w) /\ queue' = Tail(queue)
    BY <1>6, GiveUpFacts DEF RunRemoveFail
  <2> QED BY <1>0, <2>1, JobReturns
<1>7. ASSUME NEW L, RunFlush(w) \/ RunFlushFail(w, L) PROVE JobsInOrder
  <2>1. Running("flush", w) /\ Return(w) /\ queue' = Tail(queue)
    BY <1>7, GiveUpFacts DEF RunFlush, RunFlushFail
  <2> QED BY <1>0, <2>1, JobReturns
<1> QED BY <1>1, <1>2, <1>3, <1>4, <1>5, <1>6, <1>7 DEF CallStep

\* ... every step of a reconcile about a recipe ...
LEMMA JobsRecipe ==
  ASSUME RecipeInv, NEW u \in Uid, RecipeStep(u)
  PROVE  JobsInOrder /\ OrderKept
<1> SyncTypes /\ queue \in Seq(Jobs) /\ QueueInv
  BY TypeParts DEF RecipeInv
<1>0. pc' = pc /\ op' = op
  BY SyncKeepsCalls DEF CallsKept
<1>8. u # Cycle /\ u \notin Writer
  BY NamesAssumption
<1>1. ASSUME NEW r, SyncFetch(u, r) \/ SyncFetchFail(u) PROVE JobsInOrder /\ OrderKept
  <2>1. queue' = queue /\ spc' = spc /\ task[u] = "asked"
    BY <1>1 DEF SyncFetch, SyncFetchFail
  <2>2. \A v \in Uid \ {u} : task'[v] = task[v]
    BY <1>1 DEF SyncFetch, SyncFetchFail, SyncTypes
  <2>3. \A v \in Uid : task[v] \in {"landing", "dropping"} => task'[v] = task[v]
    BY <2>1, <2>2
  <2> QED BY <1>0, <2>1, <2>3, JobsOfSync
<1>2. CASE SyncArrive(u)
  <2>1. /\ queue' = Append(queue, Job("land", u)) /\ spc' = spc /\ task[u] = "answered"
        /\ task' = [task EXCEPT ![u] = "landing"]
    BY <1>2 DEF SyncArrive
  <2>2. task'[u] = "landing" /\ \A v \in Uid \ {u} : task'[v] = task[v]
    BY <2>1 DEF SyncTypes
  <2>3. \A v \in Uid : task[v] \in {"landing", "dropping"} => task'[v] = task[v]
    BY <2>1, <2>2
  <2>4. Job("land", u) \in Jobs /\ Job("land", u).by = u /\ Job("land", u).kind = "land"
    BY JobFacts, JobFields
  <2>5. ~HasJob(u)
    BY <2>1, NoJob
  <2>6. Fits(Job("land", u))'
    BY <1>8, <2>2, <2>4 DEF Fits
  <2> QED BY <1>0, <1>8, <2>1, <2>3, <2>4, <2>5, <2>6, JobOfSyncJoins
<1>3. CASE RunLand(u) \/ RunDrop(u) \/ RunDropFail(u)
  <2>1. PICK k \in {"land", "drop"} : Running(k, u)
    BY <1>3 DEF RunLand, RunDrop, RunDropFail
  <2>2. queue' = Tail(queue) /\ spc' = spc
    BY <1>3 DEF RunLand, RunDrop, RunDropFail
  <2>3. \A v \in Uid \ {u} : task'[v] = task[v]
    BY <1>3 DEF RunLand, RunDrop, RunDropFail, SyncTypes
  <2> QED BY <1>0, <1>8, <2>1, <2>2, <2>3, JobOfSyncEnds
<1> QED BY <1>1, <1>2, <1>3 DEF RecipeStep

\* Between the fetches and the removes, and outside them, no recipe waits for the mutex.
LEMMA NoneWaits ==
  ASSUME RecipeInv
  PROVE  /\ Fetched \/ Dropped \/ spc \notin {"fetching", "dropping"}
              => \A u \in Uid : task[u] \notin {"landing", "dropping"}
         /\ Fetched => spc = "fetching" /\ \A u \in Uid : task[u] \notin {"asked", "answered", "landing"}
         /\ Dropped => spc = "dropping" /\ \A u \in Uid : task[u] \notin {"asked", "answered", "landing", "dropping"}
  BY DEF RecipeInv, TaskInv, Fetched, Dropped, InTask

\* ... and every other step of it.
LEMMA JobsReconcile ==
  ASSUME RecipeInv, ReconcileStep
  PROVE  JobsInOrder /\ OrderKept
<1> SyncTypes /\ queue \in Seq(Jobs) /\ QueueInv
  BY TypeParts DEF RecipeInv
<1>0. pc' = pc /\ op' = op
  <2>1. CASE SyncFinish
    BY <2>1 DEF SyncFinish, calls
  <2>2. CASE CycleSweep
    BY <2>2 DEF CycleSweep, calls
  <2> QED BY <2>1, <2>2, SyncKeepsCalls DEF CallsKept, ReconcileStep
<1>1. CASE SyncList \/ SyncDiff \/ CycleSweep \/ CycleFail
  <2>1. queue' = queue
    BY <1>1 DEF SyncList, SyncDiff, CycleSweep, CycleFail
  <2>2. spc \in {"idle", "listed", "flushed", "reconciled"}
    BY <1>1 DEF SyncList, SyncDiff, CycleSweep, CycleFail
  <2> QED BY <1>0, <2>1, <2>2, NoneWaits, JobsOfSync
<1>2. CASE SyncNothing \/ SyncUndropped \/ SyncFinish
  <2>1. queue' = queue
    BY <1>2 DEF SyncNothing, SyncUndropped, SyncFinish
  <2>2. Fetched \/ Dropped
    BY <1>2 DEF SyncNothing, SyncUndropped, SyncFinish
  <2> QED BY <1>0, <2>1, <2>2, NoneWaits, JobsOfSync
<1>3. CASE SyncLanded
  <2>1. Fetched /\ spc' = "dropping" /\ task' = [u \in Uid |-> IF task[u] = "gone" THEN "dropping" ELSE task[u]]
    BY <1>3 DEF SyncLanded
  <2>2. PICK s \in Removes(InTask({"gone"})) : queue' = queue \o s
    BY <1>3 DEF SyncLanded
  <2>3. InTask({"gone"}) \in SUBSET Uid /\ \A u \in InTask({"gone"}) : task[u] = "gone" /\ task'[u] = "dropping"
    BY <2>1 DEF InTask
  <2>4. \A u \in InTask({"gone"}) : ~HasJob(u)
    BY <2>3, NoJob
  <2>5. spc \notin {"partial", "flushing"} /\ \A u \in Uid : task[u] \notin {"landing", "dropping"}
    BY <2>1, NoneWaits
  <2>6. ASSUME NEW i \in Jobs, Fits(i) PROVE Fits(i)'
    <3>1. i.by \in Writer => pc'[i.by] = "writing"
      BY <1>0, <2>6 DEF Fits
    <3> QED BY <1>0, <2>5, <2>6, <3>1, FitsKept
  <2>7. queue' \in Seq(Jobs) /\ QueueInv' /\ \A b : HasJob(b) => HasJob(b)'
    BY <2>2, <2>3, <2>4, <2>6, QueueJoin
  <2>8. OrderKept
    BY <1>0, <2>2, <2>3, <2>4, <2>6, QueueJoin DEF OrderKept
  <2> QED BY <1>0, <2>7, <2>8, CallKept DEF JobsInOrder, RecipeInv
<1>4. CASE SyncPartial \/ CycleFlush
  <2>1. queue' = Append(queue, Job("flush", Cycle)) /\ spc' \in {"partial", "flushing"} /\ task' = task
    BY <1>4 DEF SyncPartial, CycleFlush
  <2>2. spc \in {"fetching", "reconciled"}
    BY <1>4, NoneWaits DEF SyncPartial, CycleFlush
  <2>3. ~HasJob(Cycle)
    BY <2>2, NoJob
  <2>4. Job("flush", Cycle) \in Jobs /\ Job("flush", Cycle).by = Cycle /\ Job("flush", Cycle).kind = "flush"
    BY JobFacts, JobFields
  <2>5. Cycle \notin Writer
    BY NamesAssumption
  <2>6. Fits(Job("flush", Cycle))'
    BY <2>1, <2>4, <2>5 DEF Fits
  <2> QED BY <1>0, <2>1, <2>2, <2>3, <2>4, <2>5, <2>6, JobOfSyncJoins
<1>5. ASSUME NEW L, RunCycleFlush \/ RunCycleFlushFail(L) PROVE JobsInOrder /\ OrderKept
  <2>1. Running("flush", Cycle) /\ queue' = Tail(queue)
    BY <1>5 DEF RunCycleFlush, RunCycleFlushFail
  <2>2. Fits(Head(queue)) /\ Head(queue).by = Cycle
    BY <2>1, RunningFacts
  <2>3. spc \in {"partial", "flushing"}
    BY <2>2 DEF Fits
  <2>4. Cycle \notin Writer
    BY NamesAssumption
  <2> QED BY <1>0, <2>1, <2>3, <2>4, NoneWaits, JobOfSyncEnds
<1> QED BY <1>1, <1>2, <1>3, <1>4, <1>5 DEF ReconcileStep

\* Every step keeps the jobs, and those who wait for them, in order.
LEMMA JobsStep ==
  ASSUME RecipeInv, [Next]_vars
  PROVE  JobsInOrder
<1>1. CASE UNCHANGED vars
  BY <1>1, JobsOfSync DEF vars
<1>2. CASE WorldStep
  <2>1. ASSUME NEW u, NEW r, Propagate(u) \/ Age(u) \/ ExternalEdit(u, r)
        PROVE  UNCHANGED <<pc, op, queue, task, spc>>
    BY <2>1 DEF Propagate, Age, ExternalEdit, calls, cycle
  <2> QED BY <1>2, <2>1, JobsOfSync DEF WorldStep
<1>3. ASSUME NEW L, Crash(L) PROVE JobsInOrder
  <2>1. queue' = <<>> /\ \A w \in Writer : pc'[w] = "idle"
    BY <1>3 DEF Crash
  <2>2. Place' = {}
    BY <2>1, EmptySeq DEF Place
  <2>3. queue' \in Seq(Jobs)
    BY <2>1, EmptySeq
  <2> QED BY <2>1, <2>2, <2>3 DEF JobsInOrder, QueueInv, Once, CallInv
<1> QED BY <1>1, <1>2, <1>3, JobsCall, JobsRecipe, JobsReconcile, StepCases

----------------------------------------------------------------------------
\* What a reconcile does about each recipe.

\* Every step keeps them in the phase of the reconcile they belong to.
LEMMA TaskStep ==
  ASSUME RecipeInv, [Next]_vars, NEW u \in Uid
  PROVE  TaskInv(u)'
<1> SyncTypes /\ TaskInv(u)
  BY TypeParts DEF RecipeInv
<1>1. ASSUME SyncKept PROVE TaskInv(u)'
  BY <1>1 DEF SyncKept, TaskInv
<1>2. ASSUME EndCycle PROVE TaskInv(u)'
  BY <1>2, EndFacts DEF TaskInv
<1>3. CASE UNCHANGED vars
  BY <1>1, <1>3 DEF vars, SyncKept
<1>4. ASSUME NEW v \in Uid, RecipeStep(v) PROVE TaskInv(u)'
  <2>1. ASSUME NEW r, SyncFetch(v, r) PROVE TaskInv(u)'
    <3>1. spc' = spc /\ task[v] = "asked" /\ TaskInv(v)
      BY <2>1 DEF SyncFetch, RecipeInv
    <3>2. CASE v = u
      <4>1. /\ task'[u] = IF r \in Recipe THEN "answered" ELSE "failed"
            /\ got'[u] = IF r \in Recipe THEN r ELSE None
        BY <2>1, <3>2 DEF SyncFetch, SyncTypes
      <4> QED BY <3>1, <3>2, <4>1, RecipeFacts DEF TaskInv
    <3>3. CASE v # u
      <4>1. task'[u] = task[u] /\ got'[u] = got[u]
        BY <2>1, <3>3 DEF SyncFetch, SyncTypes
      <4> QED BY <3>1, <4>1 DEF TaskInv
    <3> QED BY <3>2, <3>3
  <2>2. CASE SyncFetchFail(v) \/ SyncArrive(v)
    <3>1. spc' = spc /\ got' = got /\ TaskInv(v)
      BY <2>2 DEF SyncFetchFail, SyncArrive, RecipeInv
    <3>2. CASE v = u
      BY <2>2, <3>1, <3>2 DEF SyncFetchFail, SyncArrive, SyncTypes, TaskInv
    <3>3. CASE v # u
      <4>1. task'[u] = task[u]
        BY <2>2, <3>3 DEF SyncFetchFail, SyncArrive, SyncTypes
      <4> QED BY <3>1, <4>1 DEF TaskInv
    <3> QED BY <3>2, <3>3
  <2>3. CASE RunLand(v) \/ RunDrop(v) \/ RunDropFail(v)
    <3>1. spc' = spc /\ got' = got
      BY <2>3 DEF RunLand, RunDrop, RunDropFail
    <3>2. task'[u] = task[u] \/ task'[u] \in {"landed", "dropped", "failed"}
      BY <2>3 DEF RunLand, RunDrop, RunDropFail, SyncTypes
    <3> QED BY <3>1, <3>2 DEF TaskInv
  <2> QED BY <1>4, <2>1, <2>2, <2>3 DEF RecipeStep
<1>5. CASE SyncList \/ CycleFlush
  <2>1. spc \in {"idle", "reconciled"} /\ task' = task
    BY <1>5 DEF SyncList, CycleFlush
  <2> QED BY <2>1 DEF TaskInv
<1>6. CASE SyncDiff
  <2>1. spc' = "fetching" /\ task'[u] \in {"asked", "gone", "none"}
    BY <1>6 DEF SyncDiff
  <2> QED BY <2>1 DEF TaskInv
<1>7. CASE SyncLanded
  <2>1. spc' = "dropping" /\ Fetched /\ task'[u] = IF task[u] = "gone" THEN "dropping" ELSE task[u]
    BY <1>7 DEF SyncLanded
  <2> QED BY <2>1, NoneWaits DEF TaskInv
<1>8. CASE SyncPartial
  <2>1. spc' = "partial" /\ Fetched /\ task' = task
    BY <1>8 DEF SyncPartial
  <2> QED BY <2>1, NoneWaits DEF TaskInv
<1>9. CASE SyncFinish
  <2>1. task'[u] = "none"
    BY <1>9, EndFacts DEF SyncFinish
  <2> QED BY <2>1 DEF TaskInv
<1>10. CASE RunCycleFlush
  <2>1. CASE EndCycle
    BY <1>2, <2>1
  <2>2. CASE ~EndCycle
    <3>1. task' = task /\ Running("flush", Cycle) /\ queue \in Seq(Jobs) /\ QueueInv
      BY <1>10, <2>2, TypeParts DEF RunCycleFlush, RecipeInv
    <3>2. Fits(Head(queue)) /\ Head(queue).by = Cycle
      BY <3>1, RunningFacts
    <3>3. spc \in {"partial", "flushing"}
      BY <3>2 DEF Fits
    <3> QED BY <3>1, <3>3 DEF TaskInv
  <2> QED BY <2>1, <2>2
<1>11. ASSUME NEW L, RunCycleFlushFail(L) \/ Crash(L) PROVE TaskInv(u)'
  BY <1>2, <1>11 DEF RunCycleFlushFail, Crash
<1>12. CASE SyncNothing \/ SyncUndropped \/ CycleSweep \/ CycleFail
  BY <1>2, <1>12 DEF SyncNothing, SyncUndropped, CycleSweep, CycleFail
<1>13. CASE ReconcileStep
  BY <1>5, <1>6, <1>7, <1>8, <1>9, <1>10, <1>11, <1>12, <1>13 DEF ReconcileStep
<1> QED BY <1>1, <1>3, <1>4, <1>11, <1>13, CallsKeepSync, StepCases

----------------------------------------------------------------------------
\* The hashes and what they stand for.

\* A put has the buffer and the hash agree, a remove leaves nothing.
LEMMA HashSet ==
  ASSUME RecipeInv, NEW u \in Uid, NEW x \in Uid, NEW r \in Slot,
         buf' = [buf EXCEPT ![x] = r], hashes' = [hashes EXCEPT ![x] = HashOf(r)],
         index' = index, disk' = IF r = None THEN [disk EXCEPT ![x] = None] ELSE disk,
         task'[u] = "landed" => task[u] = "landed" \/ u = x
  PROVE  HashInv(u)'
<1> FileTypes /\ HashInv(u) /\ HashOf(None) = None
  BY TypeParts, SlotFacts DEF RecipeInv
<1>1. CASE u = x /\ r # None
  BY <1>1 DEF HashInv, FileTypes
<1>2. CASE u # x
  <2>1. buf'[u] = buf[u] /\ hashes'[u] = hashes[u] /\ disk'[u] = disk[u]
    BY <1>2 DEF FileTypes
  <2> QED BY <1>2, <2>1 DEF HashInv
<1>3. CASE u = x /\ r = None
  <2>1. buf'[u] = None /\ hashes'[u] = None /\ disk'[u] = None
    BY <1>3 DEF FileTypes
  <2> QED BY <2>1 DEF HashInv
<1> QED BY <1>1, <1>2, <1>3

\* A flush puts the buffered files under the index that it writes.
LEMMA HashFlush ==
  ASSUME RecipeInv, NEW u \in Uid, WritePending, hashes' = hashes, task'[u] = "landed" => task[u] = "landed"
  PROVE  HashInv(u)'
<1> FileTypes /\ HashInv(u)
  BY TypeParts DEF RecipeInv
<1>1. buf'[u] = None /\ index' = hashes /\ disk'[u] = IF buf[u] # None THEN buf[u] ELSE disk[u]
  BY DEF WritePending, Empty, Written, Buffered
<1> QED BY <1>1 DEF HashInv

\* One that fails may have written all of them; the buffer is only cleared if it has.
LEMMA HashFlushFail ==
  ASSUME RecipeInv, NEW u \in Uid, NEW L, WritePendingFail(L), hashes' = hashes,
         task'[u] = "landed" => task[u] = "landed"
  PROVE  HashInv(u)'
<1> FileTypes /\ HashInv(u)
  BY TypeParts DEF RecipeInv
<1>1. /\ index' = index /\ L \subseteq Buffered /\ disk'[u] = IF u \in L THEN buf[u] ELSE disk[u]
      /\ buf' = buf \/ (L = Buffered /\ buf' = Empty)
  BY DEF WritePendingFail, Written
<1>2. CASE buf[u] = None
  <2>1. disk'[u] = disk[u] /\ buf'[u] = None
    BY <1>1, <1>2 DEF Buffered, Empty
  <2> QED BY <1>1, <1>2, <2>1 DEF HashInv
<1>3. CASE buf[u] # None /\ buf' = buf
  BY <1>3 DEF HashInv
<1>4. CASE buf[u] # None /\ L = Buffered /\ buf' = Empty
  <2>1. disk'[u] = buf[u] /\ buf'[u] = None
    BY <1>1, <1>4 DEF Buffered, Empty
  <2> QED BY <1>1, <1>4, <2>1 DEF HashInv
<1> QED BY <1>1, <1>2, <1>3, <1>4

\* What touches neither file, nor buffer, nor index, leaves the hashes as they are.
LEMMA HashSame ==
  ASSUME RecipeInv, NEW u \in Uid, FilesKept \/ UNCHANGED <<disk, buf, index, hashes>>,
         task'[u] = "landed" => task[u] = "landed"
  PROVE  HashInv(u)'
  BY DEF FilesKept, HashInv, RecipeInv

\* The reconcile lands a recipe with its put only.
LEMMA LandedSame ==
  ASSUME RecipeInv, [Next]_vars, NEW u \in Uid, ~RunLand(u)
  PROVE  task'[u] = "landed" => task[u] = "landed"
<1> SyncTypes
  BY TypeParts DEF RecipeInv
<1>1. CASE UNCHANGED vars \/ SyncKept
  BY <1>1 DEF SyncKept, vars
<1>2. ASSUME EndCycle \/ SyncFinish PROVE task'[u] = "none"
  BY <1>2, EndFacts DEF SyncFinish
<1>3. ASSUME NEW v \in Uid, RecipeStep(v) PROVE task'[u] # "landed" \/ task[u] = "landed"
  <2>1. ASSUME NEW r, SyncFetch(v, r) PROVE task'[u] = task[u] \/ task'[u] \in {"answered", "failed"}
    BY <2>1 DEF SyncFetch, SyncTypes
  <2>2. CASE SyncFetchFail(v) \/ SyncArrive(v) \/ RunDrop(v) \/ RunDropFail(v)
    BY <2>2 DEF SyncFetchFail, SyncArrive, RunDrop, RunDropFail, SyncTypes
  <2>3. ASSUME RunLand(v) PROVE task'[u] = task[u]
    <3>1. v # u
      BY <2>3
    <3> QED BY <2>3, <3>1 DEF RunLand, SyncTypes
  <2> QED BY <1>3, <2>1, <2>2, <2>3 DEF RecipeStep
<1>4. CASE SyncList \/ SyncDiff \/ SyncLanded \/ SyncPartial \/ CycleFlush
  BY <1>4 DEF SyncList, SyncDiff, SyncLanded, SyncPartial, CycleFlush
<1>5. ASSUME NEW L, SyncNothing \/ SyncUndropped \/ CycleSweep \/ CycleFail \/ RunCycleFlushFail(L) \/ Crash(L)
      PROVE  EndCycle
  BY <1>5 DEF SyncNothing, SyncUndropped, CycleSweep, CycleFail, RunCycleFlushFail, Crash
<1>6. CASE RunCycleFlush
  BY <1>2, <1>6 DEF RunCycleFlush
<1>7. CASE ReconcileStep
  BY <1>2, <1>4, <1>5, <1>6, <1>7 DEF ReconcileStep
<1> QED BY <1>1, <1>2, <1>3, <1>5, <1>7, CallsKeepSync, StepCases

\* Every step keeps the hashes true.
LEMMA HashStep ==
  ASSUME RecipeInv, [Next]_vars, NEW u \in Uid
  PROVE  HashInv(u)'
<1>1. CASE RunLand(u)
  <2>1. got[u] \in Recipe /\ got[u] \in Slot /\ HashOf(got[u]) = got[u].body
    BY <1>1, LandFacts, RecipeFacts DEF RunLand
  <2>2. /\ buf' = [buf EXCEPT ![u] = got[u]] /\ hashes' = [hashes EXCEPT ![u] = got[u].body]
        /\ index' = index /\ disk' = disk
    BY <1>1 DEF RunLand, files
  <2>3. hashes' = [hashes EXCEPT ![u] = HashOf(got[u])] /\ got[u] # None
    BY <2>1, <2>2, RecipeFacts
  <2> QED BY <2>1, <2>2, <2>3, HashSet
<1> SUFFICES ASSUME ~RunLand(u) PROVE HashInv(u)'
  BY <1>1
<1>2. task'[u] = "landed" => task[u] = "landed"
  BY LandedSame
<1>3. ASSUME FilesKept PROVE HashInv(u)'
  BY <1>2, <1>3, HashSame
<1>4. CASE UNCHANGED vars
  BY <1>3, <1>4 DEF vars, FilesKept
<1>5. CASE WorldStep
  <2>1. ASSUME NEW x, NEW r, Propagate(x) \/ Age(x) \/ ExternalEdit(x, r) PROVE HashInv(u)'
    BY <1>2, <2>1, HashSame DEF Propagate, Age, ExternalEdit, files, memory
  <2> QED BY <1>5, <2>1 DEF WorldStep
<1>6. ASSUME NEW w \in Writer, CallStep(w) PROVE HashInv(u)'
  <2>1. ASSUME NEW o, Save(w, o) PROVE HashInv(u)'
    BY <1>2, <2>1, HashSame DEF Save, files, memory
  <2>2. CASE RunPut(w)
    <3>1. op[w].row \in Recipe /\ op[w].row \in Slot /\ op[w].uid \in Uid
      BY <2>2, WriterFacts DEF RunPut
    <3>2. HashOf(op[w].row) = op[w].row.body /\ op[w].row # None
      BY <3>1, RecipeFacts
    <3>3. /\ buf' = [buf EXCEPT ![op[w].uid] = op[w].row] /\ hashes' = [hashes EXCEPT ![op[w].uid] = op[w].row.body]
          /\ index' = index /\ disk' = disk
      BY <2>2 DEF RunPut, files
    <3>4. hashes' = [hashes EXCEPT ![op[w].uid] = HashOf(op[w].row)]
      BY <3>2, <3>3
    <3> QED BY <1>2, <3>1, <3>2, <3>3, <3>4, HashSet
  <2>3. CASE RunRemove(w)
    <3>1. op[w].uid \in Uid /\ None \in Slot /\ HashOf(None) = None
      BY <2>3, WriterFacts, SlotFacts DEF RunRemove, Slot
    <3>2. /\ buf' = [buf EXCEPT ![op[w].uid] = None] /\ hashes' = [hashes EXCEPT ![op[w].uid] = None]
          /\ index' = index /\ disk' = [disk EXCEPT ![op[w].uid] = None]
      BY <2>3 DEF RunRemove
    <3>3. hashes' = [hashes EXCEPT ![op[w].uid] = HashOf(None)]
      BY <3>1, <3>2
    <3> QED BY <1>2, <3>1, <3>2, <3>3, HashSet
  <2>4. CASE RunFlush(w)
    BY <1>2, <2>4, HashFlush DEF RunFlush
  <2>5. ASSUME NEW L, RunFlushFail(w, L) PROVE HashInv(u)'
    BY <1>2, <2>5, HashFlushFail DEF RunFlushFail
  <2> QED BY <1>3, <1>6, <2>1, <2>2, <2>3, <2>4, <2>5, CallsKeepFiles DEF CallStep, Saving
<1>7. ASSUME NEW v \in Uid, RecipeStep(v) PROVE HashInv(u)'
  <2>1. CASE RunLand(v)
    <3>1. got[v] \in Slot /\ got[v] # None /\ HashOf(got[v]) = got[v].body
      BY <2>1, LandFacts, RecipeFacts DEF RunLand
    <3>2. /\ buf' = [buf EXCEPT ![v] = got[v]] /\ hashes' = [hashes EXCEPT ![v] = got[v].body]
          /\ index' = index /\ disk' = disk
      BY <2>1 DEF RunLand, files
    <3>3. hashes' = [hashes EXCEPT ![v] = HashOf(got[v])]
      BY <3>1, <3>2
    <3> QED BY <1>2, <3>1, <3>2, <3>3, HashSet
  <2>2. CASE RunDrop(v)
    <3>1. None \in Slot /\ HashOf(None) = None
      BY SlotFacts DEF Slot
    <3>2. /\ buf' = [buf EXCEPT ![v] = None] /\ hashes' = [hashes EXCEPT ![v] = None]
          /\ index' = index /\ disk' = [disk EXCEPT ![v] = None]
      BY <2>2 DEF RunDrop
    <3>3. hashes' = [hashes EXCEPT ![v] = HashOf(None)]
      BY <3>1, <3>2
    <3> QED BY <1>2, <3>1, <3>2, <3>3, HashSet
  <2> QED BY <1>3, <1>7, <2>1, <2>2, RecipeKeepsFiles DEF RecipeStep
<1>8. CASE ReconcileStep
  <2>1. CASE RunCycleFlush
    BY <1>2, <2>1, HashFlush DEF RunCycleFlush
  <2>2. ASSUME NEW L, RunCycleFlushFail(L) PROVE HashInv(u)'
    BY <1>2, <2>2, HashFlushFail DEF RunCycleFlushFail
  <2>3. CASE SyncFinish
    BY <1>2, <2>3, HashSame DEF SyncFinish, files, memory
  <2> QED BY <1>3, <1>8, <2>1, <2>2, <2>3, ReconcileKeepsFiles DEF ReconcileStep
<1>9. ASSUME NEW L, Crash(L) PROVE HashInv(u)'
  <2>1. buf'[u] = None /\ hashes' = index' /\ task'[u] = "none"
    BY <1>9, EndFacts DEF Crash, Empty
  <2> QED BY <2>1 DEF HashInv
<1> QED BY <1>4, <1>5, <1>6, <1>7, <1>8, <1>9, StepCases

----------------------------------------------------------------------------
\* A call that had its recipe to itself when it was answered, and its mark.

\* A commit keeps its recipe to itself when neither its mark nor the calls behind it move on.
LEMMA AloneKept ==
  ASSUME NEW w \in Writer, AloneInv(w), alone'[w] => alone[w], pc'[w] = pc[w], op'[w] = op[w],
         First(w) => First(w)', mark'[op[w].uid] \in {mark[op[w].uid], "none"},
         \A v \in Writer \ {w} : pc[v] = "writing" /\ op[v].uid = op[w].uid /\ ~op[v].pull
             => mark'[op[w].uid] = "none" \/ (pc'[v] = "writing" /\ op'[v] = op[v])
  PROVE  AloneInv(w)'
<1>1. SUFFICES ASSUME alone'[w] PROVE AloneInv(w)'
  BY DEF AloneInv
<1>2. pc[w] = "writing" /\ ~op[w].pull /\ First(w)' /\ Marked(w)
  BY <1>1 DEF AloneInv
<1>3. Marked(w)'
  <2>1. CASE mark[op[w].uid] \in {"none", MarkOf(op[w].row)}
    BY <2>1 DEF Marked
  <2>2. ASSUME NEW v \in Writer \ {w}, pc[v] = "writing", op[v].uid = op[w].uid, ~op[v].pull
        PROVE  Marked(w)'
    BY <2>2 DEF Marked
  <2> QED BY <1>2, <2>1, <2>2 DEF Marked
<1> QED BY <1>2, <1>3 DEF AloneInv

\* Every step of a call leaves the others as they were.
LEMMA AloneCall ==
  ASSUME RecipeInv, NEW v \in Writer, CallStep(v), NEW w \in Writer
  PROVE  AloneInv(w)'
<1> CallTypes /\ CallInv(v) /\ CallInv(w) /\ AloneInv(w) /\ queue \in Seq(Jobs) /\ QueueInv
  BY TypeParts DEF RecipeInv
<1>0. \A x \in Writer : pc[x] # "writing" => ~HasJob(x)
  BY NoJob
<1>1. CASE Saving(v) \/ \E u \in Uid : LookUp(v, u)
  <2>1. PICK o \in OpType, p \in {"saved", "looked"} : pc' = [pc EXCEPT ![v] = p] /\ op' = [op EXCEPT ![v] = o]
    <3>1. \A u \in Uid : Pull(u, IF server[u] = Purged THEN None ELSE server[u]) \in OpType
      BY TypeParts DEF RecipeInv, Pull, OpType, FileTypes, Slot
    <3> QED BY <1>1, <3>1 DEF Saving, Save, LookUp
  <2>2. UNCHANGED <<queue, mark, alone>> /\ pc[v] # "writing"
    BY <1>1 DEF Saving, Save, LookUp, marks, history
  <2>3. \A x \in Writer \ {v} : pc'[x] = pc[x] /\ op'[x] = op[x]
    BY <2>1 DEF CallTypes
  <2>4. First(w) => First(w)'
    BY <1>0, <2>2, <2>3, FirstSame
  <2>5. CASE w = v
    <3>1. ~alone[w]
      BY <2>2, <2>5 DEF AloneInv
    <3> QED BY <2>2, <3>1 DEF AloneInv
  <2> QED BY <2>2, <2>3, <2>4, <2>5, AloneKept
<1>2. CASE PullRecipe(v)
  <2>1. mark' = mark /\ pc[v] = "looked"
    BY <1>2 DEF PullRecipe, marks
  <2>2. alone' = alone \/ alone' = [alone EXCEPT ![v] = FALSE]
    BY <1>2 DEF PullRecipe, Return, history
  <2>3. ~alone'[v]
    BY <2>1, <2>2 DEF CallTypes, AloneInv, RecipeInv
  <2>4. \A x \in Writer \ {v} : pc'[x] = pc[x] /\ op'[x] = op[x] /\ alone'[x] = alone[x]
    BY <1>2 DEF PullRecipe, Return, CallTypes, history
  <2>5. CASE w = v
    BY <2>3, <2>5 DEF AloneInv
  <2>6. CASE w # v
    <3>1. First(w) => First(w)'
      <4>1. CASE queue' = queue
        BY <1>0, <2>1, <2>4, <4>1, FirstSame
      <4>2. CASE queue' # queue
        <5>1. op' = op /\ queue' = Append(queue, Job(IF op[v].row = None THEN "remove" ELSE "put", v))
          BY <1>2, <4>2 DEF PullRecipe
        <5>2. PICK j \in Jobs : queue' = Append(queue, j) /\ j.by = v /\ j.kind # "flush"
          BY <5>1, JobFacts, JobFields
        <5> QED BY <2>6, <5>1, <5>2, FirstAdd
      <4> QED BY <4>1, <4>2
    <3> QED BY <2>1, <2>4, <2>6, <3>1, AloneKept
  <2> QED BY <2>5, <2>6
<1>3. CASE Respond(v)
  <2> DEFINE x == op[v].uid
  <2>1. /\ pc[v] = "saved" /\ pc' = [pc EXCEPT ![v] = "writing"] /\ op' = op
        /\ queue' = Append(queue, Job(IF op[v].row = None THEN "remove" ELSE "put", v))
        /\ mark' = [mark EXCEPT ![x] = IF op[v].row = None \/ op[v].row.trash THEN "delete" ELSE "upsert"]
        /\ alone' = [alone EXCEPT ![v] = ~Disturbed(v, x)]
    BY <1>3 DEF Respond
  <2>2. mark' = [mark EXCEPT ![x] = MarkOf(op[v].row)]
    BY <2>1 DEF MarkOf
  <2>3. x \in Uid /\ ~op[v].pull
    BY <2>1 DEF CallInv
  <2>4. mark'[x] = MarkOf(op[v].row) /\ \A y \in Uid \ {x} : mark'[y] = mark[y]
    BY <2>2, <2>3 DEF CallTypes
  <2>5. pc'[v] = "writing" /\ \A y \in Writer \ {v} : pc'[y] = pc[y] /\ alone'[y] = alone[y]
    BY <2>1 DEF CallTypes
  <2>6. PICK j \in Jobs : queue' = Append(queue, j) /\ j.by = v /\ j.kind # "flush"
    BY <2>1, JobFacts, JobFields
  <2>7. CASE w = v
    <3>1. SUFFICES ASSUME alone'[v] PROVE AloneInv(v)'
      BY <2>7 DEF AloneInv
    <3>2. ~Disturbed(v, x)
      BY <2>1, <3>1 DEF CallTypes
    <3>3. \A y \in Writer \ {v} : pc[y] = "writing" => op[y].uid # x
      BY <3>2 DEF Disturbed
    <3>4. \A y \in Writer \ {v} : HasJob(y)' => pc'[y] = "writing"
      <4>1. QueueInv' /\ queue' \in Seq(Jobs)
        BY JobsCall DEF JobsInOrder
      <4>2. ASSUME NEW y \in Writer \ {v}, NEW m \in Place', queue'[m].by = y PROVE pc'[y] = "writing"
        BY <4>1, <4>2 DEF QueueInv, Fits
      <4> QED BY <4>2 DEF HasJob
    <3>5. First(v)'
      BY <2>1, <2>5, <3>3, <3>4 DEF First, HasJob
    <3>6. Marked(v)'
      BY <2>1, <2>4 DEF Marked
    <3> QED BY <2>1, <2>3, <2>5, <3>5, <3>6 DEF AloneInv
  <2>8. CASE w # v
    <3>1. First(w) => First(w)'
      BY <2>1, <2>6, <2>8, FirstAdd
    <3>2. CASE op[w].uid # x
      <4>1. pc[w] # "idle" => mark'[op[w].uid] = mark[op[w].uid]
        BY <2>4, <3>2 DEF CallInv
      <4>2. CASE alone[w]
        BY <2>1, <2>5, <2>8, <3>1, <3>2, <4>1, <4>2, AloneKept DEF AloneInv
      <4>3. CASE ~alone[w]
        BY <2>5, <2>8, <4>3 DEF AloneInv
      <4> QED BY <4>2, <4>3
    <3>3. CASE op[w].uid = x
      <4>1. Marked(w)'
        BY <2>1, <2>3, <2>5, <2>8, <3>3 DEF Marked
      <4> QED BY <2>1, <2>5, <2>8, <3>1, <4>1 DEF AloneInv
    <3> QED BY <3>2, <3>3
  <2> QED BY <2>7, <2>8
<1>4. CASE RunPut(v) \/ RunRemove(v)
  <2>1. PICK k \in {"put", "remove"} : Running(k, v)
    BY <1>4 DEF RunPut, RunRemove
  <2>2. queue' = Append(Tail(queue), Job("flush", v)) /\ UNCHANGED <<pc, op, mark, alone>>
    BY <1>4 DEF RunPut, RunRemove, calls, marks, history
  <2>3. queue # <<>> /\ Head(queue).kind # "flush" /\ Head(queue).by = v
    BY <2>1, RunningFacts
  <2>4. PICK j \in Jobs : queue' = Append(Tail(queue), j) /\ j.by = v /\ j.kind = "flush"
    BY <2>2, JobFacts, JobFields
  <2>5. First(w) => First(w)'
    BY <2>2, <2>3, <2>4, FirstTurn
  <2> QED BY <2>2, <2>5, AloneKept
<1>5. ASSUME NEW L, RunRemoveFail(v) \/ RunFlushFail(v, L) \/ RunFlush(v) PROVE AloneInv(w)'
  <2>1. PICK k \in {"remove", "flush"} : Running(k, v)
    BY <1>5 DEF RunRemoveFail, RunFlushFail, RunFlush
  <2>2. Return(v) /\ queue' = Tail(queue)
    BY <1>5, GiveUpFacts DEF RunRemoveFail, RunFlushFail, RunFlush
  <2>3. /\ ~alone'[v]
        /\ \A x \in Writer \ {v} : pc'[x] = pc[x] /\ op'[x] = op[x] /\ alone'[x] = alone[x]
    BY <2>2 DEF Return, CallTypes
  <2>4. queue # <<>> /\ Head(queue).kind = k /\ Head(queue).by = v /\ pc[v] = "writing" /\ op[v].uid \in Uid
    BY <2>1, RunningFacts, WriterFacts
  <2>5. CASE w = v
    BY <2>3, <2>5 DEF AloneInv
  <2>6. CASE w # v
    <3>1. First(w) => First(w)'
      BY <2>2, <2>3, <2>4, <2>6, FirstTail
    <3>2. SUFFICES ASSUME alone[w] PROVE AloneInv(w)'
      BY <2>3, <2>6 DEF AloneInv
    <3>3. First(w) /\ HasJob(w) /\ op[w].uid \in Uid
      BY <3>2 DEF AloneInv, CallInv
    <3>4. CASE RunFlush(v)
      <4>1. mark' = mark /\ Running("flush", v)
        BY <3>4 DEF RunFlush, marks
      <4>2. Head(queue).kind = "flush"
        BY <4>1, RunningFacts
      <4>3. op[v].uid # op[w].uid
        BY <2>4, <2>6, <3>3, <4>2, FirstHead
      <4> QED BY <2>3, <2>6, <3>1, <4>1, <4>3, AloneKept
    <3>5. CASE ~RunFlush(v)
      <4>1. GiveUp(v)
        BY <1>5, <3>5 DEF RunRemoveFail, RunFlushFail
      <4>2. CASE op[v].pull
        <5>1. mark' = mark
          BY <4>1, <4>2 DEF GiveUp, marks
        <5> QED BY <2>3, <2>6, <3>1, <4>2, <5>1, AloneKept
      <4>3. CASE ~op[v].pull
        <5>1. mark' = [mark EXCEPT ![op[v].uid] = "none"]
          BY <4>1, <4>3 DEF GiveUp
        <5>2. /\ op[v].uid = op[w].uid => mark'[op[w].uid] = "none"
              /\ op[v].uid # op[w].uid => mark'[op[w].uid] = mark[op[w].uid]
          BY <2>4, <3>3, <5>1 DEF CallTypes
        <5> QED BY <2>3, <2>6, <3>1, <5>2, AloneKept
      <4> QED BY <4>2, <4>3
    <3> QED BY <3>4, <3>5
  <2> QED BY <2>5, <2>6
<1> QED BY <1>1, <1>2, <1>3, <1>4, <1>5 DEF CallStep

\* Every step keeps them.
LEMMA AloneStep ==
  ASSUME RecipeInv, [Next]_vars, NEW w \in Writer
  PROVE  AloneInv(w)'
<1> CallTypes /\ CallInv(w) /\ AloneInv(w)
  BY TypeParts DEF RecipeInv
<1>1. ASSUME UNCHANGED <<pc, op, alone, promise>>, First(w) => First(w)',
             \A u \in Uid : mark'[u] \in {mark[u], "none"}
      PROVE  AloneInv(w)'
  <2>1. CASE alone[w]
    <3>1. op[w].uid \in Uid
      BY <2>1 DEF AloneInv, CallInv
    <3> QED BY <1>1, <3>1, AloneKept
  <2>2. CASE ~alone[w]
    BY <1>1, <2>2 DEF AloneInv
  <2> QED BY <2>1, <2>2
<1>2. CASE UNCHANGED vars
  <2>1. UNCHANGED <<pc, op, alone, promise, mark, queue>>
    BY <1>2 DEF vars
  <2> QED BY <1>1, <2>1, FirstSame
<1>3. CASE WorldStep
  <2>1. ASSUME NEW u, NEW r, Propagate(u) \/ Age(u) \/ ExternalEdit(u, r)
        PROVE  UNCHANGED <<pc, op, alone, promise, mark, queue>>
    BY <2>1 DEF Propagate, Age, ExternalEdit, calls, marks, history
  <2> QED BY <1>1, <1>3, <2>1, FirstSame DEF WorldStep
<1>4. CASE (\E u \in Uid : RecipeStep(u)) \/ ReconcileStep
  <2>1. OrderKept
    BY <1>4, JobsRecipe, JobsReconcile
  <2>2. CASE CallsKept
    BY <1>1, <2>1, <2>2 DEF CallsKept, OrderKept
  <2>3. CASE SyncFinish \/ CycleSweep
    <3>1. UNCHANGED <<pc, op, alone, promise>>
      BY <2>3 DEF SyncFinish, CycleSweep, calls, history
    <3>2. \A u \in Uid : mark'[u] \in {mark[u], "none"}
      BY <2>3 DEF SyncFinish, CycleSweep
    <3> QED BY <1>1, <2>1, <3>1, <3>2 DEF OrderKept
  <2> QED BY <1>4, <2>2, <2>3, SyncKeepsCalls DEF ReconcileStep
<1>5. ASSUME NEW L, Crash(L) PROVE AloneInv(w)'
  BY <1>5 DEF Crash, AloneInv
<1> QED BY <1>2, <1>3, <1>4, <1>5, AloneCall, StepCases

----------------------------------------------------------------------------
\* The shield of a completed commit.

\* A standing mark goes on guarding a recipe that the step leaves alone.
LEMMA GuardKept ==
  ASSUME NEW u \in Uid, Guarded(u), promise'[u] = promise[u], store'[u] = store[u],
         mark'[u] \in {mark[u], "none"}, task'[u] \in {task[u], "none"}
  PROVE  Guarded(u)'
  BY DEF Guarded

\* A commit that had its recipe to itself shows what it wrote, or hides what it trashed.
LEMMA GuardFlush ==
  ASSUME RecipeInv, NEW w \in Writer, RunFlush(w), NEW u \in Uid
  PROVE  Guarded(u)'
<1> FileTypes /\ CallTypes /\ SyncTypes /\ AloneInv(w) /\ Guarded(u)
  BY TypeParts DEF RecipeInv
<1> DEFINE x == op[w].uid
           r == op[w].row
<1>1. x \in Uid /\ r \in Slot
  BY WriterFacts DEF RunFlush
<1>2. /\ store' = [store EXCEPT ![x] = r] /\ mark' = mark /\ task' = task
      /\ promise' = [promise EXCEPT ![x] = IF alone[w] /\ ~Disturbed(w, x) THEN Live(r) ELSE "broken"]
  BY DEF RunFlush, marks, cycle
<1>3. CASE u # x
  <2>1. store'[u] = store[u] /\ promise'[u] = promise[u]
    BY <1>2, <1>3 DEF FileTypes, CallTypes
  <2> QED BY <1>2, <2>1, GuardKept
<1>4. CASE u = x /\ ~(alone[w] /\ ~Disturbed(w, x))
  <2>1. promise'[u] = "broken"
    BY <1>2, <1>4 DEF CallTypes
  <2> QED BY <2>1 DEF Guarded
<1>5. CASE u = x /\ alone[w] /\ ~Disturbed(w, x)
  <2>1. promise'[u] = Live(r) /\ store'[u] = r
    BY <1>1, <1>2, <1>5 DEF FileTypes, CallTypes
  <2>2. task[u] = "none" /\ \A v \in Writer \ {w} : ~(pc[v] = "writing" /\ op[v].uid = u)
    BY <1>5 DEF Disturbed
  <2>3. mark[u] \in {"none", MarkOf(r)}
    BY <1>5, <2>2 DEF AloneInv, Marked
  <2>4. MarkOf(r) = "delete" => Live(r) = None
    BY <1>1, SlotFacts DEF MarkOf, Live
  <2>5. mark'[u] = mark[u] /\ task'[u] = "none"
    BY <1>2, <2>2
  <2> QED BY <2>1, <2>3, <2>4, <2>5 DEF Guarded
<1> QED BY <1>3, <1>4, <1>5

\* A reconcile lands no recipe under the mark of one, and drops what a commit has deleted at most.
LEMMA GuardRecipe ==
  ASSUME RecipeInv, NEW v \in Uid, RecipeStep(v), NEW u \in Uid
  PROVE  Guarded(u)'
<1> FileTypes /\ SyncTypes /\ Guarded(u)
  BY TypeParts DEF RecipeInv
<1>1. promise' = promise /\ mark' = mark
  BY SyncKeepsCalls DEF CallsKept
<1>2. CASE v # u
  <2>1. ASSUME NEW r, SyncFetch(v, r) \/ SyncFetchFail(v) \/ SyncArrive(v)
        PROVE  store' = store /\ task'[u] = task[u]
    BY <1>2, <2>1 DEF SyncFetch, SyncFetchFail, SyncArrive, SyncTypes
  <2>2. ASSUME RunLand(v) \/ RunDrop(v) \/ RunDropFail(v) PROVE store'[u] = store[u] /\ task'[u] = task[u]
    BY <1>2, <2>2 DEF RunLand, RunDrop, RunDropFail, SyncTypes, FileTypes
  <2>3. store'[u] = store[u] /\ task'[u] = task[u]
    BY <2>1, <2>2 DEF RecipeStep
  <2> QED BY <1>1, <2>3, GuardKept
<1>3. CASE v = u
  <2>1. ASSUME task[u] \in {"asked", "answered", "landing"} PROVE Guarded(u)'
    BY <1>1, <2>1 DEF Guarded
  <2>2. ASSUME NEW r, SyncFetch(u, r) \/ SyncFetchFail(u) \/ SyncArrive(u) PROVE Guarded(u)'
    BY <2>1, <2>2 DEF SyncFetch, SyncFetchFail, SyncArrive
  <2>3. CASE RunLand(u)
    BY <2>1, <2>3, LandFacts DEF RunLand
  <2>4. CASE RunDrop(u)
    <3>1. task[u] = "dropping" /\ Live(None) = None
      BY <2>4, DropFacts, SlotFacts DEF RunDrop, Slot
    <3>2. task'[u] = "dropped" /\ store'[u] = None
      BY <2>4 DEF RunDrop, SyncTypes, FileTypes
    <3>3. mark[u] \in {"none", "upsert", "delete"}
      BY TypeParts DEF RecipeInv, CallTypes
    <3> QED BY <1>1, <3>1, <3>2, <3>3 DEF Guarded
  <2>5. CASE RunDropFail(u)
    <3>1. task[u] = "dropping"
      BY <2>5, DropFacts DEF RunDropFail
    <3>2. task'[u] = "failed" /\ store' = store
      BY <2>5 DEF RunDropFail, SyncTypes
    <3> QED BY <1>1, <3>1, <3>2 DEF Guarded
  <2> QED BY <1>3, <2>2, <2>3, <2>4, <2>5 DEF RecipeStep
<1> QED BY <1>2, <1>3

\* Every step keeps the shields up.
LEMMA GuardStep ==
  ASSUME RecipeInv, [Next]_vars, NEW u \in Uid
  PROVE  Guarded(u)'
<1> FileTypes /\ CallTypes /\ SyncTypes /\ Guarded(u)
  BY TypeParts DEF RecipeInv
<1>1. ASSUME promise'[u] = promise[u], mark'[u] \in {mark[u], "none"}, store'[u] = store[u],
             task'[u] \in {task[u], "none"}
      PROVE  Guarded(u)'
  BY <1>1, GuardKept
<1>2. CASE UNCHANGED vars
  BY <1>1, <1>2 DEF vars
<1>3. CASE WorldStep
  <2>1. ASSUME NEW v, NEW r, Propagate(v) \/ Age(v) \/ ExternalEdit(v, r)
        PROVE  UNCHANGED <<promise, mark, store, task>>
    BY <2>1 DEF Propagate, Age, ExternalEdit, marks, cycle, history
  <2> QED BY <1>1, <1>3, <2>1 DEF WorldStep
<1>4. ASSUME NEW w \in Writer, CallStep(w) PROVE Guarded(u)'
  <2>0. task' = task
    BY <1>4, CallsKeepSync DEF SyncKept
  <2>1. ASSUME NEW o, NEW v, Save(w, o) \/ LookUp(w, v) PROVE UNCHANGED <<promise, mark, store>>
    BY <2>1 DEF Save, LookUp, marks, history
  <2>2. ASSUME PullRecipe(w) \/ RunPut(w) \/ RunRemove(w) PROVE UNCHANGED <<promise, mark, store>>
    BY <2>2 DEF PullRecipe, RunPut, RunRemove, marks, history
  <2>3. CASE Respond(w)
    <3>1. CASE op[w].uid = u
      <4>1. promise'[u] = "broken"
        BY <2>3, <3>1 DEF Respond, CallTypes
      <4> QED BY <4>1 DEF Guarded
    <3>2. CASE op[w].uid # u
      <4>1. promise'[u] = promise[u] /\ mark'[u] = mark[u] /\ store' = store
        BY <2>3, <3>2 DEF Respond, CallTypes
      <4> QED BY <1>1, <2>0, <4>1
    <3> QED BY <3>1, <3>2
  <2>4. ASSUME NEW L, RunRemoveFail(w) \/ RunFlushFail(w, L) PROVE Guarded(u)'
    <3>1. GiveUp(w) /\ promise' = promise /\ store' = store
      BY <2>4 DEF RunRemoveFail, RunFlushFail
    <3>2. mark'[u] \in {mark[u], "none"}
      BY <3>1 DEF GiveUp, CallTypes, marks
    <3> QED BY <1>1, <2>0, <3>1, <3>2
  <2> QED BY <1>1, <1>4, <2>0, <2>1, <2>2, <2>3, <2>4, GuardFlush DEF CallStep, Saving
<1>5. CASE SyncDiff
  <2>1. promise' = promise /\ mark' = mark /\ store' = store
    BY <1>5 DEF SyncDiff, marks, history
  <2>2. /\ mark[u] # "none" => task'[u] \in {"none", "gone"}
        /\ mark[u] = "upsert" => task'[u] = "none"
    BY <1>5 DEF SyncDiff
  <2> QED BY <2>1, <2>2 DEF Guarded
<1>6. CASE SyncLanded
  <2>1. promise' = promise /\ mark' = mark /\ store' = store
    BY <1>6 DEF SyncLanded, marks, history
  <2>2. task'[u] = task[u] \/ (task[u] = "gone" /\ task'[u] = "dropping")
    BY <1>6 DEF SyncLanded
  <2> QED BY <2>1, <2>2 DEF Guarded
<1>7. CASE SyncList \/ SyncPartial \/ CycleFlush
  <2>1. UNCHANGED <<promise, mark, store, task>>
    BY <1>7 DEF SyncList, SyncPartial, CycleFlush, marks, history
  <2> QED BY <1>1, <2>1
<1>8. ASSUME EndCycle PROVE task'[u] = "none"
  BY <1>8, EndFacts
<1>9. ASSUME NEW L, SyncNothing \/ SyncUndropped \/ CycleFail \/ RunCycleFlush \/ RunCycleFlushFail(L) PROVE Guarded(u)'
  <2>1. UNCHANGED <<promise, mark, store>>
    BY <1>9 DEF SyncNothing, SyncUndropped, CycleFail, RunCycleFlush, RunCycleFlushFail, marks, history
  <2>2. task'[u] \in {task[u], "none"}
    BY <1>8, <1>9 DEF SyncNothing, SyncUndropped, CycleFail, RunCycleFlush, RunCycleFlushFail
  <2> QED BY <1>1, <2>1, <2>2
<1>10. CASE SyncFinish \/ CycleSweep
  <2>1. UNCHANGED <<promise, store>> /\ mark'[u] \in {mark[u], "none"}
    BY <1>10 DEF SyncFinish, CycleSweep, history
  <2>2. task'[u] = "none"
    BY <1>8, <1>10, EndFacts DEF SyncFinish, CycleSweep
  <2> QED BY <1>1, <2>1, <2>2
<1>11. CASE ReconcileStep
  BY <1>5, <1>6, <1>7, <1>9, <1>10, <1>11 DEF ReconcileStep
<1>12. ASSUME NEW L, Crash(L) PROVE Guarded(u)'
  <2>1. mark'[u] = "none"
    BY <1>12 DEF Crash
  <2> QED BY <2>1 DEF Guarded
<1> QED BY <1>2, <1>3, <1>4, <1>11, <1>12, GuardRecipe, StepCases

----------------------------------------------------------------------------
\* The invariant.

\* The invariant holds at the start.
LEMMA RecipeInit == Init => RecipeInv
<1> SUFFICES ASSUME Init PROVE RecipeInv
  OBVIOUS
<1>1. queue = <<>> /\ queue \in Seq(Jobs) /\ Place = {}
  BY EmptySeq DEF Init, Place
<1>2. FileTypes
  <2>1. server \in [Uid -> Slot] /\ disk \in [Uid -> Slot]
    BY DEF Init, Slot
  <2>2. index \in [Uid -> Hash]
    BY <2>1, SlotFacts DEF Init
  <2>3. synced \in BOOLEAN
    BY Zenon DEF Init
  <2> QED BY <2>1, <2>2, <2>3 DEF Init, FileTypes, Empty, Slot
<1>3. CallTypes
  <2>1. NoOp \in OpType
    BY DEF NoOp, OpType, Slot
  <2> QED BY <2>1 DEF Init, CallTypes
<1>4. SyncTypes
  BY DEF Init, SyncTypes, Empty, Hash, Slot
<1>5. BoundTypes
  BY BoundAssumption DEF Init, BoundTypes
<1>6. TypeOK
  BY <1>1, <1>2, <1>3, <1>4, <1>5, TypeParts
<1>7. QueueInv
  BY <1>1 DEF QueueInv, Once
<1>8. \A w \in Writer : CallInv(w) /\ AloneInv(w)
  BY DEF Init, CallInv, AloneInv
<1>9. \A u \in Uid : TaskInv(u) /\ Guarded(u)
  BY DEF Init, TaskInv, Guarded
<1>10. \A u \in Uid : HashInv(u)
  BY DEF Init, HashInv, Empty
<1> QED BY <1>6, <1>7, <1>8, <1>9, <1>10 DEF RecipeInv

\* Every step keeps the invariant.
LEMMA RecipeNext == RecipeInv /\ [Next]_vars => RecipeInv'
<1> SUFFICES ASSUME RecipeInv, [Next]_vars PROVE RecipeInv'
  OBVIOUS
<1>1. JobsInOrder
  BY JobsStep
<1>2. TypeOK'
  <2>1. FileTypes' /\ CallTypes' /\ SyncTypes' /\ BoundTypes'
    BY FilesStep, CallsStep, SyncsStep, BoundsStep
  <2>2. queue' \in Seq(Jobs)
    BY <1>1 DEF JobsInOrder
  <2> QED BY <2>1, <2>2 DEF TypeOK, FileTypes, CallTypes, SyncTypes, BoundTypes, OpType
<1>3. \A w \in Writer : CallInv(w)' /\ AloneInv(w)'
  BY <1>1, AloneStep DEF JobsInOrder
<1>4. \A u \in Uid : TaskInv(u)' /\ HashInv(u)' /\ Guarded(u)'
  BY TaskStep, HashStep, GuardStep
<1> QED BY <1>1, <1>2, <1>3, <1>4 DEF RecipeInv, JobsInOrder

\* RecipeInv holds in every state.
THEOREM RecipeInvariant == Spec => []RecipeInv
  BY RecipeInit, RecipeNext, PTL DEF Spec

\* The types of the recipe cache, its queue, the calls and the reconcile, in every state.
THEOREM RecipeTypeCorrect == Spec => []TypeOK
<1>1. RecipeInv => TypeOK
  BY DEF RecipeInv
<1> QED BY <1>1, RecipeInvariant, PTL

\* While the mark of a commit that had its recipe to itself stands, the store shows what it wrote,
\* whatever lists and responses the reconciles work from.
THEOREM ShieldHolds == Spec => []Shield
<1>1. RecipeInv => Shield
  BY DEF RecipeInv, Guarded, Shield
<1> QED BY <1>1, RecipeInvariant, PTL

\* An entry that index.json gains is that of a file that is there with those contents, whichever
\* writes fail and wherever in a flush the process stops.
LEMMA IndexGains ==
  ASSUME RecipeInv, [Next]_vars, NEW u \in Uid, index'[u] \notin {None, index[u]}
  PROVE  HashOf(disk'[u]) = index'[u]
<1> HashInv(u)
  BY DEF RecipeInv
<1>1. ASSUME index' = hashes, disk' = Written(Buffered), hashes[u] \notin {None, index[u]}
      PROVE  HashOf(disk'[u]) = hashes[u]
  BY <1>1 DEF Written, Buffered, HashInv
<1>2. ASSUME index' = index PROVE FALSE
  BY <1>2
<1>3. ASSUME FilesKept PROVE FALSE
  BY <1>2, <1>3 DEF FilesKept
<1>4. CASE UNCHANGED vars
  BY <1>2, <1>4 DEF vars
<1>5. CASE WorldStep
  <2>1. ASSUME NEW v, NEW r, Propagate(v) \/ Age(v) \/ ExternalEdit(v, r) PROVE index' = index
    BY <2>1 DEF Propagate, Age, ExternalEdit, files
  <2> QED BY <1>2, <1>5, <2>1 DEF WorldStep
<1>6. ASSUME NEW w \in Writer, CallStep(w) PROVE HashOf(disk'[u]) = index'[u]
  <2>1. ASSUME NEW o, Save(w, o) \/ RunPut(w) \/ RunRemove(w) PROVE FALSE
    BY <1>2, <2>1 DEF Save, RunPut, RunRemove, files
  <2>2. CASE RunFlush(w)
    BY <1>1, <2>2 DEF RunFlush, WritePending
  <2>3. ASSUME NEW L, RunFlushFail(w, L) PROVE FALSE
    BY <1>2, <2>3 DEF RunFlushFail, WritePendingFail
  <2> QED BY <1>3, <1>6, <2>1, <2>2, <2>3, CallsKeepFiles DEF CallStep, Saving
<1>7. ASSUME NEW v \in Uid, RecipeStep(v) PROVE FALSE
  <2>1. CASE RunLand(v) \/ RunDrop(v)
    BY <1>2, <2>1 DEF RunLand, RunDrop, files
  <2> QED BY <1>3, <1>7, <2>1, RecipeKeepsFiles DEF RecipeStep
<1>8. CASE ReconcileStep
  <2>1. CASE RunCycleFlush
    BY <1>1, <2>1 DEF RunCycleFlush, WritePending
  <2>2. ASSUME NEW L, RunCycleFlushFail(L) PROVE FALSE
    BY <1>2, <2>2 DEF RunCycleFlushFail, WritePendingFail
  <2>3. CASE SyncFinish
    BY <1>2, <2>3 DEF SyncFinish, files
  <2> QED BY <1>3, <1>8, <2>1, <2>2, <2>3, ReconcileKeepsFiles DEF ReconcileStep
<1>9. ASSUME NEW L, Crash(L) PROVE HashOf(disk'[u]) = index'[u]
  <2>1. CASE index' = index
    BY <1>2, <2>1
  <2>2. CASE index' # index
    <3>1. index' = hashes /\ disk' = Written(Buffered)
      BY <1>9, <2>2 DEF Crash, files
    <3> QED BY <1>1, <3>1
  <2> QED BY <2>1, <2>2
<1> QED BY <1>4, <1>5, <1>6, <1>7, <1>8, <1>9, StepCases

\* index.json never gains an entry that the file it stands for does not bear out, wherever a flush
\* fails or the process stops (RecipeDiskCache._writePending: data files first, then the index).
THEOREM IndexAfterFileHolds == Spec => IndexAfterFile
<1>1. RecipeInv /\ [Next]_vars
        => [\A u \in Uid : index'[u] \notin {None, index[u]} => HashOf(disk'[u]) = index'[u]]_vars
  BY IndexGains
<1> QED BY <1>1, RecipeInvariant, PTL DEF Spec, IndexAfterFile

\* A recipe that has landed when a cycle ends without another failure is on disk and in the index:
\* only the flush of what landed ends such a cycle.
LEMMA LandedKept ==
  ASSUME RecipeInv, [Next]_vars, NEW u \in Uid, task[u] = "landed", spc \in {"fetching", "partial"},
         spc' = "idle", faults' = faults
  PROVE  index'[u] = hashes[u] /\ HashOf(disk'[u]) = hashes[u]
<1> HashInv(u) /\ BoundTypes
  BY TypeParts DEF RecipeInv
<1>1. spc' # spc
  OBVIOUS
<1>2. ASSUME NEW k, Fail(k) PROVE FALSE
  BY <1>2 DEF Fail, BoundTypes
<1>3. CASE UNCHANGED vars \/ SyncKept
  BY <1>1, <1>3 DEF vars, SyncKept
<1>4. ASSUME NEW v \in Uid, RecipeStep(v) PROVE FALSE
  <2>1. ASSUME NEW r, SyncFetch(v, r) \/ SyncFetchFail(v) \/ SyncArrive(v) PROVE spc' = spc
    BY <2>1 DEF SyncFetch, SyncFetchFail, SyncArrive
  <2>2. ASSUME RunLand(v) \/ RunDrop(v) \/ RunDropFail(v) PROVE spc' = spc
    BY <2>2 DEF RunLand, RunDrop, RunDropFail
  <2> QED BY <1>1, <1>4, <2>1, <2>2 DEF RecipeStep
<1>5. CASE SyncList \/ SyncDiff \/ SyncLanded \/ SyncPartial \/ SyncFinish \/ CycleFlush
  <2>1. spc' # "idle"
    BY <1>5 DEF SyncList, SyncDiff, SyncLanded, SyncPartial, SyncFinish, CycleFlush
  <2> QED BY <2>1
<1>6. CASE SyncNothing
  <2>1. u \notin InTask({"landed"})
    BY <1>6 DEF SyncNothing
  <2> QED BY <2>1 DEF InTask
<1>7. CASE SyncUndropped \/ CycleSweep
  <2>1. spc \in {"dropping", "flushed"}
    BY <1>7 DEF SyncUndropped, Dropped, CycleSweep
  <2> QED BY <2>1
<1>8. CASE RunCycleFlush
  <2>1. index' = hashes /\ disk' = Written(Buffered)
    BY <1>8 DEF RunCycleFlush, WritePending
  <2> QED BY <2>1 DEF Written, Buffered, HashInv
<1>9. ASSUME NEW L, CycleFail \/ RunCycleFlushFail(L) \/ Crash(L) PROVE FALSE
  BY <1>2, <1>9 DEF CycleFail, RunCycleFlushFail, Crash
<1>10. CASE ReconcileStep
  BY <1>5, <1>6, <1>7, <1>8, <1>9, <1>10 DEF ReconcileStep
<1> QED BY <1>3, <1>4, <1>9, <1>10, CallsKeepSync, StepCases

\* A cycle that aborts because a recipe could not be fetched has flushed those that landed.
THEOREM PartialProgressHolds == Spec => PartialProgress
<1>1. RecipeInv /\ [Next]_vars
        => [\A u \in Uid : task[u] = "landed" /\ spc \in {"fetching", "partial"} /\ spc' = "idle"
                            /\ faults' = faults
                              => index'[u] = hashes[u] /\ HashOf(disk'[u]) = hashes[u]]_vars
  BY LandedKept
<1> QED BY <1>1, RecipeInvariant, PTL DEF Spec, PartialProgress
=============================================================================
