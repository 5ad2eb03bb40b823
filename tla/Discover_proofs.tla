---- MODULE Discover_proofs ----
(***************************************************************************)
(* What TLAPS proves of Discover, for any recipes, versions, models and    *)
(* bounds, whichever calls and writes fail and wherever the process stops. *)
(*                                                                         *)
(* The argument for freshness is about the last word on a recipe.  Of the  *)
(* handlers that wait for the mutex, the last one that concerns a live     *)
(* recipe brings it to its present contents; the one that holds the mutex  *)
(* carries its present text already, or has indexed it; and if none        *)
(* concerns it, it is indexed as it is.                                    *)
(***************************************************************************)
EXTENDS Discover, FiniteSetTheorems, SequenceTheorems, TLAPS

\* Maps from some of the recipes, the jobs that wait, and where the holder is.
Partial(S) == UNION {[D -> S] : D \in SUBSET Recipe}
Versions == Partial(0..MaxVersion)
JobRecord == [op : {"index", "remove"}, want : Versions, reconcile : BOOLEAN, after : Versions, rest : Seq(Recipe)]
StepRecord == [at : {"free", "embed", "put", "hashes", "meta"}, batch : Partial(Text)]

\* The types, the jobs and the holder's batch included.
Vector == [text : Text, by : Models]
StoreTypes ==
  /\ content \in [Recipe -> 0..MaxVersion \cup {Trashed}] /\ category \in 0..Gone
  /\ PartialOn(Vector, vectors) /\ PartialOn(Text, hashes) /\ PartialOn(Text, hashFile)
  /\ metaFile \in 0..MaxModel /\ model \in Models /\ pending \in BOOLEAN
  /\ boot \in {"init", "reset", "reconcile", "up"} /\ torn \cup overtaken \subseteq Recipe
  /\ edits \in 0..MaxEdits /\ indexFaults \in 0..MaxIndexFaults /\ boots \in 0..MaxBoots
TypeInv == StoreTypes /\ jobs \in Seq(JobRecord) /\ step \in StepRecord

Place == 1..Len(jobs)

\* A handler either indexes or removes one recipe after the other.
JobInv(j) == j.op = "index" => j.rest = <<>>

\* The holder is the first, and is where its operation goes; before the handlers are there, only the
\* startup reconcile may hold the mutex.
MutexInv ==
  /\ \A k \in Place : JobInv(jobs[k])
  /\ step.at # "free" => jobs # <<>>
  /\ step.at \in {"embed", "put", "meta"} => jobs[1].op = "index"
  /\ step.at # "free" /\ jobs[1].op = "index" => DOMAIN step.batch \subseteq DOMAIN jobs[1].want
  /\ boot \in {"init", "reset"} => jobs = <<>>

\* What a start finds on disk is as the last process left it.  A reconcile that failed is still
\* pending only if something failed, and only then does a handler go on with a second batch.
BootInv ==
  /\ boot = "init" => Disagree \subseteq torn /\ DOMAIN hashes = {}
  /\ boot = "reset" => DOMAIN vectors = {} /\ DOMAIN hashes = {}
  /\ ~failed => ~pending /\ \A k \in Place : DOMAIN jobs[k].after = {}

\* The handler concerns the recipe, now or in what it does next.
About(j, r) == r \in DOMAIN j.want \/ r \in ToSet(j.rest)
Final(k, r) == About(jobs[k], r) /\ \A m \in Place : About(jobs[m], r) => m <= k

\* The handler brings the recipe to its present contents ...
Brings(j, r, now) == j.op = "index" /\ r \in DOMAIN j.want /\ j.want[r] = now

\* ... and, holding the mutex, carries its present text or has indexed it.
RightText(t, r) == t.version = content[r] /\ (category = Deleted \/ t = EmbeddingText(r, content[r]))
Carries(r) ==
  /\ step.at \in {"embed", "put"} => IF r \in DOMAIN step.batch THEN RightText(step.batch[r], r) ELSE FreshFor(r)
  /\ step.at \in {"hashes", "meta"} => FreshFor(r)

LastWord(r) ==
  \/ FreshFor(r) /\ \A k \in Place : ~About(jobs[k], r)
  \/ \E k \in Place : Final(k, r) /\ Brings(jobs[k], r, content[r]) /\ (k = 1 => Carries(r))

Running == boot = "up" \/ jobs # <<>>
WordInv == Running /\ ~failed /\ torn = {} => \A r \in Active \ overtaken : LastWord(r)

DiscoverInv == TypeInv /\ MutexInv /\ BootInv /\ HashAgrees /\ OneModel /\ WordInv

----------------------------------------------------------------------------
\* Partial functions on the recipes.

\* Membership of a partial function, and what it maps to.
LEMMA PartialFacts ==
  ASSUME NEW S, NEW f
  PROVE  /\ f \in Partial(S) => PartialOn(S, f)
         /\ PartialOn(S, f) /\ f = [r \in DOMAIN f |-> f[r]] => f \in Partial(S)
<1>1. ASSUME f \in Partial(S) PROVE PartialOn(S, f)
  BY <1>1 DEF Partial, PartialOn
<1>2. ASSUME PartialOn(S, f), f = [r \in DOMAIN f |-> f[r]] PROVE f \in Partial(S)
  <2>1. DOMAIN f \in SUBSET Recipe
    BY <1>2 DEF PartialOn
  <2>2. f \in [DOMAIN f -> S]
    BY <1>2 DEF PartialOn
  <2> QED BY <2>1, <2>2 DEF Partial
<1> QED BY <1>1, <1>2

\* The empty map.
LEMMA NoneFacts ==
  ASSUME NEW S
  PROVE  None \in Partial(S) /\ DOMAIN None = {} /\ PartialOn(S, None)
<1>1. DOMAIN None = {} /\ None = [r \in DOMAIN None |-> None[r]]
  BY DEF None
<1>2. PartialOn(S, None)
  BY <1>1 DEF PartialOn
<1> QED BY <1>1, <1>2, PartialFacts

\* A part of a map, and a map laid over another.
LEMMA OnlyFacts ==
  ASSUME NEW S, NEW f, PartialOn(S, f), NEW R
  PROVE  /\ Only(f, R) \in Partial(S) /\ PartialOn(S, Only(f, R))
         /\ DOMAIN Only(f, R) = DOMAIN f \cap R
         /\ \A r \in DOMAIN f \cap R : Only(f, R)[r] = f[r]
<1> DEFINE g == Only(f, R)
<1>1. /\ DOMAIN g = DOMAIN f \cap R /\ \A r \in DOMAIN f \cap R : g[r] = f[r]
      /\ g = [r \in DOMAIN g |-> g[r]]
  BY DEF Only
<1>2. PartialOn(S, g)
  BY <1>1 DEF PartialOn
<1> QED BY <1>1, <1>2, PartialFacts

\* What a map laid over another maps to.
LEMMA OverFacts ==
  ASSUME NEW S, NEW f, PartialOn(S, f), NEW g, PartialOn(S, g)
  PROVE  /\ PartialOn(S, Over(f, g))
         /\ DOMAIN Over(f, g) = DOMAIN f \cup DOMAIN g
         /\ \A r \in DOMAIN g : Over(f, g)[r] = g[r]
         /\ \A r \in DOMAIN f \ DOMAIN g : Over(f, g)[r] = f[r]
<1>1. /\ DOMAIN Over(f, g) = DOMAIN f \cup DOMAIN g
      /\ \A r \in DOMAIN g : Over(f, g)[r] = g[r]
      /\ \A r \in DOMAIN f \ DOMAIN g : Over(f, g)[r] = f[r]
  BY DEF Over
<1> QED BY <1>1 DEF PartialOn

\* The live recipes have contents, and the text of a recipe is a text.
LEMMA EverythingFacts ==
  ASSUME NEW now \in [Recipe -> 0..MaxVersion \cup {Trashed}]
  PROVE  /\ Everything(now) \in Versions
         /\ DOMAIN Everything(now) = {r \in Recipe : now[r] # Trashed}
         /\ \A r \in DOMAIN Everything(now) : Everything(now)[r] = now[r]
<1> DEFINE E == Everything(now)
<1>1. /\ DOMAIN E = {r \in Recipe : now[r] # Trashed} /\ \A r \in DOMAIN E : E[r] = now[r]
      /\ E = [r \in DOMAIN E |-> E[r]]
  BY DEF Everything, Only
<1>2. PartialOn(0..MaxVersion, E)
  BY <1>1 DEF PartialOn
<1> QED BY <1>1, <1>2, PartialFacts DEF Versions

\* The text of a recipe is of its version.
LEMMA TextFacts ==
  ASSUME NEW r \in Recipe, NEW v \in 0..MaxVersion, category \in 0..Gone
  PROVE  EmbeddingText(r, v) \in Text /\ EmbeddingText(r, v).version = v
<1>1. 0 \in 0..Gone
  BY DiscoverAssumption DEF Gone
<1> QED BY <1>1 DEF EmbeddingText, Text

----------------------------------------------------------------------------
\* The handlers on the mutex.

\* The job of a reconcile.
LEMMA ReconcileJobFacts ==
  ASSUME NEW want \in Versions, NEW after \in Versions
  PROVE  LET j == IndexJob(want, TRUE, after)
         IN  /\ j \in JobRecord /\ JobInv(j)
             /\ j.op = "index" /\ j.want = want /\ j.after = after /\ j.rest = <<>>
<1>1. <<>> \in Seq(Recipe)
  BY EmptySeq
<1> QED BY <1>1 DEF IndexJob, JobRecord, JobInv

\* A job that removes.
LEMMA RemoveJobFacts ==
  ASSUME NEW uids \in Seq(Recipe), uids # <<>>
  PROVE  /\ RemoveJob(uids) \in JobRecord /\ RemoveJob(uids).op = "remove"
         /\ DOMAIN RemoveJob(uids).want \cup ToSet(RemoveJob(uids).rest) \subseteq ToSet(uids)
         /\ DOMAIN RemoveJob(uids).after = {}
<1> DEFINE h == Head(uids)
           t == Tail(uids)
           w == [r \in {h} |-> 0]
<1>1. /\ Len(uids) \in Nat \ {0} /\ DOMAIN uids = 1..Len(uids) /\ h = uids[1]
  BY EmptySeq, LenProperties
<1>2. h \in Recipe /\ t \in Seq(Recipe) /\ Len(t) = Len(uids) - 1 /\ \A i \in 1..Len(t) : t[i] = uids[i + 1]
  BY HeadTailProperties
<1>3. DOMAIN t = 1..Len(t)
  BY <1>2, LenProperties
<1>4. ToSet(t) \subseteq ToSet(uids) /\ h \in ToSet(uids)
  BY <1>1, <1>2, <1>3 DEF ToSet
<1>5. w \in Versions /\ DOMAIN w = {h}
  <2>1. DOMAIN w = {h} /\ w = [r \in DOMAIN w |-> w[r]] /\ \A r \in DOMAIN w : w[r] = 0
    OBVIOUS
  <2>2. PartialOn(0..MaxVersion, w)
    BY <2>1, <1>2, DiscoverAssumption DEF PartialOn
  <2> QED BY <2>1, <2>2, PartialFacts DEF Versions
<1>6. None \in Versions /\ DOMAIN None = {}
  BY NoneFacts DEF Versions
<1>7. RemoveJob(uids) = [op |-> "remove", want |-> w, reconcile |-> FALSE, after |-> None, rest |-> t]
  BY DEF RemoveJob
<1> HIDE DEF h, t, w
<1>8. RemoveJob(uids) \in JobRecord
  BY <1>2, <1>5, <1>6, <1>7 DEF JobRecord
<1> QED BY <1>4, <1>5, <1>6, <1>7, <1>8
\* The sequence of one job.
LEMMA OneJob ==
  ASSUME NEW j \in JobRecord
  PROVE  <<j>> \in Seq(JobRecord) /\ Len(<<j>>) = 1 /\ <<j>>[1] = j
  OBVIOUS

\* What a handler puts on the mutex is nothing or one job.
LEMMA NewsFacts ==
  /\ \A want \in Versions :
       \/ IndexJobs(want) = <<>> /\ DOMAIN want = {}
       \/ \E j \in JobRecord : /\ IndexJobs(want) = <<j>> /\ JobInv(j) /\ DOMAIN j.after = {}
                               /\ j.op = "index" /\ j.want = want /\ j.rest = <<>>
  /\ \A uids \in Seq(Recipe) :
       \/ RemoveJobs(uids) = <<>> /\ uids = <<>>
       \/ \E j \in JobRecord : /\ RemoveJobs(uids) = <<j>> /\ JobInv(j) /\ DOMAIN j.after = {}
                               /\ j.op = "remove" /\ DOMAIN j.want \cup ToSet(j.rest) \subseteq ToSet(uids)
<1>1. ASSUME NEW want \in Versions
      PROVE  \/ IndexJobs(want) = <<>> /\ DOMAIN want = {}
             \/ \E j \in JobRecord : /\ IndexJobs(want) = <<j>> /\ JobInv(j) /\ DOMAIN j.after = {}
                                     /\ j.op = "index" /\ j.want = want /\ j.rest = <<>>
  <2> DEFINE j == IndexJob(want, FALSE, None)
  <2>1. j \in JobRecord /\ j.op = "index" /\ j.want = want /\ j.after = None /\ j.rest = <<>> /\ DOMAIN j.after = {}
    <3>1. None \in Versions /\ DOMAIN None = {} /\ FALSE \in BOOLEAN
      BY NoneFacts DEF Versions
    <3>2. <<>> \in Seq(Recipe)
      BY EmptySeq
    <3>3. j = [op |-> "index", want |-> want, reconcile |-> FALSE, after |-> None, rest |-> <<>>]
      BY DEF IndexJob
    <3> HIDE DEF j
    <3> QED BY <3>1, <3>2, <3>3 DEF JobRecord
  <2>2. IndexJobs(want) = IF DOMAIN want = {} THEN <<>> ELSE <<j>>
    BY DEF IndexJobs
  <2> HIDE DEF j
  <2> QED BY <2>1, <2>2 DEF JobInv
<1>2. ASSUME NEW uids \in Seq(Recipe)
      PROVE  \/ RemoveJobs(uids) = <<>> /\ uids = <<>>
             \/ \E j \in JobRecord : /\ RemoveJobs(uids) = <<j>> /\ JobInv(j) /\ DOMAIN j.after = {}
                                     /\ j.op = "remove" /\ DOMAIN j.want \cup ToSet(j.rest) \subseteq ToSet(uids)
  <2> DEFINE j == RemoveJob(uids)
  <2>1. RemoveJobs(uids) = IF uids = <<>> THEN <<>> ELSE <<j>>
    BY DEF RemoveJobs
  <2>2. uids # <<>> => /\ j \in JobRecord /\ j.op = "remove" /\ DOMAIN j.after = {}
                       /\ DOMAIN j.want \cup ToSet(j.rest) \subseteq ToSet(uids)
    BY RemoveJobFacts
  <2> HIDE DEF j
  <2> QED BY <2>1, <2>2 DEF JobInv
<1> QED BY <1>1, <1>2

\* Jobs that join the queue, and the holder that leaves it.
LEMMA JoinFacts ==
  ASSUME NEW q \in Seq(JobRecord), NEW news \in Seq(JobRecord)
  PROVE  /\ q \o news \in Seq(JobRecord) /\ Len(q) \in Nat /\ Len(news) \in Nat
         /\ Len(q \o news) = Len(q) + Len(news)
         /\ \A k \in 1..Len(q) : (q \o news)[k] = q[k]
         /\ \A k \in 1..Len(q \o news) : k \notin 1..Len(q) => k - Len(q) \in 1..Len(news) /\ (q \o news)[k] = news[k - Len(q)]
<1> DEFINE m == Len(q)
           n == Len(news)
           s == q \o news
<1>1. m \in Nat /\ n \in Nat
  BY LenProperties
<1>2. s \in Seq(JobRecord) /\ Len(s) = m + n
      /\ \A i \in 1..(m + n) : s[i] = IF i <= m THEN q[i] ELSE news[i - m]
  BY ConcatProperties
<1> HIDE DEF m, n, s
<1>3. /\ \A k \in 1..m : s[k] = q[k]
      /\ \A k \in 1..Len(s) : k \notin 1..m => k - m \in 1..n /\ s[k] = news[k - m]
  BY <1>1, <1>2
<1> QED BY <1>1, <1>2, <1>3 DEF m, n, s

\* The holder, and the queue without it.
LEMMA LeaveFacts ==
  ASSUME jobs \in Seq(JobRecord), jobs # <<>>
  PROVE  /\ Tail(jobs) \in Seq(JobRecord) /\ Len(jobs) \in Nat \ {0} /\ Len(Tail(jobs)) = Len(jobs) - 1
         /\ \A k \in 1..(Len(jobs) - 1) : Tail(jobs)[k] = jobs[k + 1]
         /\ Holder = jobs[1] /\ jobs[1] \in JobRecord /\ 1 \in Place
<1>1. /\ Tail(jobs) \in Seq(JobRecord) /\ Len(jobs) \in Nat \ {0} /\ Len(Tail(jobs)) = Len(jobs) - 1
      /\ \A k \in 1..(Len(jobs) - 1) : Tail(jobs)[k] = jobs[k + 1]
  BY HeadTailProperties, EmptySeq, LenProperties
<1>2. Holder = jobs[1] /\ 1 \in Place
  BY <1>1 DEF Holder, Place
<1>3. jobs[1] \in JobRecord
  BY <1>2, ElementOfSeq DEF Place
<1> QED BY <1>1, <1>2, <1>3

\* What every job has, the jobs have after the holder has left and others have joined.
LEMMA QueueKeeps ==
  ASSUME jobs \in Seq(JobRecord), NEW q, q = jobs \/ (jobs # <<>> /\ q = Tail(jobs)),
         NEW news \in Seq(JobRecord), jobs' = q \o news
  PROVE  /\ jobs' \in Seq(JobRecord)
         /\ \A k \in Place' : \/ \E m \in Place : jobs'[k] = jobs[m]
                              \/ \E i \in 1..Len(news) : jobs'[k] = news[i]
<1>1. q \in Seq(JobRecord) /\ \A k \in 1..Len(q) : \E m \in Place : q[k] = jobs[m]
  <2>1. CASE q = jobs
    BY <2>1 DEF Place
  <2>2. CASE jobs # <<>> /\ q = Tail(jobs)
    <3>1. /\ q \in Seq(JobRecord) /\ Len(jobs) \in Nat \ {0} /\ Len(q) = Len(jobs) - 1
          /\ \A k \in 1..(Len(jobs) - 1) : q[k] = jobs[k + 1]
      BY <2>2, LeaveFacts
    <3> DEFINE L == Len(jobs)
    <3>2. L \in Nat \ {0} /\ Len(q) = L - 1 /\ \A k \in 1..(L - 1) : q[k] = jobs[k + 1] /\ k + 1 \in 1..L
      BY <3>1
    <3>3. Place = 1..L
      BY DEF Place
    <3> HIDE DEF L
    <3> QED BY <3>1, <3>2, <3>3
  <2> QED BY <2>1, <2>2
<1>2. /\ jobs' \in Seq(JobRecord)
      /\ \A k \in 1..Len(q) : jobs'[k] = q[k]
      /\ \A k \in Place' : k \notin 1..Len(q) => k - Len(q) \in 1..Len(news) /\ jobs'[k] = news[k - Len(q)]
  BY <1>1, JoinFacts DEF Place
<1>3. ASSUME NEW k \in Place'
      PROVE  \/ \E m \in Place : jobs'[k] = jobs[m]
             \/ \E i \in 1..Len(news) : jobs'[k] = news[i]
  <2>1. CASE k \in 1..Len(q)
    BY <2>1, <1>1, <1>2
  <2>2. CASE k \notin 1..Len(q)
    BY <2>2, <1>2
  <2> QED BY <2>1, <2>2
<1> QED BY <1>2, <1>3

----------------------------------------------------------------------------
\* The last word on a recipe.

\* A recipe that the step leaves as it is, by the name that its text would have, unless the category
\* has been deleted by a tool.
Same(r) == /\ content'[r] = content[r]
           /\ category' = Deleted \/ (category # Deleted /\ (r \in Categorized => category' = category))

\* Then the text that was right for it still is, and so is its place in an index left alone.
LEMMA SameTexts ==
  ASSUME NEW r, Same(r)
  PROVE  /\ \A t : RightText(t, r) => RightText(t, r)'
         /\ vectors' = vectors /\ FreshFor(r) => FreshFor(r)'
         /\ vectors' = vectors /\ step' = step /\ Carries(r) => Carries(r)'
<1>1. ASSUME NEW t, RightText(t, r) PROVE RightText(t, r)'
  BY <1>1 DEF Same, RightText, EmbeddingText
<1>2. ASSUME vectors' = vectors, FreshFor(r) PROVE FreshFor(r)'
  BY <1>2 DEF Same, FreshFor, EmbeddingText
<1>3. ASSUME vectors' = vectors, step' = step, Carries(r) PROVE Carries(r)'
  <2>1. step.at \in {"embed", "put"} => IF r \in DOMAIN step.batch THEN RightText(step.batch[r], r)' ELSE FreshFor(r)'
    BY <1>1, <1>2, <1>3 DEF Carries
  <2>2. step.at \in {"hashes", "meta"} => FreshFor(r)'
    BY <1>2, <1>3 DEF Carries
  <2> QED BY <2>1, <2>2, <1>3 DEF Carries, RightText
<1> QED BY <1>1, <1>2, <1>3

\* An announcement that does not concern the recipe leaves the last word on it.
LEMMA WordKept ==
  ASSUME jobs \in Seq(JobRecord), NEW news \in Seq(JobRecord), jobs' = jobs \o news,
         NEW r, Same(r), vectors' = vectors, step' = step, LastWord(r),
         \A i \in 1..Len(news) : ~About(news[i], r)
  PROVE  LastWord(r)'
<1>1. /\ Len(jobs) \in Nat /\ Place \subseteq Place' /\ \A k \in Place : jobs'[k] = jobs[k]
      /\ \A k \in Place' : k \notin Place => ~About(jobs'[k], r)
  <2>1. /\ Len(jobs) \in Nat /\ Len(news) \in Nat /\ Len(jobs') = Len(jobs) + Len(news)
        /\ \A k \in Place : jobs'[k] = jobs[k]
        /\ \A k \in Place' : k \notin Place => k - Len(jobs) \in 1..Len(news) /\ jobs'[k] = news[k - Len(jobs)]
    BY JoinFacts DEF Place
  <2>2. Place \subseteq Place'
    BY <2>1 DEF Place
  <2> QED BY <2>1, <2>2
<1>2. ASSUME NEW k \in Place, Final(k, r), Brings(jobs[k], r, content[r]), k = 1 => Carries(r)
      PROVE  k \in Place' /\ Final(k, r)' /\ Brings(jobs'[k], r, content'[r]) /\ (k = 1 => Carries(r)')
  <2>1. About(jobs'[k], r) /\ \A m \in Place' : About(jobs'[m], r) => m <= k
    BY <1>1, <1>2 DEF Final
  <2>2. Final(k, r)'
    BY <2>1 DEF Final
  <2> QED BY <2>2, <1>1, <1>2, SameTexts DEF Same
<1>3. ASSUME FreshFor(r), \A k \in Place : ~About(jobs[k], r)
      PROVE  FreshFor(r)' /\ \A k \in Place' : ~About(jobs'[k], r)
  BY <1>1, <1>3, SameTexts
<1> QED BY <1>2, <1>3 DEF LastWord

\* An announcement with the recipe's new contents is the last word on it.
LEMMA WordBrought ==
  ASSUME jobs \in Seq(JobRecord), NEW news \in Seq(JobRecord), jobs' = jobs \o news,
         NEW r, Len(news) = 1, Brings(news[1], r, content'[r]),
         step' = step, step.at # "free" => jobs # <<>>
  PROVE  LastWord(r)'
<1>1. /\ Len(jobs) \in Nat /\ Len(jobs') = Len(jobs) + 1 /\ jobs'[Len(jobs) + 1] = news[1]
      /\ Len(jobs) = 0 => jobs = <<>>
  <2>1. /\ Len(jobs) \in Nat /\ Len(jobs') = Len(jobs) + Len(news)
        /\ \A k \in 1..Len(jobs') : k \notin 1..Len(jobs) => jobs'[k] = news[k - Len(jobs)]
    BY JoinFacts
  <2>2. Len(jobs) = 0 => jobs = <<>>
    BY EmptySeq
  <2> DEFINE L == Len(jobs)
  <2>3. L \in Nat /\ Len(jobs') = L + 1 /\ (L + 1 \in 1..Len(jobs') /\ L + 1 \notin 1..L => jobs'[L + 1] = news[L + 1 - L])
    BY <2>1
  <2> HIDE DEF L
  <2>4. jobs'[L + 1] = news[1]
    BY <2>3
  <2> QED BY <2>2, <2>3, <2>4 DEF L
<1>0. PICK e : e = Len(jobs) + 1
  OBVIOUS
<1>2. e \in Place' /\ About(jobs'[e], r) /\ \A k \in Place' : e <= k => k = e
  BY <1>0, <1>1 DEF Place, About, Brings
<1>3. e = 1 => step'.at = "free"
  BY <1>0, <1>1
<1>4. Final(e, r)' /\ Brings(jobs'[e], r, content'[r])
  <2>1. \A k \in Place' : About(jobs'[k], r) => k <= e
    BY <1>0, <1>1, <1>2 DEF Place
  <2>2. jobs'[e] = news[1]
    BY <1>0, <1>1
  <2>3. Brings(jobs'[e], r, content'[r]) /\ About(jobs'[e], r)
    BY <2>2, <1>2
  <2>4. Final(e, r)'
    BY <2>1, <2>3 DEF Final
  <2> QED BY <2>3, <2>4
<1>5. e = 1 => Carries(r)'
  BY <1>3 DEF Carries
<1>6. \E k \in Place' : Final(k, r)' /\ Brings(jobs'[k], r, content'[r]) /\ (k = 1 => Carries(r)')
  BY <1>2, <1>4, <1>5
<1> QED BY <1>6 DEF LastWord

\* The holder has ended and goes on behind those that wait.  A recipe that it would go on with is
\* overtaken; another is indexed as it is, if the holder had the last word on it.
LEMMA WordPassed ==
  ASSUME jobs \in Seq(JobRecord), jobs # <<>>, NEW ok, Next(Holder, ok), DOMAIN Holder.after = {},
         \A k \in Place : JobInv(jobs[k]), Holder.rest \in Seq(Recipe),
         NEW r, r \notin overtaken', Same(r), LastWord(r),
         Final(1, r) /\ Brings(jobs[1], r, content[r]) /\ Carries(r) => FreshFor(r)',
         FreshFor(r) /\ ~About(jobs[1], r) => FreshFor(r)'
  PROVE  LastWord(r)'
<1> DEFINE L == Len(jobs)
           news == RemoveJobs(Holder.rest)
<1>1. /\ L \in Nat \ {0} /\ Len(Tail(jobs)) = L - 1 /\ Tail(jobs) \in Seq(JobRecord)
      /\ \A k \in 1..(L - 1) : Tail(jobs)[k] = jobs[k + 1]
      /\ Holder = jobs[1] /\ 1 \in Place
  BY LeaveFacts
<1>2. jobs' = Tail(jobs) \o news
  <2>1. IndexJobs(Holder.after) = <<>>
    BY DEF IndexJobs
  <2>2. jobs' = (Tail(jobs) \o <<>>) \o news
    BY <2>1 DEF Next
  <2> QED BY <2>2, <1>1, ConcatEmptySeq
<1>3. news \in Seq(JobRecord) /\ Len(news) \in Nat
      /\ \A i \in 1..Len(news) : About(news[i], r) => r \in ToSet(Holder.rest)
  <2>1. CASE news = <<>>
    BY <2>1, EmptySeq
  <2>2. ASSUME NEW j \in JobRecord, news = <<j>>, DOMAIN j.want \cup ToSet(j.rest) \subseteq ToSet(Holder.rest)
        PROVE  news \in Seq(JobRecord) /\ Len(news) \in Nat /\ \A i \in 1..Len(news) : About(news[i], r) => r \in ToSet(Holder.rest)
    BY <2>2, OneJob DEF About
  <2> QED BY <2>1, <2>2, NewsFacts
<1> HIDE DEF news
<1>4. /\ Len(jobs') = L - 1 + Len(news)
      /\ \A k \in 1..(L - 1) : jobs'[k] = jobs[k + 1]
      /\ \A k \in Place' : k \notin 1..(L - 1) => k - (L - 1) \in 1..Len(news) /\ jobs'[k] = news[k - (L - 1)]
  <2>1. /\ Len(jobs') = Len(Tail(jobs)) + Len(news)
        /\ \A k \in 1..Len(Tail(jobs)) : jobs'[k] = Tail(jobs)[k]
        /\ \A k \in Place' : k \notin 1..Len(Tail(jobs)) => k - Len(Tail(jobs)) \in 1..Len(news) /\ jobs'[k] = news[k - Len(Tail(jobs))]
    BY <1>1, <1>2, <1>3, JoinFacts DEF Place
  <2> QED BY <2>1, <1>1
<1>5. Place = 1..L /\ step' = NoStep
  BY DEF Place, Next
<1>6. Carries(r)'
  BY <1>5 DEF Carries, NoStep
<1> HIDE DEF L
\* The recipe is not among those that the holder goes on with.
<1>7. ASSUME r \in ToSet(Holder.rest) PROVE FALSE
  <2>1. About(jobs[1], r) /\ Holder.op # "index"
    <3>1. Holder.rest # <<>>
      BY <1>7, EmptySeq DEF ToSet
    <3> QED BY <3>1, <1>1, <1>7 DEF About, JobInv
  <2>2. r \notin UNION {DOMAIN jobs[k].want : k \in 2..L}
    BY <1>7 DEF Next, L
  <2>3. PICK m \in Place : Final(m, r) /\ Brings(jobs[m], r, content[r])
    BY <2>1, <1>1 DEF LastWord
  <2>4. m # 1
    BY <2>1, <2>3, <1>1 DEF Brings
  <2> QED BY <2>2, <2>3, <2>4, <1>5, <1>1 DEF Brings
<1>8. \A k \in Place' : k \notin 1..(L - 1) => ~About(jobs'[k], r)
  BY <1>3, <1>4, <1>7
<1>9. 1..(L - 1) \subseteq Place'
  BY <1>1, <1>3, <1>4 DEF Place
\* Another handler has the last word: it is one place further on.
<1>10. ASSUME NEW k \in Place, k # 1, Final(k, r), Brings(jobs[k], r, content[r]) PROVE LastWord(r)'
  <2>1. PICK j \in 1..(L - 1) : j + 1 = k
    <3>1. k - 1 \in 1..(L - 1) /\ (k - 1) + 1 = k
      BY <1>10, <1>1, <1>5
    <3> QED BY <3>1
  <2>2. j \in Place' /\ jobs'[j] = jobs[k]
    BY <2>1, <1>4, <1>9
  <2>3. ASSUME NEW n \in Place', About(jobs'[n], r) PROVE n <= j
    <3>1. n \in 1..(L - 1) /\ jobs'[n] = jobs[n + 1]
      BY <2>3, <1>4, <1>8
    <3>2. n + 1 \in Place /\ n \in Nat
      BY <3>1, <1>1, <1>5
    <3>3. n + 1 <= k
      BY <2>3, <3>1, <3>2, <1>10 DEF Final
    <3> QED BY <3>2, <3>3, <2>1
  <2>4. Final(j, r)' /\ Brings(jobs'[j], r, content'[r])
    BY <2>2, <2>3, <1>10 DEF Final, Same
  <2> QED BY <2>2, <2>4, <1>6 DEF LastWord
\* The holder had the last word, or nobody.
<1>11. ASSUME FreshFor(r)', \A n \in Place : n # 1 => ~About(jobs[n], r) PROVE LastWord(r)'
  <2>1. ASSUME NEW n \in Place' PROVE ~About(jobs'[n], r)
    <3>1. CASE n \in 1..(L - 1)
      <4>1. n + 1 \in Place /\ n + 1 # 1
        BY <3>1, <1>1, <1>5
      <4> QED BY <4>1, <3>1, <1>4, <1>11
    <3> QED BY <3>1, <1>8
  <2> QED BY <2>1, <1>11 DEF LastWord
<1>12. CASE Final(1, r) /\ Brings(jobs[1], r, content[r]) /\ Carries(r)
  <2>1. \A n \in Place : n # 1 => ~About(jobs[n], r)
    BY <1>12, <1>1, <1>5 DEF Final
  <2> QED BY <2>1, <1>11, <1>12
<1>13. CASE FreshFor(r) /\ \A k \in Place : ~About(jobs[k], r)
  BY <1>13, <1>11, <1>1
<1> QED BY <1>10, <1>12, <1>13 DEF LastWord

----------------------------------------------------------------------------
\* Announcements: what a commit, a cycle or a category puts on the mutex.

\* A live recipe is as it was, and not concerned, or brought to its new contents.
Told(news, r) == \/ Same(r) /\ \A i \in 1..Len(news) : ~About(news[i], r)
                 \/ Len(news) = 1 /\ Brings(news[1], r, content'[r])

\* All that an announcement does: the jobs it adds, the recipes it changes, what it forgets of the hash map.
Announces(news) ==
  /\ jobs' = jobs \o news
  /\ \A i \in 1..Len(news) : JobInv(news[i]) /\ (~pending => DOMAIN news[i].after = {})
  /\ content' \in [Recipe -> 0..MaxVersion \cup {Trashed}] /\ category' \in 0..Gone /\ edits' \in 0..MaxEdits
  /\ pending' \in BOOLEAN /\ (~pending => ~pending')
  /\ hashes' = hashes \/ DOMAIN hashes' = {}
  /\ boot = "up" /\ Announced
  /\ ~pending => \A r \in Recipe : content'[r] # Trashed => Told(news, r)

\* What the handler of recipe-changed puts there.
LEMMA ChangedFacts ==
  ASSUME NEW now \in [Recipe -> 0..MaxVersion \cup {Trashed}], NEW want \in Versions
  PROVE  /\ Changed(now, want) \in Seq(JobRecord)
         /\ \A i \in 1..Len(Changed(now, want)) : JobInv(Changed(now, want)[i])
         /\ ~pending => Changed(now, want) = IndexJobs(want)
<1> DEFINE E == Everything(now)
<1>1. CASE pending /\ DOMAIN E # {}
  <2> DEFINE j == IndexJob(E, TRUE, want)
  <2>1. Changed(now, want) = <<j>>
    BY <1>1 DEF Changed
  <2>2. E \in Versions
    BY EverythingFacts
  <2> HIDE DEF E
  <2>3. j \in JobRecord /\ JobInv(j)
    BY <2>2, ReconcileJobFacts
  <2> HIDE DEF j
  <2> QED BY <2>1, <2>3, OneJob, <1>1
<1>2. CASE ~(pending /\ DOMAIN E # {})
  <2>1. Changed(now, want) = IndexJobs(want)
    BY <1>2 DEF Changed
  <2>2. CASE IndexJobs(want) = <<>>
    BY <2>1, <2>2, EmptySeq
  <2>3. ASSUME NEW j \in JobRecord, IndexJobs(want) = <<j>>, JobInv(j)
        PROVE  Changed(now, want) \in Seq(JobRecord) /\ \A i \in 1..Len(Changed(now, want)) : JobInv(Changed(now, want)[i])
    BY <2>1, <2>3, OneJob
  <2> QED BY <2>1, <2>2, <2>3, NewsFacts
<1> QED BY <1>1, <1>2

\* What it puts there when no reconcile is pending: the new contents of what changed.
LEMMA ChangedTold ==
  ASSUME NEW now \in [Recipe -> 0..MaxVersion \cup {Trashed}], NEW want \in Versions, ~pending
  PROVE  \/ Changed(now, want) = <<>> /\ DOMAIN want = {}
         \/ \E j \in JobRecord : /\ Changed(now, want) = <<j>> /\ JobInv(j) /\ DOMAIN j.after = {}
                                 /\ j.op = "index" /\ j.want = want /\ j.rest = <<>>
<1>1. Changed(now, want) = IndexJobs(want)
  BY ChangedFacts
<1> QED BY <1>1, NewsFacts

\* The order in which a cycle removes recipes.
LEMMA Removals ==
  ASSUME NEW removed \in SUBSET Recipe, NEW uids \in SetToAllKPermutations(removed)
  PROVE  /\ uids \in Seq(Recipe) /\ ToSet(uids) \subseteq removed
         /\ removed = {} => uids = <<>>
<1>1. PICK S \in SUBSET removed : uids \in SetToSeqs(S)
  BY DEF SetToAllKPermutations
<1>2. IsFiniteSet(S)
  BY <1>1, DiscoverAssumption, FS_Subset
<1>3. PICK n \in Nat : n = Cardinality(S)
  BY <1>2, FS_CardinalityType
<1>4. uids \in [1..n -> S]
  BY <1>1, <1>3 DEF SetToSeqs
<1>5. uids \in Seq(Recipe) /\ DOMAIN uids = 1..n
  BY <1>4, <1>3
<1>6. ToSet(uids) \subseteq removed
  BY <1>4, <1>5 DEF ToSet
<1>7. ASSUME removed = {} PROVE uids = <<>>
  <2>1. n = 0
    BY <1>7, <1>3, FS_EmptySet
  <2> QED BY <2>1, <1>4, <1>5, EmptySeq
<1> QED BY <1>5, <1>6, <1>7

\* The map of one recipe to its contents.
LEMMA OneRecipe ==
  ASSUME NEW r \in Recipe, NEW v \in 0..MaxVersion
  PROVE  /\ [q \in {r} |-> v] \in Versions /\ DOMAIN [q \in {r} |-> v] = {r}
         /\ [q \in {r} |-> v][r] = v
<1> DEFINE f == [q \in {r} |-> v]
<1>1. DOMAIN f = {r} /\ f = [q \in DOMAIN f |-> f[q]] /\ \A q \in DOMAIN f : f[q] = v
  OBVIOUS
<1>2. PartialOn(0..MaxVersion, f)
  BY <1>1 DEF PartialOn
<1> QED BY <1>1, <1>2, PartialFacts DEF Versions

\* A recipe that a job does not concern.
LEMMA NotAbout ==
  ASSUME NEW j, j.rest = <<>>, NEW r, r \notin DOMAIN j.want
  PROVE  ~About(j, r)
  BY DEF About, ToSet

\* An edit counts.
LEMMA EditFacts ==
  ASSUME StoreTypes, Edit
  PROVE  boot = "up" /\ edits' \in 0..MaxEdits
  BY DiscoverAssumption DEF Edit, StoreTypes

\* A retried reconcile is no longer pending, and forgets the whole hash map or nothing of it.
LEMMA RetriedFacts ==
  ASSUME NEW now, Retried(now)
  PROVE  /\ pending' \in BOOLEAN /\ ~pending'
         /\ hashes' = hashes \/ DOMAIN hashes' = {}
<1>1. pending' = FALSE
  BY DEF Retried
<1>2. hashes' = hashes \/ hashes' = None
  BY DEF Retried
<1> QED BY <1>1, <1>2, NoneFacts

\* A commit that saves a recipe.
LEMMA CommitTold ==
  ASSUME TypeInv, NEW r \in Recipe, Commit(r)
  PROVE  \E news \in Seq(JobRecord) : Announces(news)
<1>1. /\ content \in [Recipe -> 0..MaxVersion \cup {Trashed}] /\ category \in 0..Gone /\ pending \in BOOLEAN
      /\ jobs \in Seq(JobRecord)
  BY DEF TypeInv, StoreTypes
<1>2. boot = "up" /\ edits' \in 0..MaxEdits /\ Announced /\ category' = category
  BY EditFacts DEF Commit, TypeInv
<1>3. ASSUME NEW v \in 0..MaxVersion, content' = [content EXCEPT ![r] = v],
             jobs' = jobs \o Changed(content', [q \in {r} |-> v]), Retried(content')
      PROVE  \E news \in Seq(JobRecord) : Announces(news)
  <2> DEFINE want == [q \in {r} |-> v]
             news == Changed(content', want)
  <2>1. content' \in [Recipe -> 0..MaxVersion \cup {Trashed}] /\ content'[r] = v
        /\ \A q \in Recipe \ {r} : content'[q] = content[q]
    BY <1>1, <1>3
  <2>2. want \in Versions /\ DOMAIN want = {r} /\ want[r] = v
    BY OneRecipe
  <2>3. jobs' = jobs \o news
    BY <1>3
  <2> HIDE DEF want
  <2>4. news \in Seq(JobRecord) /\ \A i \in 1..Len(news) : JobInv(news[i])
    BY <2>1, <2>2, ChangedFacts
  <2>5. ASSUME ~pending
        PROVE  /\ \A i \in 1..Len(news) : DOMAIN news[i].after = {}
               /\ \A q \in Recipe : content'[q] # Trashed => Told(news, q)
    <3>1. PICK j \in JobRecord : news = <<j>> /\ DOMAIN j.after = {} /\ j.op = "index" /\ j.want = want /\ j.rest = <<>>
      BY <2>1, <2>2, <2>5, ChangedTold
    <3> HIDE DEF news
    <3>2. Len(news) = 1 /\ news[1] = j
      BY <3>1, OneJob
    <3>3. Told(news, r)
      BY <3>1, <3>2, <2>1, <2>2 DEF Told, Brings
    <3>4. ASSUME NEW q \in Recipe, q # r PROVE Told(news, q)
      <4>1. Same(q)
        BY <1>2, <2>1, <3>4 DEF Same
      <4>2. ~About(j, q)
        BY <3>1, <3>4, <2>2, NotAbout
      <4> QED BY <4>1, <4>2, <3>2 DEF Told
    <3> QED BY <3>1, <3>2, <3>3, <3>4
  <2>6. /\ pending' \in BOOLEAN /\ ~pending' /\ (hashes' = hashes \/ DOMAIN hashes' = {})
    BY <1>3, RetriedFacts
  <2> HIDE DEF news
  <2>7. Announces(news)
    BY <1>1, <1>2, <2>1, <2>3, <2>4, <2>5, <2>6 DEF Announces
  <2> QED BY <2>4, <2>7
<1>4. ASSUME content' = [content EXCEPT ![r] = Trashed], jobs' = Append(jobs, RemoveJob(<<r>>)), UNCHANGED <<pending, hashes>>
      PROVE  \E news \in Seq(JobRecord) : Announces(news)
  <2> DEFINE uids == <<r>>
             j == RemoveJob(uids)
             news == <<j>>
  <2>1. uids \in Seq(Recipe) /\ uids # <<>> /\ ToSet(uids) = {r}
    BY DEF ToSet
  <2>2. jobs' = Append(jobs, j)
    BY <1>4
  <2> HIDE DEF uids
  <2>3. j \in JobRecord /\ j.op = "remove" /\ DOMAIN j.want \cup ToSet(j.rest) \subseteq {r} /\ DOMAIN j.after = {}
    BY <2>1, RemoveJobFacts
  <2> HIDE DEF j
  <2>4. news \in Seq(JobRecord) /\ Len(news) = 1 /\ news[1] = j /\ jobs' = jobs \o news
    BY <2>2, <2>3, <1>1, OneJob, AppendIsConcat
  <2>5. content' \in [Recipe -> 0..MaxVersion \cup {Trashed}] /\ content'[r] = Trashed
        /\ \A q \in Recipe \ {r} : content'[q] = content[q]
    BY <1>1, <1>4
  <2>6. ASSUME NEW q \in Recipe, content'[q] # Trashed PROVE Told(news, q)
    <3>1. q # r
      BY <2>5, <2>6
    <3>2. Same(q)
      BY <1>2, <2>5, <3>1 DEF Same
    <3>3. ~About(j, q)
      BY <2>3, <3>1 DEF About
    <3> QED BY <3>2, <3>3, <2>4 DEF Told
  <2> HIDE DEF news
  <2>7. \A i \in 1..Len(news) : JobInv(news[i]) /\ DOMAIN news[i].after = {}
    BY <2>3, <2>4 DEF JobInv
  <2>8. pending' \in BOOLEAN /\ pending' = pending /\ hashes' = hashes
    BY <1>1, <1>4
  <2>9. Announces(news)
    BY <1>1, <1>2, <2>4, <2>5, <2>6, <2>7, <2>8 DEF Announces
  <2> QED BY <2>4, <2>9
<1> QED BY <1>3, <1>4 DEF Commit

\* The end of the recipe reconcile, with a recipe that it fetched or with those that it removed.
LEMMA FetchedTold ==
  ASSUME TypeInv, NEW r \in Recipe, NEW v \in 0..MaxVersion, NEW trashed \in SUBSET Recipe, trashed \subseteq {r},
         Cycle([q \in {r} |-> v], trashed, {})
  PROVE  \E news \in Seq(JobRecord) : Announces(news)
<1> DEFINE want == [q \in {r} |-> v]
           news == Changed(content', want)
<1>1. /\ content \in [Recipe -> 0..MaxVersion \cup {Trashed}] /\ category \in 0..Gone /\ jobs \in Seq(JobRecord)
      /\ edits \in 0..MaxEdits
  BY DEF TypeInv, StoreTypes
<1>2. want \in Versions /\ DOMAIN want = {r} /\ want[r] = v
  BY OneRecipe
<1>3. /\ boot = "up" /\ category' = category /\ Announced /\ Retried(content')
      /\ content' = [q \in Recipe |-> IF q \in {} \/ (q \in trashed /\ q \in DOMAIN want) THEN Trashed
                                      ELSE IF q \in DOMAIN want THEN want[q] ELSE content[q]]
      /\ \E uids \in SetToAllKPermutations({}) : jobs' = jobs \o news \o RemoveJobs(uids)
  BY DEF Cycle
<1>4. edits' \in 0..MaxEdits
  <2>1. UNCHANGED edits \/ Edit
    BY DEF Cycle
  <2> QED BY <2>1, <1>1, EditFacts DEF TypeInv
<1> HIDE DEF want
<1>5. content' \in [Recipe -> 0..MaxVersion \cup {Trashed}]
  BY <1>1, <1>2, <1>3
<1>6. news \in Seq(JobRecord) /\ \A i \in 1..Len(news) : JobInv(news[i])
  BY <1>2, <1>5, ChangedFacts
<1>7. jobs' = jobs \o news
  <2>1. PICK uids \in SetToAllKPermutations({}) : jobs' = jobs \o news \o RemoveJobs(uids)
    BY <1>3
  <2>2. uids = <<>>
    BY <2>1, Removals
  <2> HIDE DEF news
  <2>3. jobs \o news \in Seq(JobRecord)
    BY <1>1, <1>6, JoinFacts
  <2>4. RemoveJobs(uids) = <<>>
    BY <2>2 DEF RemoveJobs
  <2>5. jobs' = (jobs \o news) \o <<>>
    BY <2>1, <2>4
  <2>6. (jobs \o news) \o <<>> = jobs \o news
    BY <2>3, ConcatEmptySeq
  <2> QED BY <2>5, <2>6
<1>8. ASSUME ~pending
      PROVE  /\ \A i \in 1..Len(news) : DOMAIN news[i].after = {}
             /\ \A q \in Recipe : content'[q] # Trashed => Told(news, q)
  <2>1. PICK j \in JobRecord : news = <<j>> /\ DOMAIN j.after = {} /\ j.op = "index" /\ j.want = want /\ j.rest = <<>>
    <3>1. want \in Versions /\ DOMAIN want # {}
      BY <1>2
    <3>2. \/ news = <<>> /\ DOMAIN want = {}
          \/ \E j \in JobRecord : /\ news = <<j>> /\ JobInv(j) /\ DOMAIN j.after = {}
                                  /\ j.op = "index" /\ j.want = want /\ j.rest = <<>>
      BY <3>1, <1>5, <1>8, ChangedTold
    <3> HIDE DEF news
    <3> QED BY <3>1, <3>2
  <2> HIDE DEF news
  <2>2. Len(news) = 1 /\ news[1] = j
    BY <2>1, OneJob
  <2>3. ASSUME content'[r] # Trashed PROVE Told(news, r)
    <3>1. content'[r] = v
      BY <1>2, <1>3, <2>3
    <3> QED BY <2>1, <2>2, <3>1, <1>2 DEF Told, Brings
  <2>4. ASSUME NEW q \in Recipe, q # r PROVE Told(news, q)
    <3>1. Same(q)
      BY <1>2, <1>3, <2>4 DEF Same
    <3>2. ~About(j, q)
      BY <2>1, <2>4, <1>2, NotAbout
    <3> QED BY <3>1, <3>2, <2>2 DEF Told
  <2> QED BY <2>1, <2>2, <2>3, <2>4
<1>9. /\ pending' \in BOOLEAN /\ ~pending' /\ (hashes' = hashes \/ DOMAIN hashes' = {})
  BY <1>3, RetriedFacts
<1> HIDE DEF news
<1>10. Announces(news)
  BY <1>1, <1>3, <1>4, <1>5, <1>6, <1>7, <1>8, <1>9 DEF Announces
<1> QED BY <1>6, <1>10

\* A cycle that finds recipes gone.
LEMMA RemovedTold ==
  ASSUME TypeInv, NEW removed \in SUBSET Recipe, Cycle(None, {}, removed)
  PROVE  \E news \in Seq(JobRecord) : Announces(news)
<1>1. /\ content \in [Recipe -> 0..MaxVersion \cup {Trashed}] /\ category \in 0..Gone /\ jobs \in Seq(JobRecord)
      /\ edits \in 0..MaxEdits
  BY DEF TypeInv, StoreTypes
<1>2. None \in Versions /\ DOMAIN None = {}
  BY NoneFacts DEF Versions
<1>3. /\ boot = "up" /\ category' = category /\ Announced /\ Retried(content')
      /\ content' = [q \in Recipe |-> IF q \in removed \/ (q \in {} /\ q \in DOMAIN None) THEN Trashed
                                      ELSE IF q \in DOMAIN None THEN None[q] ELSE content[q]]
      /\ \E uids \in SetToAllKPermutations(removed) : jobs' = jobs \o Changed(content', None) \o RemoveJobs(uids)
  BY DEF Cycle
<1>4. edits' \in 0..MaxEdits
  <2>1. UNCHANGED edits \/ Edit
    BY DEF Cycle
  <2> QED BY <2>1, <1>1, EditFacts DEF TypeInv
<1>5. /\ content' \in [Recipe -> 0..MaxVersion \cup {Trashed}]
      /\ \A q \in Recipe : content'[q] = IF q \in removed THEN Trashed ELSE content[q]
  BY <1>1, <1>2, <1>3
<1>6. PICK uids \in SetToAllKPermutations(removed) : jobs' = jobs \o Changed(content', None) \o RemoveJobs(uids)
  BY <1>3
<1>7. uids \in Seq(Recipe) /\ ToSet(uids) \subseteq removed
  BY <1>6, Removals
<1> DEFINE C == Changed(content', None)
           R == RemoveJobs(uids)
           news == C \o R
<1>8. C \in Seq(JobRecord) /\ \A i \in 1..Len(C) : JobInv(C[i])
  BY <1>2, <1>5, ChangedFacts
<1>9. R \in Seq(JobRecord) /\ \A i \in 1..Len(R) : JobInv(R[i]) /\ DOMAIN R[i].after = {}
                                                  /\ \A q \in Recipe : About(R[i], q) => q \in removed
  <2>1. CASE R = <<>>
    BY <2>1, EmptySeq
  <2>2. ASSUME NEW j \in JobRecord, R = <<j>>, JobInv(j), DOMAIN j.after = {}, DOMAIN j.want \cup ToSet(j.rest) \subseteq ToSet(uids)
        PROVE  R \in Seq(JobRecord) /\ \A i \in 1..Len(R) : JobInv(R[i]) /\ DOMAIN R[i].after = {}
                                                          /\ \A q \in Recipe : About(R[i], q) => q \in removed
    BY <2>2, <1>7, OneJob DEF About
  <2> QED BY <2>1, <2>2, <1>7, NewsFacts
<1>10. ~pending => C = <<>>
  <2>1. ASSUME ~pending PROVE C = IndexJobs(None)
    BY <2>1, <1>2, <1>5, ChangedFacts
  <2> QED BY <2>1, <1>2 DEF IndexJobs
<1>11. jobs' = jobs \o C \o R
  BY <1>6
<1>12. /\ pending' \in BOOLEAN /\ ~pending' /\ (hashes' = hashes \/ DOMAIN hashes' = {})
  BY <1>3, RetriedFacts
<1> HIDE DEF C, R
<1>13. news \in Seq(JobRecord) /\ jobs' = jobs \o news /\ \A i \in 1..Len(news) : JobInv(news[i])
  <2>1. jobs' = jobs \o news
    <3>0. jobs \in Seq(JobRecord) /\ C \in Seq(JobRecord) /\ R \in Seq(JobRecord)
      BY <1>1, <1>8, <1>9
    <3>1. (jobs \o C) \o R = jobs \o (C \o R)
      BY <3>0, ConcatAssociative
    <3>2. jobs' = (jobs \o C) \o R
      BY <1>11
    <3> QED BY <3>1, <3>2
  <2>2. /\ news \in Seq(JobRecord)
        /\ \A k \in 1..Len(C) : news[k] = C[k]
        /\ \A k \in 1..Len(news) : k \notin 1..Len(C) => k - Len(C) \in 1..Len(R) /\ news[k] = R[k - Len(C)]
    BY <1>8, <1>9, JoinFacts
  <2> QED BY <2>1, <2>2, <1>8, <1>9
<1>14. ASSUME ~pending
       PROVE  /\ \A i \in 1..Len(news) : DOMAIN news[i].after = {}
              /\ \A q \in Recipe : content'[q] # Trashed => Told(news, q)
  <2>1. news = R
    BY <1>10, <1>14, <1>9, ConcatEmptySeq
  <2> HIDE DEF news
  <2>2. ASSUME NEW q \in Recipe, content'[q] # Trashed PROVE Told(news, q)
    <3>1. q \notin removed /\ Same(q)
      BY <1>3, <1>5, <2>2 DEF Same
    <3> QED BY <3>1, <2>1, <1>9 DEF Told
  <2> QED BY <2>1, <2>2, <1>9
<1> HIDE DEF news
<1>15. Announces(news)
  BY <1>1, <1>3, <1>4, <1>5, <1>12, <1>13, <1>14 DEF Announces
<1> QED BY <1>13, <1>15

\* A category that is renamed, or found missing, brings its live recipes to their present texts.
LEMMA RenameTold ==
  ASSUME TypeInv, Rename
  PROVE  \E news \in Seq(JobRecord) : Announces(news)
<1> DEFINE want == Only(content, Active \cap Categorized)
           news == IndexJobs(want)
<1>1. /\ content \in [Recipe -> 0..MaxVersion \cup {Trashed}] /\ category \in 0..Gone /\ jobs \in Seq(JobRecord)
      /\ pending \in BOOLEAN
  BY DEF TypeInv, StoreTypes
<1>2. boot = "up" /\ edits' \in 0..MaxEdits /\ Announced /\ UNCHANGED <<content, pending, hashes>> /\ jobs' = jobs \o news
  BY EditFacts DEF Rename, TypeInv
<1>3. category' \in 0..Gone /\ category # Deleted
  BY <1>1, DiscoverAssumption DEF Rename, Gone, Deleted
<1>4. want \in Versions /\ DOMAIN want = Active \cap Categorized /\ \A r \in DOMAIN want : want[r] = content[r]
  <2>1. /\ DOMAIN want = Active \cap Categorized /\ \A r \in DOMAIN want : want[r] = content[r]
        /\ want = [r \in DOMAIN want |-> want[r]]
    BY <1>1, DiscoverAssumption DEF Only, Active
  <2>2. PartialOn(0..MaxVersion, want)
    BY <2>1, <1>1, DiscoverAssumption DEF PartialOn, Active
  <2> HIDE DEF want
  <2> QED BY <2>1, <2>2, PartialFacts DEF Versions
<1> HIDE DEF want
<1>5. ASSUME NEW r \in Recipe, content'[r] # Trashed, r \notin DOMAIN want PROVE Same(r)
  BY <1>2, <1>3, <1>4, <1>5 DEF Same, Active
<1>6. /\ news \in Seq(JobRecord) /\ \A i \in 1..Len(news) : JobInv(news[i]) /\ DOMAIN news[i].after = {}
      /\ \A r \in Recipe : content'[r] # Trashed => Told(news, r)
  <2>1. CASE news = <<>> /\ DOMAIN want = {}
    BY <2>1, <1>5, EmptySeq DEF Told
  <2>2. ASSUME NEW j \in JobRecord, news = <<j>>, JobInv(j), DOMAIN j.after = {}, j.op = "index", j.want = want, j.rest = <<>>
        PROVE  /\ news \in Seq(JobRecord) /\ \A i \in 1..Len(news) : JobInv(news[i]) /\ DOMAIN news[i].after = {}
               /\ \A r \in Recipe : content'[r] # Trashed => Told(news, r)
    <3>1. news \in Seq(JobRecord) /\ Len(news) = 1 /\ news[1] = j
      BY <2>2, OneJob
    <3>2. ASSUME NEW r \in Recipe, content'[r] # Trashed PROVE Told(news, r)
      <4>1. CASE r \in DOMAIN want
        BY <4>1, <3>1, <2>2, <1>2, <1>4 DEF Told, Brings
      <4>2. CASE r \notin DOMAIN want
        <5>1. ~About(j, r)
          BY <4>2, <2>2, NotAbout
        <5> QED BY <5>1, <3>1, <3>2, <4>2, <1>5 DEF Told
      <4> QED BY <4>1, <4>2
    <3> QED BY <3>1, <3>2, <2>2
  <2> QED BY <2>1, <2>2, <1>4, NewsFacts
<1> HIDE DEF news
<1>7. pending' \in BOOLEAN /\ pending' = pending /\ hashes' = hashes
  BY <1>1, <1>2
<1>8. content' \in [Recipe -> 0..MaxVersion \cup {Trashed}]
  BY <1>1, <1>2
<1>9. Announces(news)
  BY <1>2, <1>3, <1>6, <1>7, <1>8 DEF Announces
<1> QED BY <1>6, <1>9

\* A category that a tool deletes is announced to nobody.
LEMMA DeleteTold ==
  ASSUME TypeInv, DeleteCategory
  PROVE  \E news \in Seq(JobRecord) : Announces(news)
<1>1. /\ content \in [Recipe -> 0..MaxVersion \cup {Trashed}] /\ pending \in BOOLEAN /\ jobs \in Seq(JobRecord)
  BY DEF TypeInv, StoreTypes
<1>2. boot = "up" /\ edits' \in 0..MaxEdits /\ Announced /\ UNCHANGED <<content, jobs, pending, hashes>> /\ category' = Deleted
  BY EditFacts DEF DeleteCategory, TypeInv
<1>3. category' \in 0..Gone
  BY <1>2, DiscoverAssumption DEF Deleted, Gone
<1>4. <<>> \in Seq(JobRecord) /\ Len(<<>>) = 0 /\ jobs' = jobs \o <<>>
  BY <1>1, <1>2, EmptySeq, ConcatEmptySeq
<1>5. \A r \in Recipe : Told(<<>>, r)
  BY <1>2, <1>4 DEF Told, Same
<1>6. pending' \in BOOLEAN /\ pending' = pending /\ hashes' = hashes /\ content' \in [Recipe -> 0..MaxVersion \cup {Trashed}]
  BY <1>1, <1>2
<1>7. Announces(<<>>)
  BY <1>2, <1>3, <1>4, <1>5, <1>6 DEF Announces
<1> QED BY <1>4, <1>7

\* An announcement keeps the invariant.
LEMMA AnnounceKeeps ==
  ASSUME DiscoverInv, NEW news \in Seq(JobRecord), Announces(news)
  PROVE  DiscoverInv'
<1>1. /\ TypeInv /\ MutexInv /\ BootInv /\ HashAgrees /\ OneModel /\ WordInv
      /\ jobs \in Seq(JobRecord) /\ jobs' = jobs \o news /\ boot = "up"
  BY DEF DiscoverInv, TypeInv, Announces
<1>2. UNCHANGED <<model, vectors, hashFile, metaFile, step, boot, torn, overtaken, failed, indexFaults, boots>>
  BY DEF Announces, Announced
<1>3. /\ jobs' \in Seq(JobRecord)
      /\ \A k \in Place' : \/ \E m \in Place : jobs'[k] = jobs[m]
                           \/ \E i \in 1..Len(news) : jobs'[k] = news[i]
  BY <1>1, QueueKeeps
<1>4. /\ Place \subseteq Place' /\ \A k \in Place : jobs'[k] = jobs[k]
      /\ jobs # <<>> => jobs' # <<>> /\ jobs'[1] = jobs[1]
  <2>1. /\ Len(jobs) \in Nat /\ Len(news) \in Nat /\ Len(jobs') = Len(jobs) + Len(news)
        /\ \A k \in 1..Len(jobs) : jobs'[k] = jobs[k]
    BY <1>1, JoinFacts
  <2>2. jobs # <<>> => Len(jobs) # 0 /\ Len(jobs) \in Nat \ {0}
    BY <1>1, EmptySeq
  <2>3. jobs # <<>> => jobs' # <<>>
    <3>1. jobs # <<>> => Len(jobs') # 0
      BY <2>1, <2>2
    <3> QED BY <3>1, EmptySeq
  <2> QED BY <2>1, <2>2, <2>3 DEF Place
<1>5. TypeInv'
  <2>1. PartialOn(Text, hashes)'
    BY <1>1 DEF Announces, TypeInv, StoreTypes, PartialOn
  <2>2. step' \in StepRecord
    BY <1>1, <1>2 DEF TypeInv
  <2>3. /\ content' \in [Recipe -> 0..MaxVersion \cup {Trashed}] /\ category' \in 0..Gone /\ edits' \in 0..MaxEdits
        /\ pending' \in BOOLEAN
    BY DEF Announces
  <2>4. /\ PartialOn(Vector, vectors)' /\ PartialOn(Text, hashFile)'
        /\ metaFile' \in 0..MaxModel /\ model' \in Models
        /\ boot' \in {"init", "reset", "reconcile", "up"} /\ (torn \cup overtaken \subseteq Recipe)'
        /\ indexFaults' \in 0..MaxIndexFaults /\ boots' \in 0..MaxBoots
    BY <1>1, <1>2 DEF TypeInv, StoreTypes, PartialOn
  <2> QED BY <2>1, <2>2, <2>3, <2>4, <1>3 DEF TypeInv, StoreTypes
<1>6. MutexInv'
  <2>1. \A k \in Place' : JobInv(jobs'[k])
    BY <1>1, <1>3 DEF MutexInv, Announces
  <2>2. /\ step'.at # "free" => jobs' # <<>>
        /\ step'.at \in {"embed", "put", "meta"} => jobs'[1].op = "index"
        /\ step'.at # "free" /\ jobs'[1].op = "index" => DOMAIN step'.batch \subseteq DOMAIN jobs'[1].want
    BY <1>1, <1>2, <1>4 DEF MutexInv
  <2>3. boot' = "up"
    BY <1>1, <1>2
  <2> QED BY <2>1, <2>2, <2>3 DEF MutexInv
<1>7. BootInv'
  <2>1. ASSUME ~failed' PROVE ~pending' /\ \A k \in Place' : DOMAIN jobs'[k].after = {}
    <3>1. ~pending /\ \A k \in Place : DOMAIN jobs[k].after = {}
      BY <2>1, <1>1, <1>2 DEF BootInv
    <3> QED BY <3>1, <1>3 DEF Announces
  <2>2. boot' = "up"
    BY <1>1, <1>2
  <2> QED BY <2>1, <2>2 DEF BootInv
<1>8. HashAgrees'
  BY <1>1, <1>2 DEF HashAgrees, Announces
<1>9. OneModel'
  BY <1>1, <1>2 DEF OneModel
<1>10. WordInv'
  <2>1. SUFFICES ASSUME ~failed', torn' = {}, NEW r \in Recipe, content'[r] # Trashed, r \notin overtaken'
                 PROVE  LastWord(r)'
    BY DEF WordInv, Active
  <2>2. ~pending
    BY <2>1, <1>1, <1>2 DEF BootInv
  <2>3. Told(news, r)
    BY <2>1, <2>2 DEF Announces
  <2>4. CASE Same(r) /\ \A i \in 1..Len(news) : ~About(news[i], r)
    <3>1. r \in Active \ overtaken
      BY <2>1, <2>4, <1>2 DEF Active, Same
    <3>2. LastWord(r)
      BY <3>1, <2>1, <1>1, <1>2 DEF WordInv, Running
    <3> QED BY <3>2, <2>4, <1>1, <1>2, WordKept
  <2>5. CASE Len(news) = 1 /\ Brings(news[1], r, content'[r])
    <3>1. step.at # "free" => jobs # <<>>
      BY <1>1 DEF MutexInv
    <3> QED BY <3>1, <2>5, <1>1, <1>2, WordBrought
  <2> QED BY <2>3, <2>4, <2>5 DEF Told
<1> QED BY <1>5, <1>6, <1>7, <1>8, <1>9, <1>10 DEF DiscoverInv

----------------------------------------------------------------------------
\* The holder of the mutex.

\* The steps of the holder leave the recipes and the process alone.
HolderStep == jobs # <<>> /\ UNCHANGED indexRest

\* The holder ends ...
LEMMA EndFacts ==
  ASSUME DiscoverInv, jobs # <<>>, NEW ok \in BOOLEAN, Next(Holder, ok)
  PROVE  /\ jobs' \in Seq(JobRecord) /\ step' = NoStep /\ NoStep \in StepRecord
         /\ overtaken' \subseteq Recipe /\ overtaken \subseteq overtaken'
         /\ pending' \in BOOLEAN /\ (ok /\ ~pending => ~pending')
         /\ boot' = "up"
         /\ \A k \in Place' : JobInv(jobs'[k])
         /\ ~failed => \A k \in Place' : DOMAIN jobs'[k].after = {}
<1>1. /\ jobs \in Seq(JobRecord) /\ StoreTypes /\ MutexInv /\ BootInv
      /\ Tail(jobs) \in Seq(JobRecord) /\ Holder = jobs[1] /\ jobs[1] \in JobRecord /\ 1 \in Place
  BY LeaveFacts DEF DiscoverInv, TypeInv
<1>2. Holder.after \in Versions /\ Holder.rest \in Seq(Recipe) /\ Holder.reconcile \in BOOLEAN
  BY <1>1 DEF JobRecord
<1> DEFINE A == IndexJobs(Holder.after)
           R == RemoveJobs(Holder.rest)
           news == A \o R
<1>3. A \in Seq(JobRecord) /\ \A i \in 1..Len(A) : JobInv(A[i]) /\ DOMAIN A[i].after = {}
  <2>1. CASE A = <<>>
    BY <2>1, EmptySeq
  <2>2. ASSUME NEW j \in JobRecord, A = <<j>>, JobInv(j), DOMAIN j.after = {}
        PROVE  A \in Seq(JobRecord) /\ \A i \in 1..Len(A) : JobInv(A[i]) /\ DOMAIN A[i].after = {}
    BY <2>2, OneJob
  <2> QED BY <2>1, <2>2, <1>2, NewsFacts
<1>4. R \in Seq(JobRecord) /\ \A i \in 1..Len(R) : JobInv(R[i]) /\ DOMAIN R[i].after = {}
  <2>1. CASE R = <<>>
    BY <2>1, EmptySeq
  <2>2. ASSUME NEW j \in JobRecord, R = <<j>>, JobInv(j), DOMAIN j.after = {}
        PROVE  R \in Seq(JobRecord) /\ \A i \in 1..Len(R) : JobInv(R[i]) /\ DOMAIN R[i].after = {}
    BY <2>2, OneJob
  <2> QED BY <2>1, <2>2, <1>2, NewsFacts
<1>5. /\ jobs' = Tail(jobs) \o A \o R /\ step' = NoStep
      /\ overtaken' = overtaken \cup ((DOMAIN Holder.after \cup ToSet(Holder.rest)) \cap UNION {DOMAIN jobs[k].want : k \in 2..Len(jobs)})
      /\ pending' = (pending \/ (Holder.reconcile /\ ~ok))
      /\ boot' = IF boot = "reconcile" THEN "up" ELSE boot
  BY DEF Next
<1> HIDE DEF A, R
<1>6. jobs' = Tail(jobs) \o news
  <2>0. Tail(jobs) \in Seq(JobRecord) /\ A \in Seq(JobRecord) /\ R \in Seq(JobRecord)
    BY <1>1, <1>3, <1>4
  <2>1. (Tail(jobs) \o A) \o R = Tail(jobs) \o (A \o R)
    BY <2>0, ConcatAssociative
  <2>2. jobs' = (Tail(jobs) \o A) \o R
    BY <1>5
  <2> QED BY <2>1, <2>2
<1>7. news \in Seq(JobRecord) /\ \A i \in 1..Len(news) : JobInv(news[i]) /\ DOMAIN news[i].after = {}
  <2>1. /\ news \in Seq(JobRecord)
        /\ \A k \in 1..Len(A) : news[k] = A[k]
        /\ \A k \in 1..Len(news) : k \notin 1..Len(A) => k - Len(A) \in 1..Len(R) /\ news[k] = R[k - Len(A)]
    BY <1>3, <1>4, JoinFacts
  <2> QED BY <2>1, <1>3, <1>4
<1> HIDE DEF news
<1>8. /\ jobs' \in Seq(JobRecord)
      /\ \A k \in Place' : \/ \E m \in Place : jobs'[k] = jobs[m]
                           \/ \E i \in 1..Len(news) : jobs'[k] = news[i]
  BY <1>1, <1>6, <1>7, QueueKeeps
<1>9. NoStep \in StepRecord
  <2>1. NoStep = [at |-> "free", batch |-> None] /\ None \in Partial(Text)
    BY NoneFacts DEF NoStep, None
  <2> QED BY <2>1 DEF StepRecord
<1>10. overtaken' \subseteq Recipe /\ overtaken \subseteq overtaken'
  <2>1. DOMAIN Holder.after \subseteq Recipe
    BY <1>2, PartialFacts DEF Versions, PartialOn
  <2>2. ToSet(Holder.rest) \subseteq Recipe
    BY <1>2, LenProperties, ElementOfSeq DEF ToSet
  <2>3. overtaken \subseteq Recipe
    BY <1>1 DEF StoreTypes
  <2> QED BY <2>1, <2>2, <2>3, <1>5
<1>11. pending' \in BOOLEAN /\ (ok /\ ~pending => ~pending')
  <2>1. pending' \in BOOLEAN
    BY <1>5
  <2>2. ok /\ ~pending => ~pending'
    BY <1>5, Zenon
  <2> QED BY <2>1, <2>2
<1>12. boot' = "up"
  BY <1>1, <1>5 DEF MutexInv, StoreTypes
<1>13. \A k \in Place' : JobInv(jobs'[k])
  BY <1>1, <1>7, <1>8 DEF MutexInv
<1>14. ~failed => \A k \in Place' : DOMAIN jobs'[k].after = {}
  BY <1>1, <1>7, <1>8 DEF BootInv
<1> QED BY <1>5, <1>8, <1>9, <1>10, <1>11, <1>12, <1>13, <1>14


\* What the holder writes is well typed and agrees.
StoresWell ==
  /\ PartialOn(Vector, vectors') /\ PartialOn(Text, hashes') /\ PartialOn(Text, hashFile')
  /\ metaFile' \in 0..MaxModel /\ indexFaults' \in 0..MaxIndexFaults /\ (failed' = failed \/ failed' = TRUE)
  /\ HashAgrees'
  /\ \A r \in DOMAIN vectors' : (r \in DOMAIN vectors /\ vectors'[r].by = vectors[r].by) \/ vectors'[r].by = model

\* A recipe that nobody has a word on stays as it is.
Untouched(r) == FreshFor(r) /\ ~About(jobs[1], r) => FreshFor(r)'
Carried(r) == Brings(jobs[1], r, content[r]) /\ Carries(r)

\* The parts of the invariant that do not depend on whether the holder ends or goes on.
LEMMA HolderStores ==
  ASSUME DiscoverInv, HolderStep, StoresWell
  PROVE  /\ OneModel' /\ boot \in {"reconcile", "up"}
         /\ content' = content /\ category' = category /\ model' = model /\ torn' = torn /\ Active' = Active
         /\ \A r \in Recipe : Same(r)
         /\ ~failed' => ~failed /\ failed' # TRUE
         /\ ~failed => ~pending
         /\ \A r \in Active \ overtaken : ~failed /\ torn = {} => LastWord(r)
         /\ content' \in [Recipe -> 0..MaxVersion \cup {Trashed}] /\ category' \in 0..Gone /\ model' \in Models
         /\ torn' \subseteq Recipe /\ edits' \in 0..MaxEdits /\ boots' \in 0..MaxBoots
<1>1. StoreTypes /\ MutexInv /\ BootInv /\ OneModel /\ WordInv /\ jobs # <<>>
  BY DEF DiscoverInv, TypeInv, HolderStep
<1>2. content' = content /\ category' = category /\ model' = model /\ torn' = torn /\ edits' = edits /\ boots' = boots
  BY DEF HolderStep, indexRest
<1>3. boot \in {"reconcile", "up"}
  BY <1>1 DEF MutexInv, StoreTypes
<1>4. OneModel'
  BY <1>1, <1>2, <1>3 DEF OneModel, StoresWell
<1>5. Active' = Active /\ \A r \in Recipe : Same(r)
  BY <1>2 DEF Active, Same
<1>6. ~failed' => ~failed /\ failed' # TRUE
  BY DEF StoresWell
<1>7. ~failed => ~pending
  BY <1>1 DEF BootInv
<1>8. \A r \in Active \ overtaken : ~failed /\ torn = {} => LastWord(r)
  BY <1>1 DEF WordInv, Running
<1>9. /\ content' \in [Recipe -> 0..MaxVersion \cup {Trashed}] /\ category' \in 0..Gone /\ model' \in Models
      /\ torn' \subseteq Recipe /\ edits' \in 0..MaxEdits /\ boots' \in 0..MaxBoots
  BY <1>1, <1>2 DEF StoreTypes
<1> QED BY <1>2, <1>3, <1>4, <1>5, <1>6, <1>7, <1>8, <1>9

\* A holder that ends keeps the invariant, if what it carried is indexed or its end is a failure.
LEMMA HolderEnds ==
  ASSUME DiscoverInv, HolderStep, StoresWell, NEW ok \in BOOLEAN, Next(Holder, ok), ok \/ failed' = TRUE,
         \A r \in Active : failed' # TRUE /\ torn = {} => Untouched(r) /\ (Carried(r) => FreshFor(r)')
  PROVE  DiscoverInv'
<1>1. /\ jobs' \in Seq(JobRecord) /\ step' \in StepRecord /\ step'.at = "free"
      /\ overtaken' \subseteq Recipe /\ overtaken \subseteq overtaken'
      /\ pending' \in BOOLEAN /\ (ok /\ ~pending => ~pending')
      /\ boot' = "up"
      /\ \A k \in Place' : JobInv(jobs'[k])
      /\ ~failed => \A k \in Place' : DOMAIN jobs'[k].after = {}
  BY EndFacts DEF HolderStep, NoStep
<1>2. TypeInv'
  BY <1>1, HolderStores DEF TypeInv, StoreTypes, StoresWell
<1>3. MutexInv'
  BY <1>1 DEF MutexInv
<1>4. BootInv'
  BY <1>1, HolderStores DEF BootInv
<1>5. WordInv'
  <2>1. SUFFICES ASSUME ~failed', torn' = {}, NEW r \in Active', r \notin overtaken'
                 PROVE  LastWord(r)'
    BY DEF WordInv
  <2>2. /\ r \in Active /\ r \notin overtaken /\ r \in Recipe /\ Same(r) /\ LastWord(r)
        /\ ~failed /\ failed' # TRUE /\ torn = {}
    BY <2>1, <1>1, HolderStores DEF Active
  <2>3. Untouched(r) /\ (Carried(r) => FreshFor(r)')
    BY <2>2
  <2>4. /\ jobs \in Seq(JobRecord) /\ jobs # <<>> /\ jobs[1] \in JobRecord /\ Holder = jobs[1] /\ 1 \in Place
        /\ MutexInv /\ BootInv
    BY LeaveFacts DEF HolderStep, DiscoverInv, TypeInv
  <2>5. DOMAIN Holder.after = {} /\ Holder.rest \in Seq(Recipe)
    BY <2>2, <2>4 DEF BootInv, JobRecord
  <2>6. \A k \in Place : JobInv(jobs[k])
    BY <2>4 DEF MutexInv
  <2> QED BY <2>1, <2>2, <2>3, <2>4, <2>5, <2>6, WordPassed DEF Untouched, Carried
<1> QED BY <1>2, <1>3, <1>4, <1>5, HolderStores DEF DiscoverInv, StoresWell

\* A holder that goes on keeps the invariant, if it goes on carrying what it carried.
LEMMA HolderStays ==
  ASSUME DiscoverInv, HolderStep, StoresWell, step' \in StepRecord, UNCHANGED <<jobs, pending, boot, overtaken>>,
         step'.at \in {"embed", "put", "meta"} => jobs[1].op = "index",
         jobs[1].op = "index" => DOMAIN step'.batch \subseteq DOMAIN jobs[1].want,
         \A r \in Active : failed' # TRUE /\ torn = {} => Untouched(r) /\ (Carried(r) => Carries(r)')
  PROVE  DiscoverInv'
<1>1. jobs \in Seq(JobRecord) /\ jobs # <<>> /\ StoreTypes /\ MutexInv /\ BootInv /\ 1 \in Place
  BY LeaveFacts DEF HolderStep, DiscoverInv, TypeInv
<1>2. TypeInv'
  <2>1. pending' \in BOOLEAN /\ boot' \in {"init", "reset", "reconcile", "up"} /\ overtaken' \subseteq Recipe /\ jobs' \in Seq(JobRecord)
    BY <1>1 DEF StoreTypes
  <2> QED BY <2>1, HolderStores DEF TypeInv, StoreTypes, StoresWell
<1>3. MutexInv'
  BY <1>1 DEF MutexInv, Place
<1>4. BootInv'
  BY <1>1, HolderStores DEF BootInv, Place
<1>5. WordInv'
  <2>1. SUFFICES ASSUME ~failed', torn' = {}, NEW r \in Active', r \notin overtaken'
                 PROVE  LastWord(r)'
    BY DEF WordInv
  <2>2. /\ r \in Active /\ r \notin overtaken /\ r \in Recipe /\ Same(r) /\ LastWord(r)
        /\ ~failed /\ failed' # TRUE /\ torn = {} /\ content' = content
    BY <2>1, HolderStores DEF Active
  <2>3. Untouched(r) /\ (Carried(r) => Carries(r)')
    BY <2>2
  <2>4. CASE FreshFor(r) /\ \A k \in Place : ~About(jobs[k], r)
    <3>1. FreshFor(r)'
      BY <2>3, <2>4, <1>1 DEF Untouched
    <3> QED BY <3>1, <2>4 DEF LastWord, Place
  <2>5. ASSUME NEW k \in Place, Final(k, r), Brings(jobs[k], r, content[r]), k = 1 => Carries(r)
        PROVE  LastWord(r)'
    <3>1. k = 1 => Carries(r)'
      BY <2>3, <2>5 DEF Carried
    <3>2. k \in Place' /\ Final(k, r)' /\ Brings(jobs'[k], r, content'[r])
      BY <2>2, <2>5 DEF Final, Place
    <3> QED BY <3>1, <3>2 DEF LastWord
  <2> QED BY <2>2, <2>4, <2>5 DEF LastWord
<1> QED BY <1>2, <1>3, <1>4, <1>5, HolderStores DEF DiscoverInv, StoresWell

\* What the holder's steps leave alone is well typed and agrees.
LEMMA HolderTypes ==
  ASSUME DiscoverInv, jobs # <<>>
  PROVE  /\ jobs \in Seq(JobRecord) /\ Holder = jobs[1] /\ jobs[1] \in JobRecord /\ 1 \in Place
         /\ step \in StepRecord /\ PartialOn(Text, step.batch) /\ PartialOn(0..MaxVersion, jobs[1].want)
         /\ PartialOn(Vector, vectors) /\ PartialOn(Text, hashes) /\ PartialOn(Text, hashFile)
         /\ metaFile \in 0..MaxModel /\ model \in 0..MaxModel /\ model \in Models
         /\ indexFaults \in 0..MaxIndexFaults /\ HashAgrees
         /\ category \in 0..Gone
         /\ step.at \in {"embed", "put", "meta"} => jobs[1].op = "index"
         /\ step.at # "free" /\ jobs[1].op = "index" => DOMAIN step.batch \subseteq DOMAIN jobs[1].want
<1>1. jobs \in Seq(JobRecord) /\ step \in StepRecord /\ StoreTypes /\ MutexInv /\ HashAgrees
  BY DEF DiscoverInv, TypeInv
<1>2. Holder = jobs[1] /\ jobs[1] \in JobRecord /\ 1 \in Place
  BY <1>1, LeaveFacts
<1>3. PartialOn(Text, step.batch) /\ PartialOn(0..MaxVersion, jobs[1].want)
  BY <1>1, <1>2, PartialFacts DEF StepRecord, JobRecord, Versions
<1>4. model \in 0..MaxModel
  BY <1>1, DiscoverAssumption DEF StoreTypes, Models
<1> QED BY <1>1, <1>2, <1>3, <1>4 DEF StoreTypes, MutexInv

\* A failure counts.
LEMMA FaultFacts ==
  ASSUME indexFaults \in 0..MaxIndexFaults, Fault
  PROVE  indexFaults' \in 0..MaxIndexFaults
  BY DiscoverAssumption DEF Fault

\* A step on another place of the operation.
LEMMA StayFacts ==
  ASSUME step \in StepRecord, NEW s \in {"put", "hashes", "meta"}, Stay(s)
  PROVE  step' \in StepRecord /\ step'.at = s /\ step'.batch = step.batch /\ UNCHANGED <<jobs, pending, boot, overtaken>>
  BY DEF Stay, StepRecord

\* What leaves the index and its files alone stores well.
LEMMA StoresKept ==
  ASSUME DiscoverInv, jobs # <<>>, UNCHANGED <<vectors, hashes, hashFile, torn>>,
         metaFile' \in 0..MaxModel, indexFaults' \in 0..MaxIndexFaults, failed' = failed \/ failed' = TRUE
  PROVE  StoresWell
<1>1. /\ PartialOn(Vector, vectors') /\ PartialOn(Text, hashes') /\ PartialOn(Text, hashFile')
      /\ HashAgrees'
  BY HolderTypes DEF HashAgrees
<1> QED BY <1>1 DEF StoresWell

\* Taking the mutex to index: what has not drifted from its hash is indexed as it is, and the batch
\* carries the present text of the rest.
LEMMA StartIndexKeeps ==
  ASSUME DiscoverInv, StartIndex
  PROVE  DiscoverInv'
<1>1. /\ HolderStep /\ jobs # <<>> /\ step.at = "free" /\ Holder.op = "index"
      /\ UNCHANGED <<content, category, torn, vectors, hashes, hashFile, metaFile, failed, indexFaults>>
  BY DEF StartIndex, At, HolderStep, indexRest
<1>2. StoresWell
  BY <1>1, HolderTypes, StoresKept
<1>3. Holder = jobs[1] /\ jobs[1].op = "index" /\ PartialOn(0..MaxVersion, jobs[1].want) /\ category \in 0..Gone /\ HashAgrees
  BY <1>1, HolderTypes
<1> DEFINE want == jobs[1].want
           drifted == Drifted(want)
           batch == [r \in drifted |-> EmbeddingText(r, want[r])]
\* What has not drifted is indexed as it is.
<1>4. ASSUME NEW r \in Active, torn = {}, Brings(jobs[1], r, content[r]), r \notin drifted PROVE FreshFor(r)
  <2>1. r \in DOMAIN want /\ want[r] = content[r]
    BY <1>4 DEF Brings
  <2>2. r \in DOMAIN hashes /\ hashes[r] = EmbeddingText(r, content[r])
    BY <2>1, <1>4 DEF Drifted
  <2>3. r \in DOMAIN vectors /\ vectors[r].text = EmbeddingText(r, content[r])
    BY <2>2, <1>3, <1>4 DEF HashAgrees
  <2> QED BY <2>3 DEF FreshFor, EmbeddingText
<1>5. ASSUME NEW r \in Active PROVE Same(r) /\ (FreshFor(r) => FreshFor(r)')
  BY <1>1, SameTexts DEF Same
<1>6. CASE drifted = {}
  <2>1. Next(Holder, TRUE)
    BY <1>3, <1>6 DEF StartIndex
  <2>2. \A r \in Active : torn = {} => Untouched(r) /\ (Carried(r) => FreshFor(r)')
    BY <1>4, <1>5, <1>6 DEF Untouched, Carried
  <2> QED BY <2>1, <2>2, <1>1, <1>2, HolderEnds
<1>7. CASE drifted # {}
  <2>1. step' = [at |-> "embed", batch |-> batch] /\ UNCHANGED <<jobs, pending, boot, overtaken>>
    BY <1>3, <1>7 DEF StartIndex
  <2>2. DOMAIN batch = drifted /\ drifted \subseteq DOMAIN want
    BY DEF Drifted
  <2>3. batch \in Partial(Text)
    <3>1. \A r \in DOMAIN batch : r \in Recipe /\ batch[r] \in Text
      BY <2>2, <1>3, TextFacts DEF PartialOn
    <3>2. batch = [r \in DOMAIN batch |-> batch[r]]
      OBVIOUS
    <3> HIDE DEF batch
    <3> QED BY <3>1, <3>2, PartialFacts DEF PartialOn
  <2>4. ASSUME NEW r \in Active, torn = {}, Carried(r) PROVE Carries(r)'
    <3>1. Brings(jobs[1], r, content[r]) /\ Same(r)
      BY <2>4, <1>5 DEF Carried
    <3>2. CASE r \in drifted
      <4>1. batch[r] = EmbeddingText(r, content[r])
        BY <3>1, <3>2 DEF Brings
      <4>2. step'.at = "embed" /\ step'.batch[r] = EmbeddingText(r, content[r]) /\ r \in DOMAIN step'.batch
        BY <4>1, <2>1, <2>2, <3>2
      <4>3. EmbeddingText(r, content[r]) = EmbeddingText(r, content[r])' /\ content'[r] = content[r]
        BY <1>1 DEF EmbeddingText
      <4>4. EmbeddingText(r, content[r])'.version = content'[r]
        BY DEF EmbeddingText
      <4>5. RightText(step.batch[r], r)'
        BY <4>2, <4>3, <4>4 DEF RightText
      <4> QED BY <4>2, <4>5 DEF Carries
    <3>3. CASE r \notin drifted
      <4>1. FreshFor(r)'
        BY <3>1, <3>3, <2>4, <1>4, <1>5
      <4>2. step'.at = "embed" /\ r \notin DOMAIN step'.batch
        BY <2>1, <2>2, <3>3
      <4> QED BY <4>1, <4>2 DEF Carries
    <3> QED BY <3>2, <3>3
  <2> HIDE DEF batch, drifted
  <2>5. step' \in StepRecord
    BY <2>1, <2>3 DEF StepRecord
  <2>6. jobs[1].op = "index" /\ DOMAIN step'.batch \subseteq DOMAIN jobs[1].want
    BY <2>1, <2>2, <1>3
  <2>7. \A r \in Active : torn = {} => Untouched(r) /\ (Carried(r) => Carries(r)')
    BY <2>4, <1>5 DEF Untouched
  <2> QED BY <2>1, <2>5, <2>6, <2>7, <1>1, <1>2, HolderStays
<1> QED BY <1>6, <1>7

\* The provider's answer keeps what the batch carries; a text it leaves out is a failure.
LEMMA EmbedKeeps ==
  ASSUME DiscoverInv, Embed
  PROVE  DiscoverInv'
<1>1. /\ HolderStep /\ jobs # <<>> /\ step.at = "embed"
      /\ UNCHANGED <<content, category, torn, vectors, hashes, hashFile, metaFile>>
  BY DEF Embed, At, HolderStep, indexRest
<1>2. /\ step \in StepRecord /\ PartialOn(Text, step.batch) /\ metaFile' \in 0..MaxModel /\ indexFaults \in 0..MaxIndexFaults
      /\ jobs[1].op = "index" /\ DOMAIN step.batch \subseteq DOMAIN jobs[1].want
  BY <1>1, HolderTypes
<1>3. ASSUME Stay("put"), UNCHANGED <<failed, indexFaults>> PROVE DiscoverInv'
  <2>1. StoresWell
    BY <1>1, <1>2, <1>3, StoresKept
  <2>2. step' \in StepRecord /\ step'.at = "put" /\ step'.batch = step.batch /\ UNCHANGED <<jobs, pending, boot, overtaken>>
    BY <1>2, <1>3, StayFacts
  <2>3. ASSUME NEW r \in Active PROVE Untouched(r) /\ (Carried(r) => Carries(r)')
    <3>1. Same(r) /\ (FreshFor(r) => FreshFor(r)')
      BY <1>1, SameTexts DEF Same
    <3>2. \A t : RightText(t, r) => RightText(t, r)'
      BY <3>1, SameTexts
    <3>3. RightText(step.batch[r], r) => RightText(step.batch[r], r)'
      BY <2>2, <1>1 DEF RightText, EmbeddingText
    <3> QED BY <3>1, <3>3, <2>2, <1>1 DEF Untouched, Carried, Carries
  <2> QED BY <2>1, <2>2, <2>3, <1>1, <1>2, HolderStays
<1>4. ASSUME Fault, failed' = TRUE, NEW r \in DOMAIN step.batch,
             step' = [at |-> "put", batch |-> Only(step.batch, Recipe \ {r})], UNCHANGED <<jobs, pending, boot, overtaken>>
      PROVE  DiscoverInv'
  <2>1. StoresWell
    BY <1>1, <1>2, <1>4, FaultFacts, StoresKept
  <2> DEFINE b == step.batch
             rest == Recipe \ {r}
  <2>2. Only(b, rest) \in Partial(Text) /\ DOMAIN Only(b, rest) \subseteq DOMAIN b
    <3>1. PartialOn(Text, b)
      BY <1>2
    <3> HIDE DEF b, rest
    <3>2. /\ Only(b, rest) \in Partial(Text) /\ PartialOn(Text, Only(b, rest))
          /\ DOMAIN Only(b, rest) = DOMAIN b \cap rest
          /\ \A q \in DOMAIN b \cap rest : Only(b, rest)[q] = b[q]
      BY <3>1, OnlyFacts
    <3> QED BY <3>2
  <2>3. step' \in StepRecord /\ DOMAIN step'.batch \subseteq DOMAIN jobs[1].want
    BY <2>2, <1>2, <1>4 DEF StepRecord
  <2> QED BY <2>1, <2>3, <1>1, <1>2, <1>4, HolderStays
<1>5. ASSUME Fault, failed' = TRUE, Next(Holder, FALSE) PROVE DiscoverInv'
  <2>1. StoresWell
    BY <1>1, <1>2, <1>5, FaultFacts, StoresKept
  <2> QED BY <2>1, <1>1, <1>5, HolderEnds
<1> QED BY <1>3, <1>4, <1>5 DEF Embed

\* The vectors of a batch ...
Embedded(b) == [r \in DOMAIN b |-> [text |-> b[r], by |-> model]]
\* ... laid over those that are there.
LEMMA PutFacts ==
  ASSUME model \in Models, NEW f, PartialOn(Vector, f), NEW b, PartialOn(Text, b)
  PROVE  /\ PartialOn(Vector, Over(f, Embedded(b))) /\ DOMAIN Over(f, Embedded(b)) = DOMAIN f \cup DOMAIN b
         /\ \A r \in DOMAIN b : Over(f, Embedded(b))[r].text = b[r] /\ Over(f, Embedded(b))[r].by = model
         /\ \A r \in DOMAIN f \ DOMAIN b : Over(f, Embedded(b))[r] = f[r]
<1> PICK e : e = Embedded(b)
  OBVIOUS
<1>1. DOMAIN e = DOMAIN b /\ \A r \in DOMAIN b : e[r].text = b[r] /\ e[r].by = model /\ e[r] = [text |-> b[r], by |-> model]
  BY DEF Embedded
<1>2. \A r \in DOMAIN b : r \in Recipe /\ e[r] \in Vector
  BY <1>1 DEF PartialOn, Vector
<1>4. PartialOn(Vector, e)
  BY <1>1, <1>2 DEF PartialOn
<1>3. /\ DOMAIN Over(f, e) = DOMAIN f \cup DOMAIN e
      /\ \A r \in DOMAIN e : Over(f, e)[r] = e[r]
      /\ \A r \in DOMAIN f \ DOMAIN e : Over(f, e)[r] = f[r]
  BY DEF Over
<1>5. PartialOn(Vector, Over(f, e))
  BY <1>3, <1>4 DEF PartialOn
<1>6. /\ PartialOn(Vector, Over(f, e)) /\ DOMAIN Over(f, e) = DOMAIN f \cup DOMAIN b
      /\ \A r \in DOMAIN b : Over(f, e)[r].text = b[r] /\ Over(f, e)[r].by = model
      /\ \A r \in DOMAIN f \ DOMAIN b : Over(f, e)[r] = f[r]
  BY <1>1, <1>3, <1>5
<1> QED BY <1>6

\* The transaction of the index: what the batch carried is indexed, and the hash map says so.
LEMMA PutKeeps ==
  ASSUME DiscoverInv, Put
  PROVE  DiscoverInv'
<1>1. /\ HolderStep /\ jobs # <<>> /\ step.at = "put" /\ UNCHANGED <<content, category, torn, hashFile, metaFile, model>>
  BY DEF Put, At, HolderStep, indexRest
<1>2. /\ step \in StepRecord /\ PartialOn(Text, step.batch) /\ metaFile' \in 0..MaxModel /\ indexFaults \in 0..MaxIndexFaults
      /\ jobs[1].op = "index" /\ DOMAIN step.batch \subseteq DOMAIN jobs[1].want /\ model \in Models
      /\ PartialOn(Vector, vectors) /\ PartialOn(Text, hashes) /\ PartialOn(Text, hashFile) /\ HashAgrees
  BY <1>1, HolderTypes
<1>3. ASSUME vectors' = Over(vectors, [r \in DOMAIN step.batch |-> [text |-> step.batch[r], by |-> model]]), hashes' = Over(hashes, step.batch), Stay("hashes"), UNCHANGED <<failed, indexFaults>>
      PROVE  DiscoverInv'
  <2>3. /\ PartialOn(Vector, vectors') /\ DOMAIN vectors' = DOMAIN vectors \cup DOMAIN step.batch
        /\ \A r \in DOMAIN step.batch : vectors'[r].text = step.batch[r] /\ vectors'[r].by = model
        /\ \A r \in DOMAIN vectors \ DOMAIN step.batch : vectors'[r] = vectors[r]
    <3> DEFINE b == step.batch
    <3>1. PartialOn(Vector, vectors) /\ PartialOn(Text, b) /\ model \in Models
      BY <1>2
    <3>2. vectors' = Over(vectors, Embedded(b))
      BY <1>3 DEF Embedded
    <3> HIDE DEF b
    <3>3. /\ PartialOn(Vector, Over(vectors, Embedded(b))) /\ DOMAIN Over(vectors, Embedded(b)) = DOMAIN vectors \cup DOMAIN b
          /\ \A r \in DOMAIN b : Over(vectors, Embedded(b))[r].text = b[r] /\ Over(vectors, Embedded(b))[r].by = model
          /\ \A r \in DOMAIN vectors \ DOMAIN b : Over(vectors, Embedded(b))[r] = vectors[r]
      BY <3>1, PutFacts
    <3> QED BY <3>2, <3>3 DEF b
  <2>4. /\ PartialOn(Text, hashes') /\ DOMAIN hashes' = DOMAIN hashes \cup DOMAIN step.batch
        /\ \A r \in DOMAIN step.batch : hashes'[r] = step.batch[r]
        /\ \A r \in DOMAIN hashes \ DOMAIN step.batch : hashes'[r] = hashes[r]
    <3> DEFINE b == step.batch
    <3>1. PartialOn(Text, hashes) /\ PartialOn(Text, b)
      BY <1>2
    <3> HIDE DEF b
    <3>2. /\ PartialOn(Text, Over(hashes, b)) /\ DOMAIN Over(hashes, b) = DOMAIN hashes \cup DOMAIN b
          /\ \A r \in DOMAIN b : Over(hashes, b)[r] = b[r]
          /\ \A r \in DOMAIN hashes \ DOMAIN b : Over(hashes, b)[r] = hashes[r]
      BY <3>1, OverFacts
    <3> QED BY <3>2, <1>3 DEF b
  <2>5. HashAgrees'
    BY <2>3, <2>4, <1>1, <1>2 DEF HashAgrees
  <2>6. StoresWell
    BY <2>3, <2>4, <2>5, <1>1, <1>2, <1>3 DEF StoresWell
  <2>7. step' \in StepRecord /\ step'.at = "hashes" /\ UNCHANGED <<jobs, pending, boot, overtaken>>
    BY <1>2, <1>3, StayFacts
  <2>8. ASSUME NEW r \in Active PROVE Untouched(r) /\ (Carried(r) => Carries(r)')
    <3>1. ASSUME r \notin DOMAIN step.batch, FreshFor(r) PROVE FreshFor(r)'
      <4>1. r \in DOMAIN vectors' /\ vectors'[r] = vectors[r]
        BY <3>1, <2>3 DEF FreshFor
      <4> QED BY <4>1, <3>1, <1>1 DEF FreshFor, EmbeddingText
    <3>2. ASSUME r \in DOMAIN step.batch, RightText(step.batch[r], r) PROVE FreshFor(r)'
      <4>1. r \in DOMAIN vectors' /\ vectors'[r].text = step.batch[r]
        BY <3>2, <2>3
      <4> QED BY <4>1, <3>2, <1>1 DEF FreshFor, RightText, EmbeddingText
    <3>3. ~About(jobs[1], r) => r \notin DOMAIN step.batch
      BY <1>2 DEF About
    <3>4. Carried(r) => FreshFor(r)'
      BY <3>1, <3>2, <1>1 DEF Carried, Carries
    <3> QED BY <3>1, <3>3, <3>4, <2>7 DEF Untouched, Carries
  <2>9. DOMAIN step'.batch \subseteq DOMAIN jobs[1].want
    BY <1>2, <1>3, StayFacts
  <2> QED BY <2>6, <2>7, <2>8, <2>9, <1>1, HolderStays
<1>4. ASSUME Fault, failed' = TRUE, Next(Holder, FALSE), UNCHANGED <<vectors, hashes>> PROVE DiscoverInv'
  <2>1. StoresWell
    BY <1>1, <1>2, <1>4, FaultFacts, StoresKept
  <2> QED BY <2>1, <1>1, <1>4, HolderEnds
<1> QED BY <1>3, <1>4 DEF Put

\* A removal takes the recipe out of both.
LEMMA UnindexKeeps ==
  ASSUME DiscoverInv, Unindex
  PROVE  DiscoverInv'
<1>1. /\ HolderStep /\ jobs # <<>> /\ Holder.op = "remove" /\ step.at = "free"
      /\ UNCHANGED <<content, category, torn, hashFile, metaFile>>
  BY DEF Unindex, At, HolderStep, indexRest
<1>2. /\ step \in StepRecord /\ metaFile' \in 0..MaxModel /\ indexFaults \in 0..MaxIndexFaults /\ Holder = jobs[1]
      /\ PartialOn(Vector, vectors) /\ PartialOn(Text, hashes) /\ PartialOn(Text, hashFile) /\ HashAgrees
  BY <1>1, HolderTypes
<1> DEFINE gone == DOMAIN Holder.want
<1>3. ASSUME vectors' = Only(vectors, Recipe \ gone), hashes' = Only(hashes, Recipe \ gone),
             Next(Holder, TRUE) \/ Stay("hashes"), UNCHANGED <<failed, indexFaults>>
      PROVE  DiscoverInv'
  <2>1. /\ PartialOn(Vector, vectors') /\ DOMAIN vectors' = DOMAIN vectors \cap (Recipe \ gone)
        /\ \A r \in DOMAIN vectors' : vectors'[r] = vectors[r]
    <3>1. PartialOn(Vector, vectors)
      BY <1>2
    <3> HIDE DEF gone
    <3>2. /\ PartialOn(Vector, Only(vectors, Recipe \ gone)) /\ DOMAIN Only(vectors, Recipe \ gone) = DOMAIN vectors \cap (Recipe \ gone)
          /\ \A r \in DOMAIN vectors \cap (Recipe \ gone) : Only(vectors, Recipe \ gone)[r] = vectors[r]
      BY <3>1, OnlyFacts
    <3> QED BY <3>2, <1>3
  <2>2. /\ PartialOn(Text, hashes') /\ DOMAIN hashes' = DOMAIN hashes \cap (Recipe \ gone)
        /\ \A r \in DOMAIN hashes' : hashes'[r] = hashes[r]
    <3>1. PartialOn(Text, hashes)
      BY <1>2
    <3> HIDE DEF gone
    <3>2. /\ PartialOn(Text, Only(hashes, Recipe \ gone)) /\ DOMAIN Only(hashes, Recipe \ gone) = DOMAIN hashes \cap (Recipe \ gone)
          /\ \A r \in DOMAIN hashes \cap (Recipe \ gone) : Only(hashes, Recipe \ gone)[r] = hashes[r]
      BY <3>1, OnlyFacts
    <3> QED BY <3>2, <1>3
  <2>3. HashAgrees'
    BY <2>1, <2>2, <1>1, <1>2 DEF HashAgrees
  <2>4. StoresWell
    BY <2>1, <2>2, <2>3, <1>1, <1>2, <1>3 DEF StoresWell
  <2>5. ASSUME NEW r \in Active PROVE Untouched(r) /\ ~Carried(r)
    <3>1. ASSUME FreshFor(r), r \notin gone PROVE FreshFor(r)'
      <4>1. r \in DOMAIN vectors' /\ vectors'[r] = vectors[r]
        BY <3>1, <2>1, <1>2 DEF FreshFor, Active
      <4> QED BY <4>1, <3>1, <1>1 DEF FreshFor, EmbeddingText
    <3> QED BY <3>1, <1>1, <1>2 DEF Untouched, Carried, Brings, About
  <2>6. CASE Next(Holder, TRUE)
    BY <2>4, <2>5, <2>6, <1>1, HolderEnds
  <2>7. CASE Stay("hashes")
    <3>1. step' \in StepRecord /\ step'.at = "hashes" /\ UNCHANGED <<jobs, pending, boot, overtaken>>
      BY <2>7, <1>2, StayFacts
    <3> QED BY <3>1, <2>4, <2>5, <1>1, <1>2, HolderStays
  <2> QED BY <2>6, <2>7, <1>3
<1>4. ASSUME Fault, failed' = TRUE, Next(Holder, FALSE), UNCHANGED <<vectors, hashes>> PROVE DiscoverInv'
  <2>1. StoresWell
    BY <1>1, <1>2, <1>4, FaultFacts, StoresKept
  <2> QED BY <2>1, <1>1, <1>4, HolderEnds
<1> QED BY <1>3, <1>4 DEF Unindex

\* The hash map on disk.
LEMMA PersistHashesKeeps ==
  ASSUME DiscoverInv, PersistHashes
  PROVE  DiscoverInv'
<1>1. /\ HolderStep /\ jobs # <<>> /\ step.at = "hashes" /\ UNCHANGED <<content, category, torn, vectors, hashes, metaFile>>
  BY DEF PersistHashes, At, HolderStep, indexRest
<1>2. /\ step \in StepRecord /\ metaFile' \in 0..MaxModel /\ indexFaults \in 0..MaxIndexFaults /\ Holder = jobs[1]
      /\ PartialOn(Vector, vectors) /\ PartialOn(Text, hashes) /\ PartialOn(Text, hashFile) /\ HashAgrees
  BY <1>1, HolderTypes
<1>3. ASSUME NEW r \in Active PROVE Untouched(r) /\ (FreshFor(r) => FreshFor(r)')
  <2>1. Same(r)
    BY <1>1 DEF Same
  <2> QED BY <2>1, <1>1, SameTexts DEF Untouched
<1>4. ASSUME hashFile' = hashes, UNCHANGED <<failed, indexFaults>> PROVE StoresWell
  BY <1>1, <1>2, <1>4 DEF StoresWell, HashAgrees
<1>5. ASSUME hashFile' = hashes, Holder.op = "index", Stay("meta"), UNCHANGED <<failed, indexFaults>> PROVE DiscoverInv'
  <2>1. step' \in StepRecord /\ step'.at = "meta" /\ step'.batch = step.batch /\ UNCHANGED <<jobs, pending, boot, overtaken>>
    BY <1>2, <1>5, StayFacts
  <2>2. ASSUME NEW r \in Active PROVE Untouched(r) /\ (Carried(r) => Carries(r)')
    BY <1>1, <1>3, <2>1 DEF Carried, Carries
  <2>3. DOMAIN step'.batch \subseteq DOMAIN jobs[1].want
    BY <2>1, <1>1, <1>2, <1>5, HolderTypes
  <2> QED BY <2>1, <2>2, <2>3, <1>1, <1>2, <1>4, <1>5, HolderStays
<1>6. ASSUME hashFile' = hashes, Holder.op # "index", Next(Holder, TRUE), UNCHANGED <<failed, indexFaults>> PROVE DiscoverInv'
  <2>1. \A r \in Active : ~Carried(r)
    BY <1>2, <1>6 DEF Carried, Brings
  <2> QED BY <2>1, <1>1, <1>3, <1>4, <1>6, HolderEnds
<1>7. ASSUME Fault, failed' = TRUE, Next(Holder, FALSE), UNCHANGED hashFile PROVE DiscoverInv'
  <2>1. StoresWell
    BY <1>1, <1>2, <1>7, FaultFacts, StoresKept
  <2> QED BY <2>1, <1>1, <1>7, HolderEnds
<1> QED BY <1>5, <1>6, <1>7 DEF PersistHashes

\* The model on disk.
LEMMA PersistMetaKeeps ==
  ASSUME DiscoverInv, PersistMeta
  PROVE  DiscoverInv'
<1>1. /\ HolderStep /\ jobs # <<>> /\ step.at = "meta" /\ UNCHANGED <<content, category, torn, vectors, hashes, hashFile>>
  BY DEF PersistMeta, At, HolderStep, indexRest
<1>2. metaFile \in 0..MaxModel /\ model \in 0..MaxModel /\ indexFaults \in 0..MaxIndexFaults
  BY <1>1, HolderTypes
<1>3. ASSUME metaFile' = model, Next(Holder, TRUE), UNCHANGED <<failed, indexFaults>> PROVE DiscoverInv'
  <2>1. StoresWell
    BY <1>1, <1>2, <1>3, StoresKept
  <2>2. ASSUME NEW r \in Active PROVE Untouched(r) /\ (Carried(r) => FreshFor(r)')
    <3>1. Same(r)
      BY <1>1 DEF Same
    <3> QED BY <3>1, <1>1, SameTexts DEF Untouched, Carried, Carries
  <2> QED BY <2>1, <2>2, <1>1, <1>3, HolderEnds
<1>4. ASSUME Fault, failed' = TRUE, Next(Holder, FALSE), UNCHANGED metaFile PROVE DiscoverInv'
  <2>1. StoresWell
    BY <1>1, <1>2, <1>4, FaultFacts, StoresKept
  <2> QED BY <2>1, <1>1, <1>4, HolderEnds
<1> QED BY <1>3, <1>4 DEF PersistMeta


----------------------------------------------------------------------------
\* Boot.

\* A step of the boot keeps the invariant, if what it leaves in memory agrees with the index.
LEMMA BootKeeps ==
  ASSUME DiscoverInv, jobs = <<>>, UNCHANGED <<indexRest, metaFile, jobs, step, pending, overtaken, failed>>,
         boot' \in {"reset", "reconcile"}, indexFaults' \in 0..MaxIndexFaults,
         PartialOn(Vector, vectors'), PartialOn(Text, hashes'), PartialOn(Text, hashFile'),
         HashAgrees', OneModel', boot' = "reset" => DOMAIN vectors' = {} /\ DOMAIN hashes' = {}
  PROVE  DiscoverInv'
<1>1. StoreTypes /\ jobs \in Seq(JobRecord) /\ step \in StepRecord /\ MutexInv /\ BootInv
  BY DEF DiscoverInv, TypeInv
<1>2. TypeInv'
  BY <1>1 DEF TypeInv, StoreTypes, indexRest
<1>3. MutexInv'
  BY <1>1 DEF MutexInv, Place
<1>4. BootInv'
  BY <1>1 DEF BootInv, Place
<1>5. WordInv'
  BY DEF WordInv, Running
<1> QED BY <1>2, <1>3, <1>4, <1>5 DEF DiscoverInv

\* The files are read: what disagrees is torn, what is of another model is forgotten.
LEMMA VectorInitKeeps ==
  ASSUME DiscoverInv, VectorInit
  PROVE  DiscoverInv'
<1>1. /\ StoreTypes /\ MutexInv /\ BootInv /\ boot = "init" /\ jobs = <<>> /\ Disagree \subseteq torn /\ DOMAIN hashes = {}
      /\ UNCHANGED <<indexRest, metaFile, jobs, step, pending, overtaken, failed>> /\ UNCHANGED <<torn, model>>
  BY DEF VectorInit, DiscoverInv, TypeInv, MutexInv, BootInv, indexRest
<1>2. /\ PartialOn(Vector, vectors) /\ PartialOn(Text, hashes) /\ PartialOn(Text, hashFile)
      /\ indexFaults \in 0..MaxIndexFaults /\ model \in Models
  BY <1>1 DEF StoreTypes
<1>3. DOMAIN None = {} /\ PartialOn(Vector, None) /\ PartialOn(Text, None)
  BY NoneFacts
<1>4. ASSUME Fault, vectors' = None, boot' = "reset", UNCHANGED <<hashes, hashFile>> PROVE DiscoverInv'
  <2>1. HashAgrees' /\ OneModel'
    BY <1>1, <1>3, <1>4 DEF HashAgrees, OneModel
  <2>2. indexFaults' \in 0..MaxIndexFaults
    BY <1>2, <1>4, FaultFacts
  <2>3. PartialOn(Vector, vectors') /\ PartialOn(Text, hashes') /\ PartialOn(Text, hashFile')
    BY <1>2, <1>3, <1>4
  <2>4. boot' \in {"reset", "reconcile"} /\ DOMAIN vectors' = {} /\ DOMAIN hashes' = {}
    BY <1>1, <1>3, <1>4
  <2> QED BY <1>1, <2>1, <2>2, <2>3, <2>4, BootKeeps
<1>5. ASSUME NEW empty \in BOOLEAN, boot' = "reconcile",
             IF empty THEN Fault ELSE UNCHANGED indexFaults,
             hashFile' = IF empty THEN None ELSE hashFile,
             hashes' = IF Invalidated \/ empty THEN None ELSE hashFile,
             vectors' = IF Invalidated THEN None ELSE vectors
      PROVE  DiscoverInv'
  <2>1. indexFaults' \in 0..MaxIndexFaults
    BY <1>2, <1>5, FaultFacts
  <2>2. PartialOn(Vector, vectors') /\ PartialOn(Text, hashes') /\ PartialOn(Text, hashFile')
    BY <1>2, <1>3, <1>5
  <2>3. HashAgrees'
    <3>1. SUFFICES ASSUME NEW r \in DOMAIN hashes', r \notin torn'
                   PROVE  r \in DOMAIN vectors' /\ vectors'[r].text = hashes'[r]
      BY DEF HashAgrees
    <3>2. hashes' = hashFile /\ ~Invalidated /\ vectors' = vectors /\ r \in DOMAIN hashFile
      BY <3>1, <1>3, <1>5
    <3>3. r \in Recipe /\ r \notin Disagree
      BY <3>1, <3>2, <1>1, <1>2 DEF PartialOn
    <3>4. r \in DOMAIN vectors /\ vectors[r].text = hashFile[r]
      BY <3>2, <3>3 DEF Disagree
    <3> QED BY <3>2, <3>4
  <2>4. OneModel'
    <3>1. SUFFICES ASSUME torn' = {}, NEW r \in DOMAIN vectors'
                   PROVE  vectors'[r].by = model'
      BY DEF OneModel
    <3>2. ~Invalidated /\ vectors' = vectors /\ r \in DOMAIN vectors
      BY <3>1, <1>3, <1>5
    <3>3. r \notin Disagree
      BY <3>1, <1>1
    <3>4. vectors[r].by = metaFile
      BY <3>2, <3>3 DEF Disagree
    <3>5. vectors[r].by \in Models
      BY <3>2, <1>2 DEF PartialOn, Vector
    <3>6. metaFile # 0
      BY <3>4, <3>5, DiscoverAssumption DEF Models
    <3> QED BY <3>2, <3>4, <3>6, <1>1 DEF Invalidated
  <2> QED BY <1>1, <1>5, <2>1, <2>2, <2>3, <2>4, BootKeeps
<1> QED BY <1>4, <1>5 DEF VectorInit

\* After the index, its hash map.
LEMMA ResetHashesKeeps ==
  ASSUME DiscoverInv, ResetHashes
  PROVE  DiscoverInv'
<1>1. /\ StoreTypes /\ MutexInv /\ BootInv /\ boot = "reset" /\ jobs = <<>> /\ DOMAIN vectors = {}
      /\ hashes' = None /\ hashFile' = None /\ boot' = "reconcile" /\ UNCHANGED <<vectors, indexFaults>>
      /\ UNCHANGED <<indexRest, metaFile, jobs, step, pending, overtaken, failed>>
  BY DEF ResetHashes, DiscoverInv, TypeInv, MutexInv, BootInv
<1>2. DOMAIN None = {} /\ PartialOn(Text, None)
  BY NoneFacts
<1>3. HashAgrees' /\ OneModel'
  BY <1>1, <1>2 DEF HashAgrees, OneModel
<1>4. PartialOn(Vector, vectors') /\ PartialOn(Text, hashes') /\ PartialOn(Text, hashFile') /\ indexFaults' \in 0..MaxIndexFaults
  BY <1>1, <1>2 DEF StoreTypes
<1> QED BY <1>1, <1>3, <1>4, BootKeeps

\* The startup reconcile concerns every live recipe, as it is.
LEMMA StartReconcileKeeps ==
  ASSUME DiscoverInv, StartReconcile
  PROVE  DiscoverInv'
<1>1. /\ StoreTypes /\ jobs \in Seq(JobRecord) /\ step \in StepRecord /\ MutexInv /\ BootInv /\ HashAgrees /\ OneModel
      /\ boot = "reconcile" /\ jobs = <<>> /\ step.at = "free"
      /\ UNCHANGED <<content, category, model, torn, edits, boots, vectors, hashFile, metaFile, step, pending, overtaken, failed, indexFaults>>
  BY DEF StartReconcile, indexRest, DiscoverInv, TypeInv, MutexInv
<1>2. boot' \in {"reconcile", "up"} /\ OneModel'
  BY <1>1 DEF StartReconcile, OneModel
<1>3. PartialOn(Text, hashes') /\ HashAgrees'
  <2>1. DOMAIN None = {} /\ PartialOn(Text, None)
    BY NoneFacts
  <2>2. hashes' = hashes \/ hashes' = None
    BY DEF StartReconcile
  <2> QED BY <1>1, <2>1, <2>2 DEF HashAgrees, StoreTypes
<1>4. ASSUME jobs' \in Seq(JobRecord) PROVE TypeInv'
  <2>1. /\ content' \in [Recipe -> 0..MaxVersion \cup {Trashed}] /\ category' \in 0..Gone
        /\ PartialOn(Vector, vectors') /\ PartialOn(Text, hashFile')
        /\ metaFile' \in 0..MaxModel /\ model' \in Models /\ pending' \in BOOLEAN
        /\ torn' \cup overtaken' \subseteq Recipe
        /\ edits' \in 0..MaxEdits /\ indexFaults' \in 0..MaxIndexFaults /\ boots' \in 0..MaxBoots /\ step' \in StepRecord
    BY <1>1 DEF StoreTypes
  <2> QED BY <1>2, <1>3, <1>4, <2>1 DEF TypeInv, StoreTypes
<1>5. CASE Active = {}
  <2>1. UNCHANGED jobs
    BY <1>5 DEF StartReconcile
  <2>2. TypeInv'
    BY <2>1, <1>1, <1>4
  <2>3. MutexInv' /\ BootInv'
    BY <2>1, <1>1, <1>2 DEF MutexInv, BootInv, Place
  <2>4. WordInv'
    BY <1>1, <1>5 DEF WordInv, Active
  <2> QED BY <2>2, <2>3, <2>4, <1>2, <1>3 DEF DiscoverInv
<1>6. CASE Active # {}
  <2> DEFINE E == Everything(content)
             j == IndexJob(E, TRUE, None)
  <2>1. jobs' = <<j>> /\ boot' = "reconcile"
    BY <1>1, <1>6 DEF StartReconcile
  <2>2. E \in Versions /\ DOMAIN E = {r \in Recipe : content[r] # Trashed} /\ \A r \in DOMAIN E : E[r] = content[r]
    BY <1>1, EverythingFacts DEF StoreTypes
  <2>3. None \in Versions /\ DOMAIN None = {}
    BY NoneFacts DEF Versions
  <2>4. j \in JobRecord /\ JobInv(j) /\ j.op = "index" /\ j.want = E /\ j.after = None /\ j.rest = <<>>
    <3>1. <<>> \in Seq(Recipe)
      BY EmptySeq
    <3>2. j = [op |-> "index", want |-> E, reconcile |-> TRUE, after |-> None, rest |-> <<>>]
      BY DEF IndexJob
    <3> HIDE DEF E, j
    <3> QED BY <2>2, <2>3, <3>1, <3>2 DEF JobRecord, JobInv
  <2> HIDE DEF E, j
  <2>5. jobs' \in Seq(JobRecord) /\ Len(jobs') = 1 /\ jobs'[1] = j /\ Place' = {1}
    <3>1. <<j>> \in Seq(JobRecord) /\ Len(<<j>>) = 1 /\ <<j>>[1] = j
      BY <2>4, OneJob
    <3>2. Place' = 1..1
      BY <2>1, <3>1 DEF Place
    <3> QED BY <2>1, <3>1, <3>2
  <2>6. MutexInv'
    BY <2>1, <2>4, <2>5, <1>1 DEF MutexInv
  <2>7. BootInv'
    BY <2>1, <2>3, <2>4, <2>5, <1>1 DEF BootInv
  <2>8. WordInv'
    <3>1. SUFFICES ASSUME NEW r \in Recipe, content[r] # Trashed
                   PROVE  LastWord(r)'
      BY <1>1 DEF WordInv, Active
    <3>2. r \in DOMAIN E /\ E[r] = content'[r]
      BY <3>1, <2>2, <1>1
    <3>3. Final(1, r)' /\ Brings(jobs'[1], r, content'[r])
      BY <3>2, <2>4, <2>5 DEF Final, Brings, About
    <3>4. Carries(r)'
      BY <1>1 DEF Carries
    <3> QED BY <3>3, <3>4, <2>5 DEF LastWord
  <2> QED BY <2>5, <2>6, <2>7, <2>8, <1>2, <1>3, <1>4 DEF DiscoverInv
<1> QED BY <1>5, <1>6

\* A restart finds on disk what there is, and records where the files disagree.
LEMMA RestartKeeps ==
  ASSUME DiscoverInv, Restart
  PROVE  DiscoverInv'
<1>1. StoreTypes
  BY DEF DiscoverInv, TypeInv
<1>2. /\ boot' = "init" /\ torn' = torn \cup Disagree /\ overtaken' = {} /\ jobs' = <<>> /\ step' = NoStep /\ pending' = FALSE
      /\ hashes' = None /\ model' \in Models /\ failed' = FALSE /\ UNCHANGED <<vectors, hashFile, metaFile, edits, indexFaults>>
  BY DEF Restart
<1>3. DOMAIN None = {} /\ PartialOn(Text, None) /\ None \in Partial(Text)
  BY NoneFacts
<1>4. NoStep \in StepRecord /\ NoStep.at = "free"
  <2>1. NoStep = [at |-> "free", batch |-> None]
    BY DEF NoStep, None
  <2> QED BY <2>1, <1>3 DEF StepRecord
<1>5. content' \in [Recipe -> 0..MaxVersion \cup {Trashed}]
  <2>1. PICK r \in Recipe, v \in 0..MaxVersion \cup {Trashed} : content' = [content EXCEPT ![r] = v]
    BY DEF Restart
  <2> QED BY <2>1, <1>1 DEF StoreTypes
<1>6. category' \in 0..Gone
  <2>1. MaxEdits \in Nat /\ category \in 0..Gone
    BY <1>1, DiscoverAssumption DEF StoreTypes
  <2>2. category' = category \/ (category' = category + 1 /\ category + 1 < Deleted)
    BY DEF Restart
  <2> QED BY <2>1, <2>2 DEF Deleted, Gone
<1>7. boots' \in 0..MaxBoots
  BY <1>1, DiscoverAssumption DEF Restart, StoreTypes
<1>8. torn' \cup overtaken' \subseteq Recipe
  <2>1. Disagree \subseteq Recipe
    BY <1>1 DEF Disagree, StoreTypes, PartialOn
  <2> QED BY <2>1, <1>1, <1>2 DEF StoreTypes
<1>9. <<>> \in Seq(JobRecord)
  BY EmptySeq
<1>10. TypeInv'
  BY <1>1, <1>2, <1>3, <1>4, <1>5, <1>6, <1>7, <1>8, <1>9 DEF TypeInv, StoreTypes
<1>11. MutexInv'
  <2>1. \A k \in Place' : FALSE
    BY <1>2, EmptySeq DEF Place
  <2> QED BY <2>1, <1>2, <1>4 DEF MutexInv
<1>12. BootInv'
  <2>1. Disagree' = Disagree
    BY <1>2 DEF Disagree
  <2>2. \A k \in Place' : FALSE
    BY <1>2, EmptySeq DEF Place
  <2>3. ~pending'
    BY <1>2
  <2> QED BY <2>1, <2>2, <2>3, <1>2, <1>3 DEF BootInv
<1>13. HashAgrees' /\ OneModel' /\ WordInv'
  BY <1>2, <1>3 DEF HashAgrees, OneModel, WordInv, Running
<1> QED BY <1>10, <1>11, <1>12, <1>13 DEF DiscoverInv

----------------------------------------------------------------------------
\* The theorems.

\* The first boot.
LEMMA InitHolds ==
  ASSUME DiscoverInit
  PROVE  DiscoverInv
<1>1. DOMAIN None = {} /\ PartialOn(Text, None) /\ PartialOn(Vector, None) /\ None \in Partial(Text)
  BY NoneFacts
<1>2. NoStep \in StepRecord /\ NoStep.at = "free"
  <2>1. NoStep = [at |-> "free", batch |-> None]
    BY DEF NoStep, None
  <2> QED BY <2>1, <1>1 DEF StepRecord
<1>3. /\ content = [r \in Recipe |-> 0] /\ category = 0 /\ vectors = None /\ hashes = None /\ hashFile = None
      /\ metaFile = 0 /\ model = 1 /\ jobs = <<>> /\ step = NoStep /\ pending = FALSE /\ boot = "init"
      /\ torn = {} /\ overtaken = {} /\ failed = FALSE /\ edits = 0 /\ indexFaults = 0 /\ boots = 0
  BY DEF DiscoverInit, None
<1>4. 0 \in 0..MaxVersion /\ 0 \in 0..Gone /\ 0 \in 0..MaxModel /\ 1 \in Models
      /\ 0 \in 0..MaxEdits /\ 0 \in 0..MaxIndexFaults /\ 0 \in 0..MaxBoots
  BY DiscoverAssumption DEF Models, Gone
<1>5. <<>> \in Seq(JobRecord)
  BY EmptySeq
<1>6. TypeInv
  BY <1>1, <1>2, <1>3, <1>4, <1>5 DEF TypeInv, StoreTypes
<1>7. \A k \in Place : FALSE
  BY <1>3, EmptySeq DEF Place
<1>8. MutexInv
  BY <1>2, <1>3, <1>7 DEF MutexInv
<1>9. BootInv
  <2>1. Disagree = {}
    BY <1>1, <1>3 DEF Disagree
  <2>2. ~pending
    BY <1>3
  <2> QED BY <2>1, <2>2, <1>1, <1>3, <1>7 DEF BootInv
<1>10. HashAgrees /\ OneModel /\ WordInv
  BY <1>1, <1>3 DEF HashAgrees, OneModel, WordInv, Running
<1> QED BY <1>6, <1>8, <1>9, <1>10 DEF DiscoverInv

\* Every action keeps the invariant.
LEMMA NextKeeps ==
  ASSUME DiscoverInv, [DiscoverNext]_discoverVars
  PROVE  DiscoverInv'
<1>0. TypeInv
  BY DEF DiscoverInv
<1>1. ASSUME \E news \in Seq(JobRecord) : Announces(news) PROVE DiscoverInv'
  <2>1. PICK news \in Seq(JobRecord) : Announces(news)
    BY <1>1
  <2> QED BY <2>1, AnnounceKeeps
<1>2. ASSUME NEW r \in Recipe, Commit(r) PROVE DiscoverInv'
  <2>1. \E news \in Seq(JobRecord) : Announces(news)
    BY <1>0, <1>2, CommitTold
  <2> QED BY <2>1, <1>1
<1>3. ASSUME NEW r \in Recipe, NEW v \in 0..MaxVersion, NEW trashed \in SUBSET Recipe, trashed \subseteq {r}, Cycle([q \in {r} |-> v], trashed, {})
      PROVE  DiscoverInv'
  <2>1. \E news \in Seq(JobRecord) : Announces(news)
    BY <1>0, <1>3, FetchedTold
  <2> QED BY <2>1, <1>1
<1>4. ASSUME NEW removed \in SUBSET Recipe, Cycle(None, {}, removed) PROVE DiscoverInv'
  <2>1. \E news \in Seq(JobRecord) : Announces(news)
    BY <1>0, <1>4, RemovedTold
  <2> QED BY <2>1, <1>1
<1>5. CASE Rename
  <2>1. \E news \in Seq(JobRecord) : Announces(news)
    BY <1>0, <1>5, RenameTold
  <2> QED BY <2>1, <1>1
<1>6. CASE DeleteCategory
  <2>1. \E news \in Seq(JobRecord) : Announces(news)
    BY <1>0, <1>6, DeleteTold
  <2> QED BY <2>1, <1>1
<1>7. CASE IndexStep
  BY <1>7, StartIndexKeeps, EmbedKeeps, PutKeeps, UnindexKeeps, PersistHashesKeeps, PersistMetaKeeps,
     VectorInitKeeps, ResetHashesKeeps, StartReconcileKeeps DEF IndexStep
<1>8. CASE Restart
  BY <1>8, RestartKeeps
<1>9. CASE UNCHANGED discoverVars
  <2>1. UNCHANGED <<content, category, vectors, hashes, hashFile, metaFile, model, jobs, step, pending, boot, torn, overtaken, failed, edits, indexFaults, boots>>
    BY <1>9 DEF discoverVars, indexState
  <2>2. TypeInv' /\ MutexInv' /\ BootInv' /\ HashAgrees' /\ OneModel'
    BY <2>1 DEF DiscoverInv, TypeInv, StoreTypes, PartialOn, MutexInv, Place, BootInv, Disagree, HashAgrees, OneModel
  <2>3. WordInv'
    BY <2>1 DEF DiscoverInv, WordInv, Running, Active, LastWord, Final, Place, Carries, FreshFor, RightText, EmbeddingText
  <2> QED BY <2>2, <2>3 DEF DiscoverInv
<1> QED BY <1>2, <1>3, <1>4, <1>5, <1>6, <1>7, <1>8, <1>9 DEF DiscoverNext

\* The invariant holds throughout.
LEMMA DiscoverInvariant == DiscoverSpec => []DiscoverInv
<1>1. DiscoverInit => DiscoverInv
  BY InitHolds
<1>2. DiscoverInv /\ [DiscoverNext]_discoverVars => DiscoverInv'
  BY NextKeeps
<1> QED BY <1>1, <1>2, PTL DEF DiscoverSpec

\* The model's types: every index, hash map and batch is of this process's recipes, texts and models,
\* on disk and in memory, and what waits for the mutex is one of the two calls of vector-store.ts.
THEOREM DiscoverTypeCorrect == DiscoverSpec => []DiscoverTypeOK
<1>1. ASSUME DiscoverInv PROVE DiscoverTypeOK
  <2>1. StoreTypes /\ jobs \in Seq(JobRecord) /\ step \in StepRecord
    BY <1>1 DEF DiscoverInv, TypeInv
  <2>2. ASSUME NEW k \in 1..Len(jobs)
        PROVE  jobs[k].op \in {"index", "remove"} /\ PartialOn(0..MaxVersion, jobs[k].want) /\ PartialOn(0..MaxVersion, jobs[k].after)
    <3>1. jobs[k] \in JobRecord
      BY <2>1, ElementOfSeq
    <3> QED BY <3>1, PartialFacts DEF JobRecord, Versions
  <2>3. step.at \in {"free", "embed", "put", "hashes", "meta"} /\ PartialOn(Text, step.batch)
    BY <2>1, PartialFacts DEF StepRecord
  <2> QED BY <2>1, <2>2, <2>3 DEF DiscoverTypeOK, StoreTypes, Vector
<1> QED BY <1>1, DiscoverInvariant, PTL

\* The index is right: a recipe is taken for unchanged only if its vector is of the very text that the
\* hash map names; the vectors are of one model; and when the handlers have all ended, every live
\* recipe is indexed as it is, however writes, cycles, renames, failures and restarts overlapped
\* (vector-store.ts and discover/module.ts; the exceptions are those that the property names).
THEOREM IndexRightHolds == DiscoverSpec => []IndexRight
<1>1. ASSUME DiscoverInv PROVE IndexRight
  <2>1. HashAgrees /\ OneModel /\ WordInv /\ jobs \in Seq(JobRecord)
    BY <1>1 DEF DiscoverInv, TypeInv
  <2>2. ASSUME Idle, ~failed, torn = {}, NEW r \in Active \ overtaken PROVE FreshFor(r)
    <3>1. LastWord(r)
      BY <2>1, <2>2 DEF WordInv, Running, Idle
    <3>2. Place = {}
      BY <2>2, EmptySeq DEF Place, Idle
    <3> QED BY <3>1, <3>2 DEF LastWord
  <2> QED BY <2>1, <2>2 DEF IndexRight, Fresh
<1> QED BY <1>1, DiscoverInvariant, PTL
====
