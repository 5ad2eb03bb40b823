---- MODULE Catalogs ----
(***************************************************************************)
(* The aisle and meal-type catalogs: ordered lists of names, created on    *)
(* demand by other tools, renamed, moved and deleted, all under one lock.  *)
(***************************************************************************)
EXTENDS ToolCalls

CONSTANTS CatalogName, NotFetched

\* An account has finitely many rows, which are numbered, and names, at least one, apart from the other calls.
ASSUME CatalogsAssumption == /\ \A k \in {"aisle", "type"} : IsFiniteSet(Slot[k]) /\ 1 \in Slot[k] /\ Slot[k] \subseteq Nat
                             /\ CatalogName # {} /\ CatalogName \cap {"none", "update", "delete"} = {}

VARIABLES
  shielded,   \* rows with a pending upsert
  disk,       \* rows the cache has on disk
  buffer,     \* rows put into the cache and not flushed yet, unless they are on disk as they are
  fetched,    \* the list the sync cycle has fetched and not yet reconciled
  planned,    \* what it has made of it and the cache, and not yet loaded
  undone      \* history only: a load has taken back what a call committed since

catalogVars == <<shielded, disk, buffer, fetched, planned, undone>>

Named(k, n) == {u \in Known(k) : store[k][u].name = n}

\* A call that is past its questions holds the lock to its end.
MutLocked == FALSE
Locked == \E c \in Caller : call[c].at \in {"saves", "commits"}

----------------------------------------------------------------------------
\* The order of a catalog.

\* In a tie, which only a row that was brought back can make, the code goes by name.
Before(rows, u, v) == rows[u].pos < rows[v].pos \/ (rows[u].pos = rows[v].pos /\ u < v)
RankIn(rows, u) == Cardinality({v \in DOMAIN rows : Before(rows, v, u)})

\* target goes to the place, the others keep their order, and the positions become contiguous.
Repositioned(rows, u, row, place) ==
  LET others == [v \in DOMAIN rows \ {u} |-> rows[v]]
      index == IF place < Cardinality(DOMAIN others) THEN place ELSE Cardinality(DOMAIN others)
  IN [v \in DOMAIN rows |->
        IF v = u THEN [row EXCEPT !.pos = index]
        ELSE [rows[v] EXCEPT !.pos = RankIn(others, v) + IF RankIn(others, v) < index THEN 0 ELSE 1]]
OnlyChanged(k, rows) == [u \in {v \in DOMAIN rows : rows[v] # store[k][v]} |-> rows[u]]

NextPos(k) == IF Known(k) = {} THEN 0
              ELSE 1 + CHOOSE p \in {store[k][u].pos : u \in Known(k)} : \A u \in Known(k) : store[k][u].pos <= p

----------------------------------------------------------------------------
\* Calls.

\* The name is not there: the call waits for the lock.
Ensure(c, k) == \E n \in CatalogName :
  /\ Named(k, n) = {}
  /\ Asks(c, n, <<>>)
EnsureAisle(c) == Ensure(c, "aisle")
EnsureMealType(c) == Ensure(c, "type")

StillMissing(k, n) == Named(k, n) = {}
\* Under the lock: the name has appeared, or it is created at the end.
EnsureLocked(c, k) == \E n \in CatalogName :
  /\ call[c].at = "asks" /\ call[c].op = n
  /\ ~Locked
  /\ Enough(k, {n})
  /\ call' = [call EXCEPT ![c] =
                 IF StillMissing(k, n)
                 THEN [op |-> n, at |-> "saves",
                       batches |-> <<Put(k, NewRows(k, {n}, LAMBDA m : [name |-> m, pos |-> NextPos(k), builtin |-> FALSE]))>>]
                 ELSE Idle]
  /\ UNCHANGED <<cloud, store, budget>>

\* Look up, check for a clash, save what changed, commit: all under the lock.
Update(c, k) == \E u \in Known(k), n \in CatalogName :
  LET row == [store[k][u] EXCEPT !.name = n]
  IN /\ ~Locked
     /\ n # store[k][u].name => Named(k, n) = {}
     /\ \E rows \in {[store[k] EXCEPT ![u] = row]} \cup {Repositioned(store[k], u, row, place) : place \in 0..1} :
          /\ DOMAIN OnlyChanged(k, rows) # {}
          /\ Does(c, "update", <<Put(k, OnlyChanged(k, rows))>>)
UpdateAisle(c) == Update(c, "aisle")
UpdateMealType(c) == Update(c, "type")

\* An aisle that items still refer to and a built-in meal type are not deleted; the rest after a confirmation.
DeleteAisle(c) == \E u \in Known("aisle") : Asks(c, "delete", <<Drop("aisle", {u})>>)
DeleteMealType(c) == \E u \in Known("type") : ~store.type[u].builtin /\ Asks(c, "delete", <<Drop("type", {u})>>)
DeleteLocked(c, k) ==
  /\ call[c].at = "asks" /\ call[c].op = "delete"
  /\ ~Locked
  /\ call' = [call EXCEPT ![c] = IF Head(call[c].batches).drop \subseteq Known(k) THEN [call[c] EXCEPT !.at = "saves"] ELSE Idle]
  /\ UNCHANGED <<cloud, store, budget>>

Topped(rows, new) == [u \in DOMAIN rows \cup DOMAIN new |-> IF u \in DOMAIN new THEN new[u] ELSE rows[u]]
Leaving(rows, S) == [u \in DOMAIN rows \ S |-> rows[u]]
Cached == Topped(disk, buffer)
Unlike(rows, new) == [u \in {v \in DOMAIN new : v \in DOMAIN rows => rows[v] # new[v]} |-> new[u]]

Stored(b) ==
  /\ store' = Applied(store, b)
  /\ shielded' = (shielded \cup DOMAIN b.put) \ b.drop
\* A row is dropped from disk at once, and put there by the flush.
Buffered(b) ==
  /\ disk' = Leaving(disk, b.drop)
  /\ buffer' = Unlike(disk', Topped(Leaving(buffer, b.drop), b.put))
Written(b) ==
  /\ disk' = Topped(Leaving(Cached, b.drop), b.put)
  /\ buffer' = NoRows

\* A commit that fails, in the flush or before, leaves the store alone and unmarks its rows; but an
\* ensured row is kept and shielded all the same.
CatalogCommits(c) ==
  LET b == Head(call[c].batches) IN
  /\ call[c].at = "commits"
  /\ GivesUp(c)
  /\ \/ Stored(b) /\ Written(b) /\ UNCHANGED budget
     \/ call[c].op \in CatalogName /\ Spends("faults") /\ Stored(b) /\ Buffered(b)
     \/ /\ call[c].op \notin CatalogName /\ Spends("losses") /\ UNCHANGED store
        /\ shielded' = shielded \ (DOMAIN b.put \cup b.drop)
        /\ Buffered(b) \/ UNCHANGED <<disk, buffer>>
  /\ UNCHANGED <<cloud, fetched, planned, undone>>

----------------------------------------------------------------------------
\* The sync cycle: the list is fetched, put together with what the cache has and loaded, in steps.

CatalogFetches(k) ==
  /\ fetched = NotFetched /\ planned = NotFetched
  /\ fetched' = cloud[k]
  /\ UNCHANGED <<cloud, store, call, budget, shielded, disk, buffer, planned, undone>>

\* Marked rows are the cache's, all others the list's; what is neither leaves the cache.
Effective == LET own == DOMAIN Cached \cap shielded
           IN [u \in own \cup (DOMAIN fetched \ shielded) |-> IF u \in own THEN Cached[u] ELSE fetched[u]]
CatalogReads ==
  /\ fetched # NotFetched /\ planned = NotFetched
  /\ planned' = Effective
  /\ LET orphans == DOMAIN Cached \ DOMAIN planned'
     IN disk' = Leaving(disk, orphans) /\ buffer' = Leaving(buffer, orphans)
  /\ UNCHANGED <<cloud, store, call, budget, shielded, fetched, undone>>

\* What is about to be loaded lacks or is older than a row committed since the cache was read, or has one
\* deleted since the list was fetched (unless the commit of its deletion is still to come).
Undoes(k) ==
  \/ \E u \in shielded \cap Known(k) : u \in DOMAIN planned => planned[u] # store[k][u]
  \/ \E u \in DOMAIN planned \ DOMAIN cloud[k] :
       ~\E c \in Caller : call[c].at = "commits" /\ u \in Head(call[c].batches).drop
CatalogLoads(k) ==
  /\ planned # NotFetched
  /\ store' = [store EXCEPT ![k] = planned]
  /\ buffer' = Unlike(disk, Topped(buffer, planned))
  /\ undone' = (undone \/ Undoes(k))
  /\ shielded' = shielded \ DOMAIN fetched
  /\ fetched' = NotFetched /\ planned' = NotFetched
  /\ UNCHANGED <<cloud, call, budget, disk>>

\* The flush at the end of the cycle.
CatalogFlushes ==
  /\ fetched = NotFetched /\ buffer # NoRows
  /\ disk' = Cached
  /\ buffer' = NoRows
  /\ UNCHANGED <<toolVars, shielded, fetched, planned, undone>>

\* The marks are gone, and what was never written to disk.
CatalogRestarts(k) ==
  /\ call' = [c \in Caller |-> Idle]
  /\ store' = [store EXCEPT ![k] = disk]
  /\ IF disk # store[k] \/ \E c \in Caller : call[c].at = "commits" THEN Spends("losses") ELSE UNCHANGED budget
  /\ shielded' = {}
  /\ buffer' = NoRows
  /\ fetched' = NotFetched /\ planned' = NotFetched
  /\ UNCHANGED <<cloud, disk, undone>>

CatalogRemote(k) == \E u \in DOMAIN cloud[k] : Remote(Drop(k, {u})) /\ UNCHANGED catalogVars

CatalogsInit(k) ==
  /\ cloud = [Empty EXCEPT ![k] = [u \in {1} |-> [name |-> CHOOSE n \in CatalogName : TRUE, pos |-> 0, builtin |-> (k = "type")]]]
  /\ disk = cloud[k] /\ buffer = NoRows
  /\ shielded = {}
  /\ fetched = NotFetched /\ planned = NotFetched
  /\ undone = FALSE

CatalogsNext(k) ==
  \/ \E c \in Caller :
       \/ /\ \/ k = "aisle" /\ (EnsureAisle(c) \/ UpdateAisle(c) \/ DeleteAisle(c))
             \/ k = "type" /\ (EnsureMealType(c) \/ UpdateMealType(c) \/ DeleteMealType(c))
             \/ EnsureLocked(c, k) \/ DeleteLocked(c, k) \/ (call[c].op = "delete" /\ Stops(c)) \/ Saves(c)
          /\ UNCHANGED catalogVars
       \/ CatalogCommits(c)
  \/ CatalogFetches(k) \/ CatalogReads \/ CatalogLoads(k) \/ CatalogFlushes
  \/ CatalogRestarts(k)
  \/ CatalogRemote(k)

CatalogsTypeOK == /\ shielded \subseteq Nat
                  /\ \A rows \in {disk, buffer} : DOMAIN rows \subseteq Nat
                  /\ \A rows \in {fetched, planned} : rows = NotFetched \/ DOMAIN rows \subseteq Nat
                  /\ fetched = NotFetched => planned = NotFetched

CatalogsSpec(k) == CatalogsInit(k) /\ ToolCallsInit(MaxCalls) /\ [][CatalogsNext(k)]_<<toolVars, catalogVars>>

\* While the store has missed nothing and no load has taken a commit back, no two entries at Paprika share
\* a name or a position, whatever creates, renames, moves and deletes run at once, whichever commits of a
\* created entry fail, and however old the list and the view of the cache are that a cycle loads
\* (aisle/module.ts, meal-type/module.ts, their sync.ts, catalog.ts).
CatalogWhole == Undisturbed /\ ~undone =>
  \A k \in {"aisle", "type"} : \A u, v \in DOMAIN cloud[k] :
    u # v => cloud[k][u].name # cloud[k][v].name /\ cloud[k][u].pos # cloud[k][v].pos
====
