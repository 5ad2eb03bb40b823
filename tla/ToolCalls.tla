---- MODULE ToolCalls ----
(***************************************************************************)
(* A tool call that writes: it reads the local stores, possibly waits for  *)
(* the user (a confirmation, a pick) or for an aisle or meal type to be    *)
(* ensured, then saves batch after batch to Paprika and commits each one   *)
(* locally, giving up at the first that fails.  What each tool reads,      *)
(* refuses and saves is in the modules that extend this one.               *)
(***************************************************************************)
EXTENDS Naturals, Sequences, FiniteSets, TLC

CONSTANTS
  Caller,       \* tool calls that may be under way at a time
  Slot,         \* per kind of row, its uids
  MaxCalls,     \* how many calls are made
  MaxFaults,    \* how many saves fail
  MaxLosses,    \* how often Paprika has a batch and the store does not
  MaxRemote     \* how many edits another device makes

Kind == {"list", "item", "memory", "pantry", "menu", "menuItem", "meal", "type", "aisle", "recipe", "category", "photo"}

ASSUME ToolCallsAssumption == /\ DOMAIN Slot = Kind
                              /\ MaxCalls \in Nat
                              /\ MaxFaults \in Nat
                              /\ MaxLosses \in Nat
                              /\ MaxRemote \in Nat

VARIABLES
  cloud,    \* the rows Paprika holds, by kind and uid
  store,    \* the rows the local stores hold
  call,     \* what each caller's tool call still has to do
  budget    \* how many calls, faults, losses and remote edits are left

toolVars == <<cloud, store, call, budget>>

NoRows == [u \in {} |-> 0]
Empty == [k \in Kind |-> NoRows]
Idle == [op |-> "none", at |-> "idle", batches |-> <<>>]

\* A batch is one POST: the rows it stores and the uids it marks deleted.
Batch(k, put, drop) == [kind |-> k, put |-> put, drop |-> drop]
Put(k, put) == Batch(k, put, {})
Drop(k, drop) == Batch(k, NoRows, drop)

Uids(rows, k) == DOMAIN rows[k]
Known(k) == DOMAIN store[k]

\* A component may make do with fewer calls.
ToolCallsInit(calls) ==
  /\ store = cloud
  /\ call = [c \in Caller |-> Idle]
  /\ budget = [calls |-> calls, faults |-> MaxFaults, losses |-> MaxLosses, remote |-> MaxRemote]

ToolCallsTypeOK ==
  /\ \A rows \in {cloud, store} : DOMAIN rows = Kind /\ \A k \in Kind : DOMAIN rows[k] \subseteq Slot[k]
  /\ \A c \in Caller : call[c].at \in {"idle", "asks", "saves", "commits"}
                         /\ (call[c].at = "idle") <=> (call[c] = Idle)
  /\ budget \in [calls : 0..MaxCalls, faults : 0..MaxFaults, losses : 0..MaxLosses, remote : 0..MaxRemote]

----------------------------------------------------------------------------
\* Rows.

Applied(rows, b) ==
  [rows EXCEPT ![b.kind] = [u \in DOMAIN b.put \cup (DOMAIN @ \ b.drop) |-> IF u \in DOMAIN b.put THEN b.put[u] ELSE @[u]]]

\* A uid nobody has used or is about to use.
Pending(k) == {u \in Slot[k] : \E c \in Caller : \E i \in 1..Len(call[c].batches) :
                 LET b == call[c].batches[i] IN b.kind = k /\ u \in DOMAIN b.put \cup b.drop}
Free(k) == Slot[k] \ (Uids(cloud, k) \cup Known(k) \cup Pending(k))
Mints(k, S) == {f \in [S -> Free(k)] : \A x, y \in S : x # y => f[x] # f[y]}
Enough(k, S) == Mints(k, S) # {}
Minted(k, S) == CHOOSE f \in Mints(k, S) : TRUE

\* One new row for each member of S.
NewRows(k, S, row(_)) == LET uid == Minted(k, S)
                         IN [u \in {uid[x] : x \in S} |-> row(CHOOSE x \in S : uid[x] = u)]
\* The stored rows of U, each with a change.
Changed(k, U, change(_)) == [u \in U |-> change(store[k][u])]

----------------------------------------------------------------------------
\* A call's course.

Spends(what) == budget[what] > 0 /\ budget' = [budget EXCEPT ![what] = @ - 1]

\* op tells the calls apart that the history of a domain tells apart.
Start(c, op, at, batches) ==
  /\ call[c] = Idle
  /\ Spends("calls")
  /\ call' = [call EXCEPT ![c] = [op |-> op, at |-> at, batches |-> batches]]
  /\ UNCHANGED <<cloud, store>>
Does(c, op, batches) == Start(c, op, "saves", batches)
Asks(c, op, batches) == Start(c, op, "asks", batches)

\* The user confirms or picks, cannot be asked, or the aisle or type is there; or the call ends here.
Proceeds(c) ==
  /\ call[c].at = "asks"
  /\ call' = [call EXCEPT ![c].at = "saves"]
  /\ UNCHANGED <<cloud, store, budget>>
Stops(c) ==
  /\ call[c].at = "asks"
  /\ call' = [call EXCEPT ![c] = Idle]
  /\ UNCHANGED <<cloud, store, budget>>

\* The POST succeeds, fails, or is accepted and its answer lost.
Accepted(c) == cloud' = Applied(cloud, Head(call[c].batches))
GivesUp(c) == call' = [call EXCEPT ![c] = Idle]
Saves(c) ==
  /\ call[c].at = "saves"
  /\ \/ Accepted(c) /\ call' = [call EXCEPT ![c].at = "commits"] /\ UNCHANGED budget
     \/ Spends("faults") /\ GivesUp(c) /\ UNCHANGED cloud
     \/ Spends("losses") /\ GivesUp(c) /\ Accepted(c)
  /\ UNCHANGED store

\* The commit protocol of EntitySync, as one step: the store has the batch; or nothing changes and the call
\* ends; or a cycle that had read the cache before loads its older list over the batch, and the call goes on.
GoesOn(c) == call' = [call EXCEPT ![c] = IF Len(call[c].batches) = 1 THEN Idle
                                         ELSE [call[c] EXCEPT !.at = "saves", !.batches = Tail(@)]]
Commits(c) ==
  /\ call[c].at = "commits"
  /\ \/ store' = Applied(store, Head(call[c].batches)) /\ GoesOn(c) /\ UNCHANGED budget
     \/ Spends("losses") /\ (GivesUp(c) \/ GoesOn(c)) /\ UNCHANGED store
  /\ UNCHANGED cloud

----------------------------------------------------------------------------
\* Around the calls.

\* One entity's reconcile in a sync cycle; what an older list undoes is in Commits.
Syncs(k) ==
  /\ store' = [store EXCEPT ![k] = cloud[k]]
  /\ UNCHANGED <<cloud, call, budget>>

\* The process restarts: the calls are gone, the stores come back from their caches.
Restarts ==
  /\ call' = [c \in Caller |-> Idle]
  /\ IF \E c \in Caller : call[c].at = "commits" THEN Spends("losses") ELSE UNCHANGED budget
  /\ UNCHANGED <<cloud, store>>

\* No store has missed anything.
Undisturbed == budget.losses = MaxLosses /\ budget.remote = MaxRemote

\* Another device stores or deletes rows.
Remote(b) ==
  /\ Spends("remote")
  /\ cloud' = Applied(cloud, b)
  /\ UNCHANGED <<store, call>>
====
