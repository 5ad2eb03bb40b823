------------------------------ MODULE SyncDriver ------------------------------
(***************************************************************************)
(* The sync driver (src/kernel/sync.ts), the loop that paces it            *)
(* (src/server/sync-loop.ts), and the circuit breaker its requests share   *)
(* with those of the tools (src/paprika/client.ts).                        *)
(*                                                                         *)
(* A cycle runs the reconciles one after the other, by tier.  Each is one  *)
(* list request; the recipes' goes on to fetch what the list shows to be   *)
(* missing.  What a reconcile does to its store and cache is EntitySync    *)
(* and RecipeSync; here only whether it succeeds matters.                  *)
(*                                                                         *)
(* Time is counted in ticks: what the breaker and the loop wait for.       *)
(***************************************************************************)
EXTENDS Naturals, Sequences, FiniteSets

CONSTANTS
  Syncs,        \* every module's reconciles in dependency order: id, module, tier
  Recipe,       \* recipes
  Tool,         \* tool calls that may be in flight at the same time
  Disk,         \* the file system, as something that can be down
  Weather,      \* states the world can be in: the health of every endpoint
  Concurrency,  \* the bulkhead of recipe requests
  Threshold,    \* ConsecutiveBreaker: failures in a row that open the breaker
  HalfOpenAfter, PartialRetry, Interval,   \* in ticks
  MaxMisses,    \* MAX_CONVERGING_MISSES
  MaxEdits,     \* bound: recipes that change on the server
  MaxShifts     \* bound: changes of the weather

Entity   == {Syncs[i].id : i \in DOMAIN Syncs}
Endpoint == Entity \cup Recipe \cup Tool \cup {Disk}

\* down: transient failures, after every retry; bad: an answer no retry helps.
Health == {"up", "down", "bad"}

ASSUME SyncsAssumption == /\ \A i \in DOMAIN Syncs : Syncs[i].tier \in {"reference", "core", "additive"}
                          /\ \A i, j \in DOMAIN Syncs : Syncs[i].id = Syncs[j].id => i = j
ASSUME NamesAssumption == /\ Entity \cap (Recipe \cup Tool) = {} /\ Recipe \cap Tool = {}
                          /\ Disk \notin Entity \cup Recipe \cup Tool
ASSUME WeatherAssumption == Weather \subseteq [Endpoint -> Health]
ASSUME PaceAssumption == /\ HalfOpenAfter \in Nat \ {0} /\ PartialRetry \in Nat \ {0} /\ Interval \in Nat \ {0}
                         /\ MaxMisses \in Nat \ {0} /\ Threshold \in Nat \ {0} /\ Concurrency \in Nat \ {0}
ASSUME BoundAssumption == MaxEdits \in Nat /\ MaxShifts \in Nat

VARIABLES
  health,    \* of every endpoint
  missing,   \* recipes whose hash in the index is not the server's
  breaker,   \* the circuit: "closed", "open" or "half"
  fails,     \* failures in a row
  cool,      \* ticks until an open breaker lets a probe through
  req,       \* every endpoint's request: "idle", "sent" or "probe"
  phase,     \* the loop: "cycle", "waiting" or "exited"
  at,        \* the reconcile that runs
  step,      \* where it is: "request", "asked" or "fetching"
  todo,      \* recipes it has still to ask for
  landed, failed,   \* recipes it has fetched, and could not fetch
  synced,    \* entities whose store has been marked synced
  stage,     \* "boot" in the cycle buildKernel runs, "first" until the loop's first
             \* cycle begins, then "looping"
  stopping,  \* stop() has been called
  pace,      \* the loop's pace
  wait,      \* ticks until the next cycle
  edits, shifts,
  quick,     \* history: cycles in a row begun early, with no progress between them
  opener     \* history: what opened the breaker, "sync", "tool" or "none"

world   == <<health, missing, edits, shifts>>
circuit == <<breaker, fails, cool, opener>>
cycle   == <<at, step, todo, landed, failed, synced>>
loop    == <<phase, stage, stopping, pace, wait, quick>>
vars == <<health, missing, breaker, fails, cool, req, phase, at, step, todo, landed, failed, synced,
          stage, stopping, pace, wait, edits, shifts, quick, opener>>

(***************************************************************************)
(* The order of a cycle.                                                   *)
(***************************************************************************)

\* A stable sort that lets the recipe module lead.
SyncOrder == LET Leads(s) == s.module = "recipe"
                 Follows(s) == s.module # "recipe"
             IN  SelectSeq(Syncs, Leads) \o SelectSeq(Syncs, Follows)

Tier(t) == LET InTier(s) == s.tier = t IN SelectSeq(SyncOrder, InTier)
Plan == Tier("reference") \o Tier("core") \o Tier("additive")

Current == Plan[at].id
Reconciling == phase = "cycle" /\ at <= Len(Plan)

(***************************************************************************)
(* The circuit breaker.                                                    *)
(***************************************************************************)

Rejected == breaker = "open" /\ cool > 0

\* The first request after the cool-down is a probe; others wait for it.
Send(x) ==
  /\ \/ breaker = "closed" /\ req' = [req EXCEPT ![x] = "sent"] /\ UNCHANGED breaker
     \/ /\ breaker = "open" /\ cool = 0
        /\ req' = [req EXCEPT ![x] = "probe"]
        /\ breaker' = "half"
  /\ UNCHANGED <<fails, cool, opener>>

Trip(x) == breaker' = "open" /\ cool' = HalfOpenAfter
           /\ opener' = IF x \in Tool THEN "tool" ELSE "sync"

Close == /\ breaker' = IF breaker = "half" THEN "closed" ELSE breaker
         /\ opener' = IF breaker = "half" THEN "none" ELSE opener
         /\ UNCHANGED cool

\* What a request that is answered does to the breaker.  A probe that fails opens
\* it again; a failure of a request sent earlier does, too, even during a probe.
Settle(x) ==
  /\ req' = [req EXCEPT ![x] = "idle"]
  /\ CASE health[x] = "up" ->
            fails' = 0 /\ IF req[x] = "probe" THEN Close ELSE UNCHANGED <<breaker, cool, opener>>
       [] health[x] = "bad" ->
            /\ UNCHANGED fails
            /\ IF req[x] = "probe" THEN Close ELSE UNCHANGED <<breaker, cool, opener>>
       [] OTHER ->
            /\ fails' = IF fails < Threshold THEN fails + 1 ELSE fails
            /\ IF breaker # "open" /\ (req[x] = "probe" \/ fails' = Threshold)
                 THEN Trip(x)
                 ELSE UNCHANGED <<breaker, cool, opener>>

(***************************************************************************)
(* The world, and the tools.                                               *)
(***************************************************************************)

Shift(h) ==
  /\ shifts < MaxShifts /\ h # health
  /\ health' = h /\ shifts' = shifts + 1
  /\ UNCHANGED <<missing, edits, circuit, req, cycle, loop>>

Edit(r) ==
  /\ edits < MaxEdits /\ r \notin missing
  /\ missing' = missing \cup {r} /\ edits' = edits + 1
  /\ UNCHANGED <<health, shifts, circuit, req, cycle, loop>>

Tick ==
  /\ cool > 0 \/ (phase = "waiting" /\ wait > 0)
  /\ cool' = IF cool > 0 THEN cool - 1 ELSE 0
  /\ wait' = IF phase = "waiting" /\ wait > 0 THEN wait - 1 ELSE wait
  /\ UNCHANGED <<world, breaker, fails, opener, req, cycle, phase, stage, stopping, pace, quick>>

\* A tool's request; tools wait until a store of theirs is synced.
ToolCall(t) ==
  /\ stage # "boot" /\ synced # {} /\ phase # "exited"
  /\ req[t] = "idle"
  /\ Send(t)
  /\ UNCHANGED <<world, cycle, loop>>

ToolAnswer(t) ==
  /\ req[t] # "idle"
  /\ Settle(t)
  /\ UNCHANGED <<world, cycle, loop>>

\* Mutant: the wait is not aborted.
MutStop ==
  /\ stage # "boot" /\ ~stopping
  /\ stopping' = TRUE
  /\ UNCHANGED <<world, circuit, req, cycle, stage, phase, pace, wait, quick>>

\* Shutdown aborts the wait; a cycle that runs is not interrupted.
Stop ==
  /\ stage # "boot" /\ ~stopping
  /\ stopping' = TRUE
  /\ phase' = IF phase = "waiting" THEN "exited" ELSE phase
  /\ UNCHANGED <<world, circuit, req, cycle, stage, pace, wait, quick>>

(***************************************************************************)
(* The pace.                                                               *)
(***************************************************************************)

Steady == [kind |-> "steady", misses |-> 0]
Converging(n) == [kind |-> "converging", misses |-> n]
BootPace == Converging(0)

\* Mutant: what is missing is asked for again at once.
MutFastWait == 0

FastWait == IF PartialRetry < Interval THEN PartialRetry ELSE Interval

\* Mutant: one miss too many is tolerated.
MutNextPace(p, outcome) ==
  CASE outcome = "ok" -> Steady
    [] outcome = "core_partial" -> Converging(0)
    [] OTHER -> IF p.kind = "converging" /\ p.misses + 1 <= MaxMisses
                  THEN Converging(p.misses + 1)
                  ELSE Steady

NextPace(p, outcome) ==
  CASE outcome = "ok" -> Steady
    [] outcome = "core_partial" -> Converging(0)
    [] OTHER -> IF p.kind = "converging" /\ p.misses + 1 < MaxMisses
                  THEN Converging(p.misses + 1)
                  ELSE Steady

\* A cycle ends.  The boot cycle's outcome is dropped: the loop starts at once.
Finish(outcome) ==
  LET p == NextPace(pace, outcome)
  IN  /\ at' = 1 /\ step' = "request" /\ todo' = {} /\ landed' = {} /\ failed' = {}
      /\ quick' = IF outcome \in {"ok", "core_partial"} THEN 0 ELSE quick
      /\ IF stage = "boot" THEN stage' = "first" /\ phase' = "waiting" /\ wait' = 0 /\ UNCHANGED pace
         ELSE /\ pace' = p /\ UNCHANGED stage
              /\ phase' = IF stopping THEN "exited" ELSE "waiting"
              /\ wait' = IF p.kind = "converging" THEN FastWait ELSE Interval
      /\ UNCHANGED stopping

\* The first cycle of the loop and those after a fast wait are the quick ones.
StartCycle ==
  /\ phase = "waiting" /\ wait = 0
  /\ phase' = "cycle" /\ stage' = "looping"
  /\ quick' = IF pace.kind = "converging" THEN quick + 1 ELSE 0
  /\ UNCHANGED <<world, circuit, req, cycle, stopping, pace, wait>>

(***************************************************************************)
(* The reconciles.                                                         *)
(***************************************************************************)

\* A reconcile's err: the cycle goes on, unless the reconcile is a core one.
Err(outcome) ==
  IF Plan[at].tier = "core"
    THEN Finish(outcome) /\ UNCHANGED synced
    ELSE at' = at + 1 /\ step' = "request" /\ UNCHANGED <<todo, landed, failed, synced, loop>>

\* Mutant: only the boot cycle marks a store synced.
MutPass == /\ at' = at + 1 /\ step' = "request"
           /\ synced' = IF stage = "boot" THEN synced \cup {Current} ELSE synced
           /\ todo' = {} /\ landed' = {} /\ failed' = {}
           /\ UNCHANGED loop

Pass == /\ at' = at + 1 /\ step' = "request"
        /\ synced' = synced \cup {Current}
        /\ todo' = {} /\ landed' = {} /\ failed' = {}
        /\ UNCHANGED loop

Request ==
  /\ Reconciling /\ step = "request"
  /\ Send(Current)
  /\ step' = "asked"
  /\ UNCHANGED <<world, at, todo, landed, failed, synced, loop>>

RequestRejected ==
  /\ Reconciling /\ step = "request"
  /\ Rejected
  /\ Err("core_aborted")
  /\ UNCHANGED <<world, circuit, req>>

\* The list is there; the recipes' is compared with the index, the others are
\* written through the cache.
ListAnswer ==
  /\ Reconciling /\ step = "asked" /\ health[Current] = "up"
  /\ Settle(Current)
  /\ IF Current = "recipes"
       THEN todo' = missing /\ step' = "fetching" /\ UNCHANGED <<at, landed, failed, synced, loop>>
       ELSE Pass
  /\ UNCHANGED world

\* It is not, or the cache fails.
AnswerErr ==
  /\ Reconciling /\ step = "asked"
  /\ health[Current] # "up" \/ (Current # "recipes" /\ health[Disk] # "up")
  /\ Settle(Current)
  /\ Err("core_aborted")
  /\ UNCHANGED world

Fetching == Reconciling /\ step = "fetching"
InFlight == {r \in Recipe : req[r] # "idle"}

Fetch(r) ==
  /\ Fetching /\ r \in todo
  /\ Cardinality(InFlight) < Concurrency
  /\ Send(r)
  /\ todo' = todo \ {r}
  /\ UNCHANGED <<world, at, step, landed, failed, synced, loop>>

FetchRejected(r) ==
  /\ Fetching /\ r \in todo
  /\ Cardinality(InFlight) < Concurrency
  /\ Rejected
  /\ todo' = todo \ {r} /\ failed' = failed \cup {r}
  /\ UNCHANGED <<world, circuit, req, at, step, landed, synced, loop>>

\* Each recipe lands, or fails, on its own.
FetchAnswer(r) ==
  /\ Fetching /\ r \in InFlight
  /\ Settle(r)
  /\ IF health[r] = "up"
       THEN landed' = landed \cup {r} /\ missing' = missing \ {r} /\ UNCHANGED failed
       ELSE failed' = failed \cup {r} /\ UNCHANGED <<landed, missing>>
  /\ UNCHANGED <<health, edits, shifts, at, step, todo, synced, loop>>

Settled == Fetching /\ todo = {} /\ InFlight = {}

FetchOk ==
  /\ Settled /\ failed = {}
  /\ Pass
  /\ UNCHANGED <<world, circuit, req>>

\* Mutant: a batch of which nothing landed counts as partial, too.
MutFetchPartial ==
  /\ Settled /\ failed # {} /\ health[Disk] = "up"
  /\ Err("core_partial")
  /\ UNCHANGED <<world, circuit, req>>

\* Some landed: they are flushed, and the cycle ends early.
FetchPartial ==
  /\ Settled /\ failed # {} /\ landed # {} /\ health[Disk] = "up"
  /\ Err("core_partial")
  /\ UNCHANGED <<world, circuit, req>>

\* None landed, or the flush or the removal of a recipe failed.
FetchErr ==
  /\ Settled
  /\ \/ failed # {} /\ landed = {}
     \/ health[Disk] # "up"
  /\ Err("core_aborted")
  /\ UNCHANGED <<world, circuit, req>>

FlushAll ==
  /\ phase = "cycle" /\ at > Len(Plan)
  /\ Finish("ok")
  /\ UNCHANGED <<world, circuit, req, synced>>

FlushFail ==
  /\ phase = "cycle" /\ at > Len(Plan) /\ health[Disk] # "up"
  /\ Finish("flush_failed")
  /\ UNCHANGED <<world, circuit, req, synced>>

-----------------------------------------------------------------------------

Init ==
  /\ health \in Weather
  /\ missing = Recipe
  /\ breaker = "closed" /\ fails = 0 /\ cool = 0
  /\ req = [x \in Endpoint |-> "idle"]
  /\ phase = "cycle" /\ at = 1 /\ step = "request"
  /\ todo = {} /\ landed = {} /\ failed = {} /\ synced = {}
  /\ stage = "boot" /\ stopping = FALSE
  /\ pace = BootPace /\ wait = 0
  /\ edits = 0 /\ shifts = 0 /\ quick = 0 /\ opener = "none"

DriverStep ==
  \/ StartCycle \/ Request \/ RequestRejected \/ ListAnswer \/ AnswerErr
  \/ \E r \in Recipe : Fetch(r) \/ FetchRejected(r) \/ FetchAnswer(r)
  \/ FetchOk \/ FetchPartial \/ FetchErr \/ FlushAll \/ FlushFail

Next ==
  \/ DriverStep
  \/ Tick
  \/ Stop
  \/ \E h \in Weather : Shift(h)
  \/ \E r \in Recipe : Edit(r)
  \/ \E t \in Tool : ToolCall(t) \/ ToolAnswer(t)

Spec == Init /\ [][Next]_vars

\* Time passes and requests end.  Strong for the driver: a request that waits
\* for another's probe goes on as soon as the probe is settled.
Fairness == SF_vars(DriverStep) /\ WF_vars(Tick) /\ \A t \in Tool : WF_vars(ToolAnswer(t))

FairSpec == Spec /\ Fairness

-----------------------------------------------------------------------------

TypeOK ==
  /\ health \in Weather /\ missing \subseteq Recipe
  /\ breaker \in {"closed", "open", "half"} /\ fails \in 0..Threshold /\ cool \in 0..HalfOpenAfter
  /\ req \in [Endpoint -> {"idle", "sent", "probe"}]
  /\ phase \in {"cycle", "waiting", "exited"}
  /\ at \in 1..(Len(Plan) + 1) /\ step \in {"request", "asked", "fetching"}
  /\ todo \subseteq Recipe /\ landed \subseteq Recipe /\ failed \subseteq Recipe
  /\ synced \subseteq Entity /\ stage \in {"boot", "first", "looping"} /\ stopping \in BOOLEAN
  /\ pace \in [kind : {"steady", "converging"}, misses : 0..(MaxMisses - 1)]
  /\ wait \in 0..Interval /\ edits \in 0..MaxEdits /\ shifts \in 0..MaxShifts
  /\ quick \in Nat /\ opener \in {"sync", "tool", "none"}

(***************************************************************************)
(* "An outage at boot costs at most MAX_CONVERGING_MISSES quick tries"     *)
(* (sync-loop.ts), and so does any other: between two cycles that made     *)
(* progress the loop begins no more than that many cycles early.           *)
(***************************************************************************)
QuickTries == quick <= MaxMisses

(***************************************************************************)
(* The short retry is "2x the Paprika breaker's 30s half-open, so the      *)
(* breaker has closed" (sync-loop.ts): a cycle that follows a fast wait is *)
(* not turned away by a breaker that an earlier cycle opened.  Only if the *)
(* interval is no shorter than the half-open time, and a tool's request    *)
(* may always have opened the breaker meanwhile.                           *)
(***************************************************************************)
FastFindsReady ==
  phase = "waiting" /\ wait = 0 /\ stage = "looping" => ~(Rejected /\ opener = "sync")

(***************************************************************************)
(* stop() is final: a cycle that runs is let finish, and none begins.      *)
(***************************************************************************)
StopIsFinal == [][stopping /\ phase # "cycle" => phase' # "cycle"]_vars

(***************************************************************************)
(* "Each partial pass lands more, so this ends" (sync-loop.ts): whatever   *)
(* fails, and for however long, the loop settles to the interval.          *)
(***************************************************************************)
Settles == <>[](pace.kind = "steady" \/ stopping)

(***************************************************************************)
(* Once nothing fails any more, every store is synced, every recipe is     *)
(* there and the breaker stays closed, unless the loop is stopped.         *)
(***************************************************************************)
AllUp == \A x \in Endpoint : health[x] = "up"
Recovers == <>[]AllUp => <>[](stopping \/ (synced = Entity /\ missing = {} /\ breaker = "closed"))

(***************************************************************************)
(* "A catalog fetch failure can no longer abort the primary data sync"     *)
(* (docs/adr/0010-reference-sync-tier.md): once the core endpoints and the *)
(* disk are well for good, the core stores get synced, whatever becomes of *)
(* the reference and additive ones.                                        *)
(***************************************************************************)
CoreWell == \A i \in DOMAIN Syncs : Syncs[i].tier = "core" => health[Syncs[i].id] = "up"
SiblingsWell == \A x \in Recipe \cup {Disk} : health[x] = "up"
CoreSynced == {Syncs[i].id : i \in {j \in DOMAIN Syncs : Syncs[j].tier = "core"}} \subseteq synced
CoreDespiteCatalogs == <>[](CoreWell /\ SiblingsWell) => <>(stopping \/ CoreSynced)
=============================================================================
