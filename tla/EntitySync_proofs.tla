-------------------------- MODULE EntitySync_proofs --------------------------
(***************************************************************************)
(* What EntitySync promises for any set of rows, contents and tool calls,  *)
(* any TTL and any bound on edits and faults, proved rather than checked   *)
(* on an instance.                                                         *)
(***************************************************************************)
EXTENDS EntitySync, TLAPS

USE NoneAssumption, TTLAssumption, BoundAssumption

(***************************************************************************)
(* Type correctness.                                                       *)
(***************************************************************************)

\* A commit's operations are of their type when it starts and after it.
LEMMA NoOpsType == NoOps \in Ops
  BY DEF NoOps, Ops

\* The three steps of a tool call that complete keep the types.
LEMMA TypeTool ==
  ASSUME Types, NEW w \in Writer, ToolStep(w)
  PROVE  Types'
<1>1. CASE Mark(w)
  <2>1. clean' \in [Uid -> BOOLEAN]
    <3>1. clean' = [u \in Uid |-> IF u \in Touched(w) THEN ~SyncWindow /\ ~InCommit(u) ELSE clean[u]]
      BY <1>1 DEF Mark
    <3>2. \A u \in Uid : clean[u] \in BOOLEAN /\ (~SyncWindow /\ ~InCommit(u)) \in BOOLEAN
      BY Zenon DEF Types
    <3> QED BY <3>1, <3>2, Zenon
  <2>2. mark' \in [Uid -> MarkKinds] /\ age' \in [Uid -> 0..TTL]
    BY <1>1 DEF Types, Mark, marks, MarkKinds
  <2> QED BY <1>1, <2>1, <2>2 DEF Types, Mark, paprika, cache, cycle
<1>2. CASE CacheOps(w)
  BY <1>2 DEF Types, CacheOps, Ops, Slot, Touched, paprika, marks, cycle, history
<1>3. CASE FlushAndApply(w)
  BY <1>3, NoOpsType DEF Types, FlushAndApply, FlushAll, Written, Return, Ops, Slot, Touched, Empty,
         paprika, marks, cycle
<1> QED BY <1>1, <1>2, <1>3 DEF ToolStep

\* So do the steps of a reconcile and the end of its cycle.
LEMMA TypeSync ==
  ASSUME Types, SyncStep
  PROVE  Types'
<1> USE DEF Types, Slot, paprika, cache, marks, tools, history
<1>1. CASE SyncList
  BY <1>1 DEF SyncList
<1>2. CASE SyncGetAll
  <2>1. clean' \in [Uid -> BOOLEAN]
    <3>1. \A u \in Uid : (clean[u] /\ ~InCommit(u)) \in BOOLEAN
      BY Zenon
    <3>2. clean' = [u \in Uid |-> clean[u] /\ ~InCommit(u)]
      BY <1>2 DEF SyncGetAll
    <3> QED BY <3>1, <3>2, Zenon
  <2> QED BY <1>2, <2>1 DEF SyncGetAll
<1>3. CASE SyncRead
  BY <1>3 DEF SyncRead
<1>4. Effective \in [Uid -> Slot]
  BY DEF Effective
<1>5. CASE SyncFilterLoad
  BY <1>4, <1>5 DEF SyncFilterLoad
<1>6. CASE SyncFilterPrune
  BY <1>4, <1>6 DEF SyncFilterPrune
<1>7. CASE SyncPruneLoad
  BY <1>7 DEF SyncPruneLoad, RemoveRows
<1>8. CASE SyncPuts
  BY <1>8 DEF SyncPuts, ClearMarks, Forget, Empty, MarkKinds
<1>9. CASE CycleFlush
  BY <1>9 DEF CycleFlush, FlushAll, Written, Empty
<1>10. CASE CycleSweep
  BY <1>10 DEF CycleSweep, ClearMarks, MarkKinds
<1> QED BY <1>1, <1>2, <1>3, <1>5, <1>6, <1>7, <1>8, <1>9, <1>10 DEF SyncStep

\* So do failures and restarts.
LEMMA TypeFault ==
  ASSUME Types, Fault
  PROVE  Types'
<1> USE DEF Types, Slot, paprika, cache, marks, tools, history
<1>1. ASSUME NEW w \in Writer, NEW S \in SUBSET Uid, CacheOpsFail(w, S)
      PROVE  Types'
  BY <1>1, NoOpsType
     DEF CacheOpsFail, ClearMarks, MarkKinds, Return, Ops, Upserted, Touched, Deleted, cycle
<1>2. ASSUME NEW w \in Writer, NEW S \in SUBSET Uid, FlushFail(w, S)
      PROVE  Types'
  BY <1>2, NoOpsType DEF FlushFail, FlushSome, Written, ClearMarks, MarkKinds, Return, cycle
<1>3. ASSUME NEW S \in SUBSET Uid, SyncFail(S)
      PROVE  Types'
  BY <1>3 DEF SyncFail, RemoveRows, Forget, Empty
<1>4. ASSUME NEW S \in SUBSET Uid, CycleFail(S)
      PROVE  Types'
  BY <1>4 DEF CycleFail, FlushSome, Written
<1>5. ASSUME NEW S \in SUBSET Uid, Crash(S)
      PROVE  Types'
  <2>1. HydratedSynced(disk') \in BOOLEAN
    BY Zenon DEF HydratedSynced
  <2> QED BY <1>5, <2>1, NoOpsType
          DEF Crash, Written, HydratedStore, Forget, Empty, MarkKinds
<1> QED BY <1>1, <1>2, <1>3, <1>4, <1>5 DEF Fault

\* The types at the start.
LEMMA TypesAtInit == Init => Types
<1>1. ASSUME Init PROVE synced \in BOOLEAN
  BY <1>1, Zenon DEF Init, HydratedSynced
<1> QED BY <1>1, NoOpsType DEF Init, Types, Slot, Empty, HydratedStore, MarkKinds

\* Every variable keeps its type: in particular no buffered row, file or store
\* entry is ever the marker of a uid a commit does not touch, and the ages stop
\* at the TTL.
LEMMA TypesHold == Spec => []Types
<1>1. Init => Types
  BY TypesAtInit
<1>2. Types /\ [Next]_vars => Types'
  <2> SUFFICES ASSUME Types, [Next]_vars PROVE Types'
    OBVIOUS
  <2> USE DEF Types, paprika, cache, marks, tools, cycle, history
  <2>1. CASE Tick
    BY <2>1 DEF Tick, MarkKinds
  <2>2. ASSUME NEW u \in Uid, NEW r \in Slot, ExternalEdit(u, r) PROVE Types'
    BY <2>2 DEF ExternalEdit
  <2>3. ASSUME NEW u \in Uid, Propagate(u) PROVE Types'
    BY <2>3 DEF Propagate
  <2>4. ASSUME NEW w \in Writer, NEW ops \in Ops, Save(w, ops) PROVE Types'
    BY <2>4 DEF Save, Ops
  <2>5. ASSUME NEW w \in Writer, ToolStep(w) PROVE Types'
    BY <2>5, TypeTool
  <2>6. CASE SyncStep
    BY <2>6, TypeSync
  <2>7. CASE Fault
    BY <2>7, TypeFault
  <2>8. CASE UNCHANGED vars
    BY <2>8 DEF vars
  <2> QED BY <2>1, <2>2, <2>3, <2>4, <2>5, <2>6, <2>7, <2>8 DEF Next
<1> QED BY <1>1, <1>2, PTL DEF Spec

\* A store that is not synced is empty and nothing is saved from it: only a boot makes it so, on no files.
LEMMA ColdStep ==
  ASSUME TypeOK, [Next]_vars, ~synced'
  PROVE  store' = Empty /\ \A w \in Writer : wpc'[w] = "idle"
<1>1. ASSUME NEW S \in SUBSET Uid, Crash(S) PROVE store' = Empty /\ \A w \in Writer : wpc'[w] = "idle"
  <2>1. ~HydratedSynced(disk') /\ store' = disk' /\ wpc' = [w \in Writer |-> "idle"]
    BY <1>1 DEF Crash, HydratedStore
  <2> QED BY <2>1 DEF HydratedSynced
<1>2. CASE ~\E S \in SUBSET Uid : Crash(S)
  <2>1. synced' = synced \/ synced' = TRUE
    BY <1>2 DEF Next, Tick, ExternalEdit, Propagate, Save, ToolStep, Mark, CacheOps, FlushAndApply, SyncStep,
       SyncList, SyncGetAll, SyncRead, SyncFilterLoad, SyncFilterPrune, SyncPruneLoad, SyncPuts, CycleFlush,
       CycleSweep, Fault, CacheOpsFail, FlushFail, SyncFail, CycleFail, vars
  <2>2. ~synced /\ store = Empty /\ \A w \in Writer : wpc[w] = "idle"
    BY <2>1 DEF TypeOK
  <2>3. store' = store /\ wpc' = wpc
    BY <1>2, <2>2 DEF Next, Tick, ExternalEdit, Propagate, Save, ToolStep, Mark, CacheOps, FlushAndApply, SyncStep,
       SyncList, SyncGetAll, SyncRead, SyncFilterLoad, SyncFilterPrune, SyncPruneLoad, SyncPuts, CycleFlush,
       CycleSweep, Fault, CacheOpsFail, FlushFail, SyncFail, CycleFail, vars, tools
  <2> QED BY <2>2, <2>3
<1> QED BY <1>1, <1>2

\* Types, and no row read or saved before there is anything to read: "loading an empty cache would flip
\* a cold store to synced" (cache/hydrate.ts).
THEOREM TypeCorrect == Spec => []TypeOK
<1>1. Init => TypeOK
  <2> SUFFICES ASSUME Init PROVE TypeOK
    OBVIOUS
  <2>1. Types
    BY TypesAtInit
  <2>2. ~synced => store = Empty
    BY DEF Init, HydratedSynced, HydratedStore
  <2>3. \A w \in Writer : wpc[w] = "idle"
    BY DEF Init
  <2> QED BY <2>1, <2>2, <2>3 DEF TypeOK
<1>2. TypeOK /\ Types' /\ [Next]_vars => TypeOK'
  BY ColdStep DEF TypeOK
<1> QED BY <1>1, <1>2, TypesHold, PTL DEF Spec

(***************************************************************************)
(* The shield.  Shield and DurableAck are not inductive: they say nothing  *)
(* of what a reconcile has collected and is about to install, nor of a     *)
(* commit under way.  The strengthening says both, uid by uid.             *)
(***************************************************************************)

\* The mark a commit sets for an operation.
Kind(op) == IF op = None THEN "delete" ELSE "upsert"

\* With the marks disabled there are none.
Disabled == TTL = 0 => \A u \in Uid : mark[u] = "none"

\* A clean commit has the uid to itself: no reconcile in its cache window, no
\* other commit under way.
Alone(u) ==
  clean[u] =>
    /\ SyncWindow => ~InCommit(u)
    /\ \A w1, w2 \in Writer : Committing(w1) /\ Committing(w2)
                              /\ u \in Touched(w1) /\ u \in Touched(w2) => w1 = w2

\* What a clean commit has written is in the buffer or on disk until it returns.
Underway(u) ==
  \A w \in Writer : Committing(w) /\ u \in Touched(w) /\ clean[u] =>
    /\ mark[u] \in {"none", Kind(wops[w][u])}
    /\ wpc[w] = "buffered" =>
         \/ buf[u] = wops[w][u] /\ (wops[w][u] = None => disk[u] = None)
         \/ buf[u] = None /\ disk[u] = wops[w][u]

\* What a shielded commit wrote is everywhere.
Settled(u) ==
  Shielded(u) => /\ store[u] = committed[u]
                 /\ disk[u] = committed[u]
                 /\ buf[u] \in {None, committed[u]}
                 /\ mark[u] = Kind(committed[u])

\* A reconcile that runs beside a shielded uid has collected, and will install,
\* what the commit wrote.
Collected(u) ==
  Shielded(u) => /\ spc = "reading" => seen[u] \in {None, committed[u]}
                 /\ spc \in {"read", "pruning", "loaded"} => seen[u] = committed[u]
                 /\ spc \in {"pruning", "loaded"} => eff[u] = committed[u]

UidInv(u) == Alone(u) /\ Underway(u) /\ Settled(u) /\ Collected(u)

ShieldInv == Types /\ Disabled /\ \A u \in Uid : UidInv(u)

\* Steps that leave the marks' shield, the tool calls and the cycle alone.
LEMMA ShieldFrame ==
  ASSUME NEW u \in Uid, UidInv(u), UNCHANGED <<cache, store, mark, tools, cycle, history>>
  PROVE  UidInv(u)'
BY DEF UidInv, Alone, Underway, Settled, Collected, Shielded, Pending, InCommit, Committing, Touched,
       SyncWindow, cache, tools, cycle, history

\* The steps of a tool call.
LEMMA ShieldTool ==
  ASSUME Types, Disabled, NEW u \in Uid, UidInv(u), NEW w \in Writer, ToolStep(w)
  PROVE  UidInv(u)'
<1> USE DEF Types, UidInv, Shielded, Pending, InCommit, Committing, SyncWindow,
            paprika, cache, marks, cycle, history
<1>1. CASE Mark(w)
  <2>1. /\ wpc' = [wpc EXCEPT ![w] = "marked"]
        /\ wpc[w] = "saved"
        /\ wops' = wops
        /\ u \in Touched(w) => clean'[u] = (~SyncWindow /\ ~InCommit(u))
        /\ u \notin Touched(w) => clean'[u] = clean[u] /\ mark'[u] = mark[u]
        /\ u \in Touched(w) => mark'[u] \in {"none", Kind(wops[w][u])}
        /\ UNCHANGED <<disk, buf, store, spc, seen, eff, committed>>
    BY <1>1 DEF Mark, Touched, Deleted, Upserted, Kind, Disabled
  <2>2. CASE u \in Touched(w)
    BY <2>1, <2>2 DEF Alone, Underway, Settled, Collected, Touched
  <2>3. CASE u \notin Touched(w)
    BY <2>1, <2>3 DEF Alone, Underway, Settled, Collected, Touched
  <2> QED BY <2>2, <2>3
<1>2. CASE CacheOps(w)
  BY <1>2 DEF CacheOps, Alone, Underway, Settled, Collected, Touched, Deleted, Kind
<1>3. CASE FlushAndApply(w)
  <2>1. /\ wpc' = [wpc EXCEPT ![w] = "idle"]
        /\ wpc[w] = "buffered"
        /\ wops' = [wops EXCEPT ![w] = NoOps]
        /\ disk'[u] = View(u) /\ buf'[u] = None
        /\ u \in Touched(w) => store'[u] = wops[w][u] /\ committed'[u] = wops[w][u]
        /\ u \notin Touched(w) => store'[u] = store[u] /\ committed'[u] = committed[u]
        /\ UNCHANGED <<mark, clean, spc, seen, eff>>
    BY <1>3 DEF FlushAndApply, FlushAll, Buffered, Written, View, Return, Empty
  <2>2. CASE u \in Touched(w)
    BY <2>1, <2>2 DEF Alone, Underway, Settled, Collected, Touched, View, Kind, NoOps
  <2>3. CASE u \notin Touched(w)
    BY <2>1, <2>3 DEF Alone, Underway, Settled, Collected, Touched, View, Kind, NoOps
  <2> QED BY <2>2, <2>3
<1> QED BY <1>1, <1>2, <1>3 DEF ToolStep
\* The steps of a reconcile; the catalogs' variant is not shielded.
LEMMA ShieldSync ==
  ASSUME Reconcile = "replaceAll",
         Types, Disabled, NEW u \in Uid, UidInv(u), SyncStep
  PROVE  UidInv(u)'
<1> USE DEF Types, UidInv, Alone, Underway, Settled, Collected, Shielded, Pending,
            InCommit, Committing, Touched, SyncWindow, paprika, cache, marks, tools, history
<1>1. CASE SyncList
  BY <1>1 DEF SyncList
<1>2. CASE SyncGetAll
  <2>1. clean'[u] <=> clean[u] /\ ~InCommit(u)
    BY <1>2 DEF SyncGetAll
  <2> QED BY <1>2, <2>1 DEF SyncGetAll
<1>3. CASE SyncRead
  BY <1>3 DEF SyncRead
<1>4. Shielded(u) /\ spc = "read" => Effective[u] = committed[u]
  BY DEF Effective, MarkKinds, Kind
<1>5. CASE SyncFilterLoad
  BY <1>4, <1>5 DEF SyncFilterLoad
<1>6. CASE SyncFilterPrune
  BY <1>4, <1>6 DEF SyncFilterPrune
<1>7. CASE SyncPruneLoad
  BY <1>7 DEF SyncPruneLoad, RemoveRows, Orphans
<1>8. CASE SyncPuts
  <2>1. mark'[u] = mark[u] \/ mark'[u] = "none"
    BY <1>8 DEF SyncPuts, ClearMarks
  <2>2. buf'[u] = IF eff[u] # None THEN eff[u] ELSE buf[u]
    BY <1>8 DEF SyncPuts
  <2> QED BY <1>8, <2>1, <2>2 DEF SyncPuts
<1>9. CASE CycleFlush
  BY <1>9 DEF CycleFlush, FlushAll, Written, Buffered, Empty
<1>10. CASE CycleSweep
  BY <1>10 DEF CycleSweep, ClearMarks
<1> QED BY <1>1, <1>2, <1>3, <1>5, <1>6, <1>7, <1>8, <1>9, <1>10 DEF SyncStep

\* Failures and restarts.
LEMMA ShieldFault ==
  ASSUME Types, NEW u \in Uid, UidInv(u), Fault
  PROVE  UidInv(u)'
<1> USE DEF Types, UidInv, Alone, Underway, Settled, Collected, Shielded, Pending,
            InCommit, Committing, Touched, SyncWindow, paprika, cache, marks, tools, history
<1>1. ASSUME NEW w \in Writer, NEW S \in SUBSET Uid, CacheOpsFail(w, S)
      PROVE  UidInv(u)'
  <2>1. /\ wpc' = [wpc EXCEPT ![w] = "idle"]
        /\ wpc[w] = "marked"
        /\ wops' = [wops EXCEPT ![w] = NoOps]
        /\ u \in Touched(w) => mark'[u] = "none"
        /\ u \notin Touched(w) => mark'[u] = mark[u] /\ disk'[u] = disk[u] /\ buf'[u] = buf[u]
        /\ UNCHANGED <<store, clean, committed, spc, seen, eff>>
    BY <1>1 DEF CacheOpsFail, ClearMarks, Return, Upserted, Deleted, cycle
  <2>2. CASE u \in Touched(w)
    BY <2>1, <2>2 DEF NoOps
  <2>3. CASE u \notin Touched(w)
    BY <2>1, <2>3 DEF NoOps
  <2> QED BY <2>2, <2>3
<1>2. ASSUME NEW w \in Writer, NEW S \in SUBSET Uid, FlushFail(w, S)
      PROVE  UidInv(u)'
  <2>1. /\ wpc' = [wpc EXCEPT ![w] = "idle"]
        /\ wpc[w] = "buffered"
        /\ wops' = [wops EXCEPT ![w] = NoOps]
        /\ disk'[u] \in {disk[u], View(u)} /\ buf'[u] = buf[u]
        /\ u \in Touched(w) => mark'[u] = "none"
        /\ u \notin Touched(w) => mark'[u] = mark[u]
        /\ UNCHANGED <<store, clean, committed, spc, seen, eff>>
    BY <1>2 DEF FlushFail, FlushSome, Written, View, ClearMarks, Return, cycle
  <2>2. CASE u \in Touched(w)
    BY <2>1, <2>2 DEF NoOps, View
  <2>3. CASE u \notin Touched(w)
    BY <2>1, <2>3 DEF NoOps, View
  <2> QED BY <2>2, <2>3
<1>3. ASSUME NEW S \in SUBSET Uid, SyncFail(S)
      PROVE  UidInv(u)'
  BY <1>3 DEF SyncFail, RemoveRows, Orphans, Forget
<1>4. ASSUME NEW S \in SUBSET Uid, CycleFail(S)
      PROVE  UidInv(u)'
  BY <1>4 DEF CycleFail, FlushSome, Written
<1>5. ASSUME NEW S \in SUBSET Uid, Crash(S)
      PROVE  UidInv(u)'
  BY <1>5 DEF Crash
<1> QED BY <1>1, <1>2, <1>3, <1>4, <1>5 DEF Fault

\* With the marks disabled no step sets one.
LEMMA DisabledStep ==
  ASSUME Types, Disabled, [Next]_vars
  PROVE  Disabled'
<1> USE DEF Types, Disabled, marks
<1>1. CASE Tick
  BY <1>1 DEF Tick
<1>2. CASE \E w \in Writer : ToolStep(w)
  BY <1>2 DEF ToolStep, Mark, CacheOps, FlushAndApply
<1>3. CASE SyncStep
  BY <1>3 DEF SyncStep, SyncList, SyncGetAll, SyncRead, SyncFilterLoad, SyncFilterPrune,
              SyncPruneLoad, SyncPuts, CycleFlush, CycleSweep, ClearMarks
<1>4. CASE Fault
  BY <1>4 DEF Fault, CacheOpsFail, FlushFail, SyncFail, CycleFail, Crash, ClearMarks
<1> QED BY <1>1, <1>2, <1>3, <1>4 DEF Next, ExternalEdit, Propagate, Save, vars

\* The strengthening is inductive.
LEMMA ShieldInvHolds ==
  ASSUME Reconcile = "replaceAll"
  PROVE  Spec => []ShieldInv
<1>1. Init => Disabled /\ \A u \in Uid : UidInv(u)
  BY DEF Init, Disabled, UidInv, Alone, Underway, Settled, Collected, Shielded, Committing
<1>2. Types /\ Types' /\ ShieldInv /\ [Next]_vars => ShieldInv'
  <2> SUFFICES ASSUME Types, Types', ShieldInv, [Next]_vars PROVE ShieldInv'
    OBVIOUS
  <2> SUFFICES ASSUME NEW u \in Uid PROVE UidInv(u)'
    BY DisabledStep DEF ShieldInv
  <2>0. UidInv(u) /\ Disabled
    BY DEF ShieldInv
  <2>1. CASE Tick
    BY <2>0, <2>1, ShieldFrame DEF Tick
  <2>2. ASSUME NEW v \in Uid, NEW r \in Slot, ExternalEdit(v, r) PROVE UidInv(u)'
    BY <2>0, <2>2, ShieldFrame DEF ExternalEdit, marks
  <2>3. ASSUME NEW v \in Uid, Propagate(v) PROVE UidInv(u)'
    BY <2>0, <2>3, ShieldFrame DEF Propagate, marks
  <2>4. ASSUME NEW w \in Writer, NEW ops \in Ops, Save(w, ops) PROVE UidInv(u)'
    BY <2>0, <2>4 DEF Save, Types, UidInv, Alone, Underway, Settled, Collected, Shielded, Pending,
       InCommit, Committing, Touched, SyncWindow, cache, marks, cycle, history
  <2>5. ASSUME NEW w \in Writer, ToolStep(w) PROVE UidInv(u)'
    BY <2>0, <2>5, ShieldTool
  <2>6. CASE SyncStep
    BY <2>0, <2>6, ShieldSync
  <2>7. CASE Fault
    BY <2>0, <2>7, ShieldFault
  <2>8. CASE UNCHANGED vars
    BY <2>0, <2>8, ShieldFrame DEF vars, cache, tools, cycle, history
  <2> QED BY <2>1, <2>2, <2>3, <2>4, <2>5, <2>6, <2>7, <2>8 DEF Next
<1>3. Init /\ Types => ShieldInv
  BY <1>1 DEF ShieldInv
<1> QED BY <1>2, <1>3, TypesHold, PTL DEF Spec

\* While the mark of a completed, undisturbed commit stands, no cycle changes
\* what the tools read for that row, for any number of rows, tool calls and
\* failures.
THEOREM ShieldHolds ==
  ASSUME Reconcile = "replaceAll"
  PROVE  Spec => []Shield
<1>1. ShieldInv => Shield
  BY DEF ShieldInv, UidInv, Settled, Shield
<1> QED BY <1>1, ShieldInvHolds, PTL

\* And a restart at any moment finds that row on disk.
THEOREM DurableAckHolds ==
  ASSUME Reconcile = "replaceAll"
  PROVE  Spec => []DurableAck
<1>1. ShieldInv => DurableAck
  BY DEF ShieldInv, UidInv, Settled, DurableAck, View
<1> QED BY <1>1, ShieldInvHolds, PTL

\* A cycle clears the mark of such a row only when its list shows what the
\* commit wrote.
THEOREM ClearsOnlyConfirmedHolds ==
  ASSUME Reconcile = "replaceAll"
  PROVE  Spec => ClearsOnlyConfirmed
<1>1. ShieldInv /\ [Next]_vars =>
        [\A u \in Uid : SyncPuts /\ Shielded(u) /\ mark'[u] = "none" => raw[u] = committed[u]]_vars
  <2> SUFFICES ASSUME ShieldInv, NEW u \in Uid, SyncPuts, Shielded(u), mark'[u] = "none"
               PROVE  raw[u] = committed[u]
    OBVIOUS
  <2>1. u \in Observed
    BY DEF SyncPuts, ClearMarks, Shielded, Pending
  <2>2. seen[u] = committed[u]
    BY DEF ShieldInv, UidInv, Collected, SyncPuts
  <2> QED BY <2>1, <2>2 DEF Observed
<1> QED BY <1>1, ShieldInvHolds, PTL DEF Spec, ClearsOnlyConfirmed
=============================================================================
