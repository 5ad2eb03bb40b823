---------------------------- MODULE Server_proofs ----------------------------
(***************************************************************************)
(* What two services of a running server promise, that have no state in    *)
(* common: the driver that paces the syncs, and the registry of the OAuth  *)
(* clients and their grants.                                               *)
(***************************************************************************)
EXTENDS SyncDriver, Grants, FiniteSetTheorems, SequenceTheorems, TLAPS

(***************************************************************************)
(* The sync driver, its loop and the breaker, for every number of          *)
(* entities, recipes and tools and for all waits.                          *)
(*                                                                         *)
(* A step of the driver either leaves the loop alone or finishes a cycle;  *)
(* every proof below goes by that split and by the few other actions.      *)
(***************************************************************************)

\* The loop's counters, of the right type.
LoopType ==
  /\ phase \in {"cycle", "waiting", "exited"} /\ stage \in {"boot", "first", "looping"}
  /\ stopping \in BOOLEAN
  /\ pace \in [kind : {"steady", "converging"}, misses : Nat]
  /\ wait \in Nat /\ cool \in Nat /\ quick \in Nat

(***************************************************************************)
(* How far the miss count has got says how many quick cycles there were:   *)
(* one for each miss, and the one that runs.                               *)
(***************************************************************************)
QuickInv ==
  /\ pace.misses < MaxMisses
  /\ quick <= MaxMisses
  /\ pace.kind = "converging" => quick <= pace.misses + (IF phase = "cycle" THEN 1 ELSE 0)
  /\ stage = "boot" => quick = 0 /\ phase = "cycle"

\* A loop that has been stopped is past boot and does not wait.
StopInv == stopping => phase # "waiting" /\ stage # "boot"

\* The loop waits at least as long as a breaker that a cycle opened.
CoolInv ==
  /\ cool <= HalfOpenAfter
  /\ stage = "looping" /\ phase = "waiting" /\ breaker = "open" /\ opener = "sync" => cool <= wait

(***************************************************************************)
(* The steps, as the loop sees them.                                       *)
(***************************************************************************)

Cooled == cool' = cool \/ cool' = HalfOpenAfter

Outcome == {"ok", "core_partial", "core_aborted", "flush_failed"}

\* A driver step that finishes the cycle, and one that goes on with it.
Ends == phase = "cycle" /\ Cooled /\ \E outcome \in Outcome : Finish(outcome)
GoesOn == phase = "cycle" /\ Cooled /\ UNCHANGED loop

\* A step of the world or of a tool: no breaker opens as if by a cycle.
Elsewhere ==
  /\ Cooled /\ UNCHANGED loop
  /\ breaker' = "open" /\ opener' = "sync" => breaker = "open" /\ opener = "sync" /\ cool' = cool

\* What the breaker does with a request or an answer: it cools for the whole
\* time, or goes on cooling; and a tool's answer opens it in the tool's name.
LEMMA SettleCools ==
  ASSUME NEW x \in Endpoint, Settle(x)
  PROVE  /\ Cooled
         /\ x \in Tool /\ breaker' = "open" /\ opener' = "sync" =>
              breaker = "open" /\ opener = "sync" /\ cool' = cool
<1>1. CASE health[x] = "up"
  BY <1>1 DEF Settle, Close, Cooled
<1>2. CASE health[x] = "bad"
  BY <1>2 DEF Settle, Close, Cooled
<1>3. CASE health[x] \notin {"up", "bad"}
  BY <1>3 DEF Settle, Trip, Cooled
<1> QED BY <1>1, <1>2, <1>3

\* A request of the cycle that ends leaves the time to cool alone, or sets it to the whole of it.
LEMMA SettleCurrentCools ==
  ASSUME Settle(Current)
  PROVE  Cooled
<1>1. CASE health[Current] = "up"
  BY <1>1 DEF Settle, Close, Cooled
<1>2. CASE health[Current] = "bad"
  BY <1>2 DEF Settle, Close, Cooled
<1>3. CASE health[Current] \notin {"up", "bad"}
  BY <1>3 DEF Settle, Trip, Cooled
<1> QED BY <1>1, <1>2, <1>3

\* A reconcile's err finishes the cycle or leaves the loop alone.
LEMMA ErrEnds ==
  ASSUME NEW outcome \in Outcome, Err(outcome), phase = "cycle", Cooled
  PROVE  Ends \/ GoesOn
  BY DEF Err, Ends, GoesOn

\* A step of the driver ends the cycle, goes on with it, or starts one.
LEMMA DriverSteps ==
  ASSUME DriverStep
  PROVE  Ends \/ GoesOn \/ StartCycle
<1>1. CASE Request
  BY <1>1 DEF Request, Send, Reconciling, GoesOn, Cooled
<1>2. CASE RequestRejected
  BY <1>2, ErrEnds DEF RequestRejected, Reconciling, Cooled, circuit, Outcome
<1>3. CASE ListAnswer
  <2>1. UNCHANGED loop
    BY <1>3 DEF ListAnswer, Pass
  <2> QED BY <1>3, <2>1, SettleCurrentCools DEF ListAnswer, Reconciling, GoesOn
<1>4. CASE AnswerErr
  BY <1>4, ErrEnds, SettleCurrentCools DEF AnswerErr, Reconciling, Outcome
<1>5. ASSUME NEW r \in Recipe, Fetch(r)
      PROVE  GoesOn
  <2>1. cool' = cool
    BY <1>5 DEF Fetch, Send
  <2> QED BY <1>5, <2>1 DEF Fetch, Fetching, Reconciling, GoesOn, Cooled
<1>6. ASSUME NEW r \in Recipe, FetchRejected(r)
      PROVE  GoesOn
  BY <1>6 DEF FetchRejected, Fetching, Reconciling, GoesOn, Cooled, circuit
<1>7. ASSUME NEW r \in Recipe, FetchAnswer(r)
      PROVE  GoesOn
  <2>1. Cooled
    BY <1>7, SettleCools DEF FetchAnswer, Endpoint
  <2> QED BY <1>7, <2>1 DEF FetchAnswer, Fetching, Reconciling, GoesOn
<1>8. CASE FetchOk
  BY <1>8 DEF FetchOk, Pass, Settled, Fetching, Reconciling, GoesOn, Cooled, circuit
<1>9. CASE FetchPartial
  BY <1>9, ErrEnds DEF FetchPartial, Settled, Fetching, Reconciling, Cooled, circuit, Outcome
<1>10. CASE FetchErr
  BY <1>10, ErrEnds DEF FetchErr, Settled, Fetching, Reconciling, Cooled, circuit, Outcome
<1>11. CASE FlushAll
  BY <1>11 DEF FlushAll, Ends, Cooled, circuit, Outcome
<1>12. CASE FlushFail
  BY <1>12 DEF FlushFail, Ends, Cooled, circuit, Outcome
<1> QED BY <1>1, <1>2, <1>3, <1>4, <1>5, <1>6, <1>7, <1>8, <1>9, <1>10, <1>11, <1>12 DEF DriverStep

\* Every step has one of six forms.
LEMMA Steps ==
  ASSUME Next
  PROVE  Ends \/ GoesOn \/ StartCycle \/ Tick \/ Stop \/ Elsewhere
<1>1. ASSUME NEW h \in Weather, Shift(h)
      PROVE  Elsewhere
  BY <1>1 DEF Shift, Elsewhere, Cooled, circuit
<1>2. ASSUME NEW r \in Recipe, Edit(r)
      PROVE  Elsewhere
  BY <1>2 DEF Edit, Elsewhere, Cooled, circuit
<1>3. ASSUME NEW t \in Tool, ToolCall(t)
      PROVE  Elsewhere
  BY <1>3 DEF ToolCall, Send, Elsewhere, Cooled
<1>4. ASSUME NEW t \in Tool, ToolAnswer(t)
      PROVE  Elsewhere
  BY <1>4, SettleCools DEF ToolAnswer, Elsewhere, Endpoint
<1> QED BY <1>1, <1>2, <1>3, <1>4, DriverSteps DEF Next

USE PaceAssumption

\* The waits are ticks, and the fast one is no longer than the interval.
LEMMA Waits == FastWait \in Nat /\ FastWait <= Interval
  BY DEF FastWait

\* The loop's variables keep their types.
LEMMA LoopTypeHolds == Spec => []LoopType
<1>1. Init => LoopType
  <2>1. Init => pace \in [kind : {"steady", "converging"}, misses : Nat]
    BY DEF Init, BootPace, Converging
  <2>2. Init => stopping \in BOOLEAN
    BY Zenon DEF Init
  <2> QED BY <2>1, <2>2 DEF Init, LoopType
<1>2. LoopType /\ [Next]_vars => LoopType'
  <2> SUFFICES ASSUME LoopType, [Next]_vars PROVE LoopType'
    OBVIOUS
  <2>1. CASE Ends
    <3>1. PICK outcome \in Outcome : Finish(outcome)
      BY <2>1 DEF Ends
    <3>2. NextPace(pace, outcome) \in [kind : {"steady", "converging"}, misses : Nat]
      BY DEF NextPace, LoopType, Steady, Converging
    <3>3. pace' \in [kind : {"steady", "converging"}, misses : Nat] /\ wait' \in Nat
      BY <3>1, <3>2, Waits DEF Finish, LoopType
    <3> QED BY <2>1, <3>1, <3>3 DEF Ends, Finish, LoopType, Cooled
  <2>2. CASE GoesOn
    BY <2>2 DEF GoesOn, LoopType, loop, Cooled
  <2>3. CASE StartCycle
    BY <2>3 DEF StartCycle, LoopType, circuit
  <2>4. CASE Tick
    BY <2>4 DEF Tick, LoopType
  <2>5. CASE Stop
    BY <2>5 DEF Stop, LoopType, circuit
  <2>6. CASE Elsewhere
    BY <2>6 DEF Elsewhere, LoopType, loop, Cooled
  <2>7. CASE UNCHANGED vars
    BY <2>7 DEF vars, LoopType
  <2> QED BY <2>1, <2>2, <2>3, <2>4, <2>5, <2>6, <2>7, Steps
<1> QED BY <1>1, <1>2, PTL DEF Spec

(***************************************************************************)
(* QuickTries.                                                             *)
(***************************************************************************)

\* The quick cycles are bounded by the misses that the pace has counted.
LEMMA QuickInvHolds == Spec => []QuickInv
<1>1. Init => QuickInv
  BY DEF Init, QuickInv, BootPace, Converging
<1>2. LoopType /\ QuickInv /\ [Next]_vars => QuickInv'
  <2> SUFFICES ASSUME LoopType, QuickInv, [Next]_vars PROVE QuickInv'
    OBVIOUS
  <2> USE DEF QuickInv, LoopType
  <2>1. CASE Ends
    <3>1. PICK outcome \in Outcome : Finish(outcome)
      BY <2>1 DEF Ends
    <3>2. CASE stage = "boot"
      BY <3>1, <3>2 DEF Finish
    <3>3. CASE stage # "boot" /\ outcome \in {"ok", "core_partial"}
      BY <3>1, <3>3 DEF Finish, NextPace, Steady, Converging
    <3>4. CASE stage # "boot" /\ outcome \notin {"ok", "core_partial"}
      BY <2>1, <3>1, <3>4 DEF Ends, Finish, NextPace, Steady, Converging
    <3> QED BY <3>2, <3>3, <3>4
  <2>2. CASE GoesOn
    BY <2>2 DEF GoesOn, loop
  <2>3. CASE StartCycle
    BY <2>3 DEF StartCycle
  <2>4. CASE Tick
    BY <2>4 DEF Tick
  <2>5. CASE Stop
    BY <2>5 DEF Stop
  <2>6. CASE Elsewhere
    BY <2>6 DEF Elsewhere, loop
  <2>7. CASE UNCHANGED vars
    BY <2>7 DEF vars
  <2> QED BY <2>1, <2>2, <2>3, <2>4, <2>5, <2>6, <2>7, Steps
<1> QED BY <1>1, <1>2, LoopTypeHolds, PTL DEF Spec

\* However many failures there are and however long they last, and for every
\* MAX_CONVERGING_MISSES: between two cycles that made progress the loop begins
\* no more quick cycles than that (nextSyncPace, src/server/sync-loop.ts).
THEOREM QuickTriesHolds == Spec => []QuickTries
<1>1. QuickInv => QuickTries
  BY DEF QuickInv, QuickTries
<1> QED BY <1>1, QuickInvHolds, PTL

(***************************************************************************)
(* StopIsFinal.                                                            *)
(***************************************************************************)

\* A loop that has been stopped does not wait.
LEMMA StopInvHolds == Spec => []StopInv
<1>1. Init => StopInv
  BY DEF Init, StopInv
<1>2. QuickInv /\ StopInv /\ [Next]_vars => StopInv'
  <2> SUFFICES ASSUME QuickInv, StopInv, [Next]_vars PROVE StopInv'
    OBVIOUS
  <2>1. CASE Ends
    BY <2>1 DEF Ends, Finish, StopInv
  <2>2. CASE GoesOn
    BY <2>2 DEF GoesOn, loop, StopInv
  <2>3. CASE StartCycle
    BY <2>3 DEF StartCycle, StopInv
  <2>4. CASE Tick
    BY <2>4 DEF Tick, StopInv
  <2>5. CASE Stop
    BY <2>5 DEF Stop, StopInv
  <2>6. CASE Elsewhere
    BY <2>6 DEF Elsewhere, loop, StopInv
  <2>7. CASE UNCHANGED vars
    BY <2>7 DEF vars, StopInv
  <2> QED BY <2>1, <2>2, <2>3, <2>4, <2>5, <2>6, <2>7, Steps
<1> QED BY <1>1, <1>2, QuickInvHolds, PTL DEF Spec

\* Once stop() is called no cycle begins; the one that runs is the last
\* (runSyncLoop, src/server/sync-loop.ts).
THEOREM StopIsFinalHolds == Spec => StopIsFinal
<1>1. StopInv /\ [Next]_vars => [stopping /\ phase # "cycle" => phase' # "cycle"]_vars
  <2> SUFFICES ASSUME StopInv, Next, stopping, phase # "cycle" PROVE phase' # "cycle"
    OBVIOUS
  <2>1. CASE Ends
    BY <2>1 DEF Ends
  <2>2. CASE GoesOn
    BY <2>2 DEF GoesOn
  <2>3. CASE StartCycle
    BY <2>3 DEF StartCycle, StopInv
  <2>4. CASE Tick
    BY <2>4 DEF Tick
  <2>5. CASE Stop
    BY <2>5 DEF Stop
  <2>6. CASE Elsewhere
    BY <2>6 DEF Elsewhere, loop
  <2> QED BY <2>1, <2>2, <2>3, <2>4, <2>5, <2>6, Steps
<1> QED BY <1>1, StopInvHolds, PTL DEF Spec, StopIsFinal

(***************************************************************************)
(* FastFindsReady.                                                         *)
(***************************************************************************)

\* While the loop waits, the breaker has no more time left to cool than the loop has to wait.
LEMMA CoolInvHolds ==
  ASSUME HalfOpenAfter <= FastWait
  PROVE  Spec => []CoolInv
<1>1. Init => CoolInv
  BY DEF Init, CoolInv
<1>2. LoopType /\ CoolInv /\ [Next]_vars => CoolInv'
  <2> SUFFICES ASSUME LoopType, CoolInv, [Next]_vars PROVE CoolInv'
    OBVIOUS
  <2> USE DEF LoopType, CoolInv
  <2>1. CASE Ends
    <3>1. cool' <= HalfOpenAfter
      BY <2>1 DEF Ends, Cooled
    <3>2. stage' = "looping" => wait' \in {FastWait, Interval}
      BY <2>1 DEF Ends, Finish
    <3>3. stage' = "looping" => cool' <= wait'
      <4>1. cool' \in Nat
        BY <2>1 DEF Ends, Cooled
      <4> QED BY <3>1, <3>2, <4>1, Waits
    <3> QED BY <3>1, <3>3
  <2>2. CASE GoesOn
    BY <2>2 DEF GoesOn, loop, Cooled
  <2>3. CASE StartCycle
    BY <2>3 DEF StartCycle, circuit
  <2>4. CASE Tick
    BY <2>4 DEF Tick
  <2>5. CASE Stop
    BY <2>5 DEF Stop, circuit
  <2>6. CASE Elsewhere
    BY <2>6 DEF Elsewhere, loop, Cooled
  <2>7. CASE UNCHANGED vars
    BY <2>7 DEF vars
  <2> QED BY <2>1, <2>2, <2>3, <2>4, <2>5, <2>6, <2>7, Steps
<1> QED BY <1>1, <1>2, LoopTypeHolds, PTL DEF Spec

\* For every cool-down no longer than the fast wait, a cycle after the loop's
\* first is not turned away by a breaker that an earlier cycle opened
\* (PARTIAL_RETRY_MS, src/server/sync-loop.ts).
THEOREM FastFindsReadyHolds ==
  ASSUME HalfOpenAfter <= FastWait
  PROVE  Spec => []FastFindsReady
<1>1. LoopType /\ CoolInv => FastFindsReady
  BY DEF LoopType, CoolInv, FastFindsReady, Rejected
<1> QED BY <1>1, CoolInvHolds, LoopTypeHolds, PTL

(***************************************************************************)
(* The OAuth registry, for any clients, requests, lifetimes, caps and      *)
(* bounds.  The invariant says of each request, in each stage,             *)
(* what it may rely on while others run: which steps hold the lock, what   *)
(* became of the token that it rotates or of the tokens in its snapshot,   *)
(* and what is known of the record that it read.                           *)
(***************************************************************************)

USE GrantAssumption

(***************************************************************************)
(* The shape of a request.                                                 *)
(***************************************************************************)

Snapshot == [expired : SUBSET Token, seen : SUBSET ((1..MaxPairs) \cup Client), due : SUBSET Token]

TaskRecord ==
  [op : {"idle", "register", "update", "exchange", "rotate", "revoke", "delete", "sweep"},
   pc : {"idle", "put", "write", "flush", "access", "refresh", "read", "bump", "lock", "invalidate", "remove", "purge",
         "unregister", "next"},
   client : Client \cup {NoClient}, pair : 0..MaxPairs, new : 0..MaxPairs,
   read : SUBSET (ClientRecord \cup Snapshot), tokens : SUBSET Token, todo : SUBSET Client]

Minting == {"refresh", "read", "bump", "flush"}

\* The stages of each operation.
Staged(r) ==
  /\ \/ task[r].op = "idle" /\ task[r].pc = "idle"
     \/ task[r].op = "register" /\ task[r].pc \in {"put", "flush"}
     \/ task[r].op = "update" /\ task[r].pc \in {"write", "flush"}
     \/ task[r].op = "exchange" /\ task[r].pc \in {"access"} \cup Minting
     \/ task[r].op = "rotate" /\ task[r].pc \in {"lock", "invalidate", "access"} \cup Minting
     \/ task[r].op = "revoke" /\ task[r].pc \in {"lock", "remove"}
     \/ task[r].op = "delete" /\ task[r].pc \in {"lock", "purge", "unregister"}
     \/ task[r].op = "sweep" /\ task[r].pc \in {"next", "lock", "purge", "unregister"}
  /\ r = Cleanup <=> task[r].op = "sweep" \/ (r = Cleanup /\ task[r].op = "idle")
  /\ task[r].op = "idle" \/ task[r].pc = "next" \/ task[r].client \in Client

Granting(r) == task[r].op \in {"exchange", "rotate"}

\* A grant has its pair once the access token is minted, and hands it out at the end.
OwnPair(r) ==
  /\ task[r].new # 0 => /\ Granting(r) /\ task[r].pc \in Minting
                        /\ task[r].new \in 1..Len(pairs) /\ task[r].new \notin answered
                        /\ pairs[task[r].new].client = task[r].client
  /\ Granting(r) /\ task[r].pc \in Minting => task[r].new # 0
  /\ Granting(r) /\ task[r].pc = "refresh" => /\ ~pairs[task[r].new].whole
                                              /\ pairs[task[r].new].parent = task[r].pair
  /\ task[r].op = "exchange" => task[r].pair = 0

\* Who is past the lock holds it.
Locking(r) ==
  \/ task[r].pc \in {"invalidate", "remove", "purge"}
  \/ task[r].op = "rotate" /\ task[r].pc \in {"access"} \cup Minting
Mutex(r) == Locking(r) => lock = r

\* The refresh token that is rotated is good until it is invalidated, and has no heir till then.
OldPair(r) ==
  task[r].op = "rotate" =>
    LET old == <<task[r].pair, "refresh">>
    IN /\ task[r].pair \in 1..Len(pairs)
       /\ task[r].pc = "invalidate" => old \in kept /\ ~TokenExpired(old)
       /\ task[r].pc \in {"access"} \cup Minting => old \notin kept /\ pairs[task[r].pair].whole
       /\ task[r].pc = "access" => old \notin revoked /\ \A p \in 1..Len(pairs) : pairs[p].parent # task[r].pair

RecordOK(x) == x \in ClientRecord /\ x.uris # {} /\ x.uris \subseteq Permitted

\* The client's record, as it was read, and what may have become of it.
OwnRecord(r) ==
  /\ task[r].op = "update" \/ Granting(r) => task[r].client \in DOMAIN reg \cup gone
  /\ task[r].pc \in {"write", "bump"} => \A x \in task[r].read : RecordOK(x)
  /\ task[r].pc = "bump" /\ task[r].read = {} => task[r].client \in gone
  /\ Granting(r) /\ task[r].pc = "flush" =>
       \/ task[r].client \in slipped \cup gone
       \/ task[r].client \in DOMAIN reg /\ reg[task[r].client].idle = 0
  /\ task[r].op = "register" => task[r].client \notin answered

HasHeir(p) == \E q \in 1..Len(pairs) : pairs[q].parent = p
BeingRotated(p) == \E r \in Task : task[r].op = "rotate" /\ task[r].pc \in {"invalidate", "access"} /\ task[r].pair = p

\* A pair that is over: it has no token left, and will have no heir.
Dead(p) == /\ p \in 1..Len(pairs) /\ pairs[p].whole
           /\ \A kind \in Kind : <<p, kind>> \notin kept
           /\ ~HasHeir(p) /\ ~BeingRotated(p)

\* The tokens that a cascade has taken down.
Cascade(r) ==
  /\ \A t \in task[r].tokens : t[1] \in 1..Len(pairs) /\ (t[2] = "refresh" => pairs[t[1]].whole)
  /\ task[r].pc = "purge" =>
       \A t \in task[r].tokens :
         /\ Owner(t) = task[r].client
         /\ t[2] = "refresh" => /\ ~HasHeir(t[1])
                                /\ \A kind \in Kind : <<t[1], kind>> \in kept => <<t[1], kind>> \in task[r].tokens
  /\ task[r].pc = "unregister" => \A t \in task[r].tokens : t[2] = "refresh" => Dead(t[1])

\* The snapshot of a sweep: what it calls expired is, the grants of its stale clients are, and what
\* is due has gone, goes with a client, or goes at the end.
InHand(r, c) == c \in task[r].todo \/ (task[r].pc # "next" /\ c = task[r].client)
SnapshotRight(r) ==
  task[r].op = "sweep" =>
    \A x \in task[r].read :
      /\ x \in Snapshot
      /\ \A t \in x.expired : t[1] \in 1..Len(pairs) /\ TokenExpired(t)
      /\ \A p \in x.seen \ Client : /\ p \in 1..Len(pairs)
                                    /\ InHand(r, pairs[p].client) => \/ pairs[p].age > RefreshTTL
                                                                     \/ pairs[p].client \in slipped \cup gone
      /\ \A t \in x.due : /\ t[1] \in 1..Len(pairs)
                          /\ t[2] = "refresh" => pairs[t[1]].whole
                          /\ t \in x.expired \/ t \notin kept \/ Owner(t) \in task[r].todo
                          /\ Owner(t) = task[r].client /\ t \in kept =>
                               /\ task[r].pc = "purge" => t \in task[r].tokens
                               /\ task[r].pc = "unregister" => t \in x.expired

TaskInv(r) == /\ Staged(r) /\ OwnPair(r) /\ Mutex(r) /\ OldPair(r)
              /\ OwnRecord(r) /\ Cascade(r) /\ SnapshotRight(r)

(***************************************************************************)
(* What holds of the stores at any time.                                   *)
(***************************************************************************)

WithoutPair == {r \in Task : Granting(r) /\ task[r].new = 0}

Typed == /\ GrantTypeOK /\ task \in [Task -> TaskRecord]
         /\ IsFiniteSet(WithoutPair) /\ Len(pairs) + Cardinality(WithoutPair) <= MaxPairs

\* No two requests mint the same pair or register the same client.
Apart == \A r, q \in Task : r # q =>
           /\ task[r].new # 0 => task[r].new # task[q].new
           /\ task[r].op = "register" /\ task[q].op = "register" => task[r].client # task[q].client

\* The clients, in memory and on disk.
RegistryInv == /\ IsFiniteSet(DOMAIN reg) /\ ClientsCapped
               /\ \A c \in DOMAIN reg : RecordOK(reg[c])
               /\ \A c \in DOMAIN regDisk : RecordOK(regDisk[c])

\* The pairs: a refresh token was put before it is kept, and has left before it has an heir.
PairsInv == /\ \A p \in 1..Len(pairs) : /\ <<p, "refresh">> \in kept => pairs[p].whole
                                        /\ pairs[p].parent # 0 => /\ pairs[p].parent \in 1..Len(pairs)
                                                                  /\ <<pairs[p].parent, "refresh">> \notin kept
                                                                  /\ pairs[pairs[p].parent].whole
            /\ OneHeir
            /\ \A p \in cut : Dead(p)
            /\ \A t \in revoked : t[2] = "refresh" /\ t[1] \in 1..Len(pairs) /\ pairs[t[1]].whole /\ t \notin kept

DurableInv == AnsweredIsDurable /\ answered \cap Nat \subseteq 1..Len(pairs)

\* A client's last activity is no older than any grant that it was handed.
ActiveSince(records) ==
  \A p \in answered \cap (1..Len(pairs)) :
    LET c == pairs[p].client
    IN c \in DOMAIN records \ (slipped \cup gone) => records[c].idle <= pairs[p].age \/ pairs[p].age > RefreshTTL
ActivityInv == ActiveSince(reg) /\ ActiveSince(regDisk)

GrantInv == /\ Typed /\ Apart /\ RegistryInv /\ PairsInv /\ DurableInv /\ ActivityInv
            /\ \A r \in Task : TaskInv(r)

(***************************************************************************)
(* Types.                                                                  *)
(***************************************************************************)

PairRecord == [client : Client, parent : 0..MaxPairs, whole : BOOLEAN, age : 0..(RefreshTTL + 1)]

\* What a request does by itself: everything but the clock and a crash.
Acts(r) == \/ GrantStep(r)
           \/ r \in Req /\ RequestStarts(r)
           \/ r = Cleanup /\ SweepStep

\* A revocation that is answered at once.
NothingFound == \E p \in 1..Len(pairs), k \in Kind : RevokeUnknown(<<p, k>>)

\* An idle request is one, and does nothing.
LEMMA IdleTyped ==
  /\ Idle \in TaskRecord
  /\ Idle.op = "idle" /\ Idle.pc = "idle" /\ Idle.client = NoClient /\ Idle.pair = 0 /\ Idle.new = 0
  /\ Idle.read = {} /\ Idle.tokens = {} /\ Idle.todo = {}
BY DEF Idle, TaskRecord

\* The fields of a pair.
LEMMA PairTyped ==
  ASSUME GrantTypeOK
  PROVE  /\ Len(pairs) \in Nat /\ Len(pairs) <= MaxPairs /\ DOMAIN pairs = 1..Len(pairs)
         /\ \A p \in 1..Len(pairs) : /\ pairs[p] \in PairRecord /\ pairs[p].client \in Client
                                     /\ pairs[p].parent \in 0..MaxPairs
                                     /\ pairs[p].whole \in BOOLEAN /\ pairs[p].age \in 0..(RefreshTTL + 1)
         /\ \A t \in kept : t \in Token /\ t[1] \in 1..Len(pairs) /\ t[2] \in Kind /\ t = <<t[1], t[2]>>
         /\ \A p \in 1..Len(pairs), k \in Kind : <<p, k>> \in Token
<1>1. pairs \in Seq(PairRecord) /\ Len(pairs) <= MaxPairs /\ kept \subseteq (1..Len(pairs)) \X Kind
  BY DEF GrantTypeOK, PairRecord
<1>2. Len(pairs) \in Nat /\ DOMAIN pairs = 1..Len(pairs) /\ \A p \in 1..Len(pairs) : pairs[p] \in PairRecord
  BY <1>1, LenProperties, ElementOfSeq
<1>3. \A x \in PairRecord : x.client \in Client /\ x.parent \in 0..MaxPairs /\ x.whole \in BOOLEAN /\ x.age \in 0..(RefreshTTL + 1)
  BY DEF PairRecord
<1> QED BY <1>1, <1>2, <1>3 DEF Token

\* A request that starts is one.
LEMMA StartsTyped ==
  ASSUME GrantTypeOK, task \in [Task -> TaskRecord], NEW r \in Req, RequestStarts(r)
  PROVE  task' \in [Task -> TaskRecord] /\ GrantTypeOK'
<1> r \in Task
  BY DEF Task
<1>1. GrantTypeOK'
  BY DEF RequestStarts, StartRegister, StartUpdate, StartExchange, StartDelete, StartRotate, StartRevoke, GrantTypeOK, history
<1>2. ASSUME NEW c \in Client, StartRegister(r, c)
      PROVE  task' \in [Task -> TaskRecord]
  BY <1>2, IdleTyped DEF StartRegister, TaskRecord
<1>3. ASSUME NEW c \in Client, StartUpdate(r, c)
      PROVE  task' \in [Task -> TaskRecord] 
  <2>1. {reg[c]} \in SUBSET (ClientRecord \cup Snapshot)
    BY <1>3 DEF StartUpdate, GrantTypeOK
  <2> QED BY <1>3, <2>1, IdleTyped DEF StartUpdate, TaskRecord
<1>4. ASSUME NEW c \in Client, StartExchange(r, c)
      PROVE  task' \in [Task -> TaskRecord]
  BY <1>4, IdleTyped DEF StartExchange, TaskRecord
<1>5. ASSUME NEW c \in Client, StartDelete(r, c)
      PROVE  task' \in [Task -> TaskRecord]
  BY <1>5, IdleTyped DEF StartDelete, TaskRecord
<1>6. ASSUME NEW p \in 1..Len(pairs), StartRotate(r, p)
      PROVE  task' \in [Task -> TaskRecord] 
  <2>1. pairs[p].client \in Client /\ p \in 0..MaxPairs
    BY PairTyped
  <2> QED BY <1>6, <2>1, IdleTyped DEF StartRotate, TaskRecord
<1>7. ASSUME NEW p \in 1..Len(pairs), NEW k \in Kind, StartRevoke(r, <<p, k>>)
      PROVE  task' \in [Task -> TaskRecord] 
  <2>1. {<<p, k>>} \in SUBSET Token /\ Owner(<<p, k>>) \in Client
    BY PairTyped DEF Owner
  <2> QED BY <1>7, <2>1, IdleTyped DEF StartRevoke, TaskRecord
<1> QED BY <1>1, <1>2, <1>3, <1>4, <1>5, <1>6, <1>7 DEF RequestStarts

\* A record in the registry is one.
LEMMA RecordTyped ==
  ASSUME GrantTypeOK
  PROVE  /\ \A c \in DOMAIN reg : c \in Client /\ reg[c] \in ClientRecord
         /\ \A x \in ClientRecord : /\ [x EXCEPT !.idle = 0] \in ClientRecord
                                    /\ \A uris \in SUBSET Uri : [x EXCEPT !.uris = uris] \in ClientRecord
         /\ \A uris \in SUBSET Uri : [uris |-> uris, idle |-> 0] \in ClientRecord
<1>1. \A c \in DOMAIN reg : c \in Client /\ reg[c] \in ClientRecord
  BY DEF GrantTypeOK
<1>2. \A x \in ClientRecord : /\ [x EXCEPT !.idle = 0] \in ClientRecord
                              /\ \A uris \in SUBSET Uri : [x EXCEPT !.uris = uris] \in ClientRecord
  BY DEF ClientRecord
<1>3. \A uris \in SUBSET Uri : [uris |-> uris, idle |-> 0] \in ClientRecord
  BY DEF ClientRecord
<1> QED BY <1>1, <1>2, <1>3

\* A grant that has no pair yet has room for one.
LEMMA RoomForPair ==
  ASSUME Typed, NEW r \in Task, Granting(r), task[r].new = 0
  PROVE  Len(pairs) + 1 <= MaxPairs
<1>1. WithoutPair # {}
  BY DEF WithoutPair
<1>2. Cardinality(WithoutPair) \in Nat /\ Cardinality(WithoutPair) # 0
  BY <1>1, FS_CardinalityType, FS_EmptySet DEF Typed
<1>3. Len(pairs) \in Nat /\ MaxPairs \in Nat /\ Len(pairs) + Cardinality(WithoutPair) <= MaxPairs
  BY PairTyped DEF Typed
<1> QED BY <1>2, <1>3

\* The new pair: half of one, good for nothing yet.
LEMMA AccessMinted ==
  ASSUME Typed, NEW r \in Task, TaskInv(r), MintAccess(r)
  PROVE  /\ Granting(r) /\ task[r].new = 0
         /\ pairs' \in Seq(PairRecord) /\ Len(pairs') = Len(pairs) + 1 /\ Len(pairs') <= MaxPairs
         /\ \A p \in 1..Len(pairs) : pairs'[p] = pairs[p]
         /\ pairs'[Len(pairs) + 1].client = task[r].client /\ pairs'[Len(pairs) + 1].parent = task[r].pair
         /\ ~pairs'[Len(pairs) + 1].whole /\ pairs'[Len(pairs) + 1].age = 0
<1>1. task[r] \in TaskRecord
  BY DEF Typed
<1>2. Granting(r) /\ task[r].new = 0 /\ task[r].client \in Client
  BY DEF TaskInv, Staged, OwnPair, MintAccess, On, Granting, Minting
<1> DEFINE x == [client |-> task[r].client, parent |-> task[r].pair, whole |-> FALSE, age |-> 0]
<1>3. x \in PairRecord
  BY <1>1, <1>2 DEF PairRecord, TaskRecord
<1>4. pairs \in Seq(PairRecord)
  BY DEF Typed, GrantTypeOK, PairRecord
<1>5. pairs' = Append(pairs, x)
  BY DEF MintAccess
<1> HIDE DEF x
<1>6. /\ pairs' \in Seq(PairRecord) /\ Len(pairs') = Len(pairs) + 1
      /\ \A p \in 1..Len(pairs) : pairs'[p] = pairs[p]
      /\ pairs'[Len(pairs) + 1] = x
  BY <1>3, <1>4, <1>5, AppendProperties
<1>7. x.client = task[r].client /\ x.parent = task[r].pair /\ ~x.whole /\ x.age = 0
  BY DEF x
<1> QED BY <1>2, <1>6, <1>7, RoomForPair

\* Its other half.
LEMMA RefreshMinted ==
  ASSUME Typed, NEW r \in Task, TaskInv(r), MintRefresh(r)
  PROVE  /\ task[r].new \in 1..Len(pairs)
         /\ pairs' \in Seq(PairRecord) /\ Len(pairs') = Len(pairs)
         /\ \A p \in 1..Len(pairs) : /\ p # task[r].new => pairs'[p] = pairs[p]
                                     /\ pairs'[p].client = pairs[p].client /\ pairs'[p].parent = pairs[p].parent
                                     /\ pairs'[p].age = pairs[p].age
         /\ pairs'[task[r].new].whole
<1>1. task[r].new \in 1..Len(pairs)
  BY DEF TaskInv, Staged, OwnPair, MintRefresh, On, Granting, Minting
<1>2. pairs \in Seq(PairRecord) /\ pairs[task[r].new] \in PairRecord
  BY <1>1, PairTyped DEF Typed, GrantTypeOK, PairRecord
<1>3. [pairs[task[r].new] EXCEPT !.whole = TRUE] \in PairRecord
  BY <1>2 DEF PairRecord
<1>4. pairs' = [pairs EXCEPT ![task[r].new] = [pairs[task[r].new] EXCEPT !.whole = TRUE]]
  BY DEF MintRefresh
<1>5. pairs' \in Seq(PairRecord) /\ Len(pairs') = Len(pairs)
  BY <1>1, <1>2, <1>3, <1>4, ExceptSeq
<1>6. DOMAIN pairs = 1..Len(pairs)
  BY <1>2, LenProperties
<1> DEFINE put == [pairs[task[r].new] EXCEPT !.whole = TRUE]
<1>7. put.whole /\ put.client = pairs[task[r].new].client /\ put.parent = pairs[task[r].new].parent /\ put.age = pairs[task[r].new].age
  BY <1>2 DEF PairRecord
<1>8. \A p \in 1..Len(pairs) : /\ p # task[r].new => pairs'[p] = pairs[p]
                               /\ p = task[r].new => pairs'[p] = put
  BY <1>1, <1>4, <1>6
<1> HIDE DEF put
<1> QED BY <1>1, <1>5, <1>7, <1>8

\* The work of a request keeps the types.
LEMMA StepTyped ==
  ASSUME Typed, NEW r \in Task, TaskInv(r), GrantStep(r)
  PROVE  task' \in [Task -> TaskRecord] /\ GrantTypeOK'
<1> GrantTypeOK /\ task \in [Task -> TaskRecord]
  BY DEF Typed
<1>t. task[r] \in TaskRecord /\ Idle \in TaskRecord
  BY IdleTyped
<1>1. CASE Register(r)
  <2>1. task[r].client \in Client
    BY <1>1 DEF TaskInv, Staged, Register, At
  <2>2. \A c \in DOMAIN reg' : c \in Client /\ reg'[c] \in ClientRecord
    BY <1>1, <2>1, RecordTyped DEF Register
  <2>3. DOMAIN reg \subseteq DOMAIN reg'
    BY <1>1 DEF Register
  <2>4. task' \in [Task -> TaskRecord]
    BY <1>t, <1>1 DEF Register, Goto, Done, TaskRecord
  <2> QED BY <1>1, <2>2, <2>3, <2>4 DEF Register, history, GrantTypeOK
<1>2. CASE Update(r)
  <2>1. task[r].client \in Client /\ \A x \in task[r].read : x \in ClientRecord
    BY <1>2 DEF TaskInv, Staged, OwnRecord, RecordOK, Update, At
  <2>2. \A patch \in Patch : UNION patch \in SUBSET Uri
    BY DEF Patch
  <2>3. \A c \in DOMAIN reg' : c \in Client /\ reg'[c] \in ClientRecord
    <3> SUFFICES ASSUME NEW patch \in Patch, NEW old \in task[r].read,
                        reg' = [d \in DOMAIN reg \cup {task[r].client} |->
                            IF d # task[r].client THEN reg[d]
                            ELSE [old EXCEPT !.uris = IF patch = {} THEN @ ELSE UNION patch]]
                 PROVE \A c \in DOMAIN reg' : c \in Client /\ reg'[c] \in ClientRecord
      BY <1>2, RecordTyped DEF Update
    <3>1. [old EXCEPT !.uris = IF patch = {} THEN @ ELSE UNION patch] \in ClientRecord
      BY <2>1, <2>2 DEF ClientRecord
    <3> QED BY <2>1, <3>1, RecordTyped
  <2>4. DOMAIN reg \subseteq DOMAIN reg' /\ slipped' \subseteq Client
    BY <1>2, <2>1 DEF Update, GrantTypeOK
  <2>5. task' \in [Task -> TaskRecord]
    BY <1>t, <1>2 DEF Update, Goto, Done, TaskRecord
  <2> QED BY <1>2, <2>3, <2>4, <2>5 DEF Update, GrantTypeOK
<1>3. CASE MintAccess(r)
  <2>0. Len(pairs) \in Nat /\ Len(pairs') = Len(pairs) + 1 /\ Len(pairs') <= MaxPairs
    BY <1>3, AccessMinted, PairTyped
  <2>1. task' \in [Task -> TaskRecord]
    <3>1. Len(pairs) + 1 \in 0..MaxPairs
      BY <2>0
    <3> QED BY <1>t, <1>3, <3>1 DEF MintAccess, TaskRecord
  <2>2. kept' \subseteq (1..Len(pairs')) \X Kind /\ durable' \subseteq kept'
    <3>1. kept' = kept \cup {<<Len(pairs) + 1, "access">>} /\ durable' = durable
      BY <1>3 DEF MintAccess
    <3>2. <<Len(pairs) + 1, "access">> \in (1..Len(pairs')) \X Kind
      BY <2>0, PairTyped DEF Kind
    <3>3. kept \subseteq (1..Len(pairs')) \X Kind
      BY <2>0, PairTyped DEF Kind
    <3> QED BY <3>1, <3>2, <3>3 DEF GrantTypeOK
  <2> QED BY <1>3, <2>1, <2>2, AccessMinted DEF MintAccess, history, GrantTypeOK, PairRecord
<1>4. CASE MintRefresh(r)
  <2>1. task' \in [Task -> TaskRecord]
    BY <1>t, <1>4 DEF MintRefresh, Goto, TaskRecord
  <2>2. kept' \subseteq (1..Len(pairs')) \X Kind /\ durable' \subseteq kept'
    <3>1. kept' = kept \cup {<<task[r].new, "refresh">>} /\ durable' = durable
      BY <1>4 DEF MintRefresh
    <3>2. <<task[r].new, "refresh">> \in (1..Len(pairs')) \X Kind
      BY <1>4, RefreshMinted DEF Kind
    <3> QED BY <1>4, <3>1, <3>2, RefreshMinted DEF GrantTypeOK
  <2> QED BY <1>4, <2>1, <2>2, RefreshMinted DEF MintRefresh, history, GrantTypeOK, PairRecord
<1>5. CASE ReadActivity(r)
  <2>1. (IF task[r].client \in DOMAIN reg THEN {reg[task[r].client]} ELSE {}) \in SUBSET (ClientRecord \cup Snapshot)
    BY RecordTyped
  <2>2. task' \in [Task -> TaskRecord]
    BY <1>t, <1>5, <2>1 DEF ReadActivity, TaskRecord
  <2> QED BY <1>5, <2>2 DEF ReadActivity, history, GrantTypeOK
<1>6. CASE BumpActivity(r)
  <2>1. task[r].client \in Client /\ \A x \in task[r].read : x \in ClientRecord
    BY <1>6 DEF TaskInv, Staged, OwnRecord, RecordOK, BumpActivity, On
  <2>2. task[r].read # {} => (CHOOSE x \in task[r].read : TRUE) \in ClientRecord
    BY <2>1
  <2>3. \A c \in DOMAIN reg' : c \in Client /\ reg'[c] \in ClientRecord
    BY <1>6, <2>1, <2>2, RecordTyped DEF BumpActivity
  <2>4. DOMAIN reg \subseteq DOMAIN reg'
    BY <1>6 DEF BumpActivity
  <2>5. task' \in [Task -> TaskRecord]
    BY <1>t, <1>6 DEF BumpActivity, Goto, TaskRecord
  <2> QED BY <1>6, <2>3, <2>4, <2>5 DEF BumpActivity, history, GrantTypeOK
<1>7. CASE Flush(r) \/ FlushFails(r)
  <2>1. task' \in [Task -> TaskRecord] /\ lock' \in Task \cup {NoClient}
    BY <1>t, <1>7 DEF Flush, FlushFails, Done, Release, GrantTypeOK
  <2>2. On(r, "flush") => Answer(r) \subseteq (1..MaxPairs) \cup Client
    <3> SUFFICES ASSUME On(r, "flush")
                 PROVE  Answer(r) \subseteq (1..MaxPairs) \cup Client
      OBVIOUS
    <3>1. CASE task[r].op = "register"
      BY <3>1 DEF TaskInv, Staged, On, Answer
    <3>2. CASE task[r].op = "update"
      BY <3>2 DEF Answer
    <3>3. CASE Granting(r)
      BY <1>t, <3>3, PairTyped DEF TaskInv, OwnPair, Minting, On, Answer, Granting
    <3> QED BY <3>1, <3>2, <3>3 DEF TaskInv, Staged, On, Granting
  <2>3. CASE Flush(r)
    BY <2>1, <2>2, <2>3 DEF Flush, Flushed, GrantTypeOK
  <2>4. CASE FlushFails(r)
    BY <2>1, <2>4 DEF FlushFails, HalfFlushed, Fault, history, GrantTypeOK
  <2> QED BY <1>7, <2>3, <2>4
<1>8. CASE LockToRotate(r) \/ LockToRevoke(r) \/ LockToPurge(r)
  <2>1. OwnedBy(task[r].client) \in SUBSET Token
    BY PairTyped DEF OwnedBy
  <2>2. task' \in [Task -> TaskRecord]
    BY <1>t, <1>8, <2>1 DEF LockToRotate, LockToRevoke, LockToPurge, Goto, Done, TaskRecord
  <2>3. lock' \in Task \cup {NoClient}
    BY <1>8 DEF LockToRotate, LockToRevoke, LockToPurge, GrantTypeOK
  <2> QED BY <1>8, <2>2, <2>3 DEF LockToRotate, LockToRevoke, LockToPurge, history, GrantTypeOK
<1>9. CASE Invalidate(r) \/ Remove(r) \/ Purge(r)
  <2>0. lock' \in Task \cup {NoClient}
    BY <1>9 DEF Invalidate, Remove, Purge, Release, GrantTypeOK
  <2>1. task' \in [Task -> TaskRecord]
    BY <1>t, <1>9 DEF Invalidate, Remove, Purge, Done, Goto, TaskRecord
  <2>2. kept' \subseteq kept /\ durable' \subseteq kept' /\ regDisk' \in {regDisk, reg} /\ reg' = reg
    BY <1>9 DEF Invalidate, Remove, Purge, Dropped, Flushed, DropFails, GrantTypeOK
  <2>3. revoked' \subseteq Token /\ grantFaults' \in 0..MaxFaults
    BY <1>t, <1>9 DEF Invalidate, Remove, Purge, DropFails, Fault, history, TaskRecord, GrantTypeOK
  <2> QED BY <1>9, <2>0, <2>1, <2>2, <2>3 DEF Invalidate, Remove, Purge, history, GrantTypeOK
<1>10. CASE Unregister(r)
  <2>1. task' \in [Task -> TaskRecord]
    BY <1>t, <1>10 DEF Unregister, Done, TaskRecord
  <2>2. task[r].client \in Client /\ {t[1] : t \in {x \in task[r].tokens : x[2] = "refresh"}} \subseteq 1..MaxPairs
    BY <1>t, <1>10 DEF TaskInv, Staged, Unregister, On, TaskRecord, Token
  <2>3. DOMAIN reg' \subseteq Client /\ DOMAIN regDisk' \subseteq DOMAIN reg'
    BY <1>10 DEF Unregister, Restricted, Flushed, GrantTypeOK
  <2>4. /\ \A c \in DOMAIN reg' : reg'[c] \in ClientRecord
        /\ \A c \in DOMAIN regDisk' : regDisk'[c] \in ClientRecord
    BY <1>10 DEF Unregister, Restricted, Flushed, GrantTypeOK
  <2>5. kept' = kept /\ durable' \subseteq kept /\ cut' \subseteq 1..MaxPairs /\ gone' \subseteq Client /\ grantFaults' \in 0..MaxFaults
    BY SMTT(30), <1>10, <2>2 DEF Unregister, Flushed, Fault, GrantTypeOK
  <2> QED BY <1>10, <2>1, <2>3, <2>4, <2>5 DEF Unregister, GrantTypeOK
<1> QED BY <1>1, <1>2, <1>3, <1>4, <1>5, <1>6, <1>7, <1>8, <1>9, <1>10 DEF GrantStep

\* So does the sweep's.
LEMMA SweepTyped ==
  ASSUME Typed, TaskInv(Cleanup), SweepStep
  PROVE  task' \in [Task -> TaskRecord] /\ GrantTypeOK'
<1> GrantTypeOK /\ task \in [Task -> TaskRecord] /\ Cleanup \in Task
  BY DEF Typed, Task
<1>t. task[Cleanup] \in TaskRecord /\ Idle \in TaskRecord
  BY IdleTyped
<1>1. CASE SweepStarts
  <2> DEFINE snapshot == [expired |-> Orphans, seen |-> answered, due |-> {t \in kept : TokenExpired(t)}]
  <2>1. {snapshot} \in SUBSET (ClientRecord \cup Snapshot)
    <3>1. kept \subseteq Token /\ answered \subseteq (1..MaxPairs) \cup Client
      BY PairTyped DEF GrantTypeOK
    <3> QED BY <3>1 DEF Snapshot, Orphans
  <2>2. {c \in DOMAIN reg : Stale(c)} \in SUBSET Client
    BY DEF GrantTypeOK
  <2>3. task' = [task EXCEPT ![Cleanup] = [Idle EXCEPT !.op = "sweep", !.pc = "next", !.todo = {c \in DOMAIN reg : Stale(c)},
                                                  !.read = {snapshot}]]
    BY <1>1 DEF SweepStarts
  <2>4. task' \in [Task -> TaskRecord]
    <3>1. ASSUME NEW stale \in SUBSET Client, NEW read \in SUBSET (ClientRecord \cup Snapshot)
          PROVE  [Idle EXCEPT !.op = "sweep", !.pc = "next", !.todo = stale, !.read = read] \in TaskRecord
      BY <1>t DEF TaskRecord
    <3> HIDE DEF snapshot
    <3>2. [Idle EXCEPT !.op = "sweep", !.pc = "next", !.todo = {c \in DOMAIN reg : Stale(c)}, !.read = {snapshot}] \in TaskRecord
      BY <2>1, <2>2, <3>1, Zenon
    <3> QED BY <2>3, <3>2
  <2> QED BY <1>1, <2>4 DEF SweepStarts, history, GrantTypeOK
<1>2. CASE SweepNextClient
  <2>0. task[Cleanup].todo \subseteq Client
    BY <1>t DEF TaskRecord
  <2>1. task' \in [Task -> TaskRecord]
    <3>1. PICK c \in task[Cleanup].todo : task' = [task EXCEPT ![Cleanup].pc = "lock", ![Cleanup].client = c]
      BY <1>2 DEF SweepNextClient
    <3>2. c \in Client
      BY <2>0
    <3> QED BY <1>t, <3>1, <3>2 DEF TaskRecord
  <2> QED BY <1>2, <2>1 DEF SweepNextClient, history, GrantTypeOK
<1>3. CASE SweepOrphans
  <2>1. task' \in [Task -> TaskRecord]
    BY <1>t, <1>3 DEF SweepOrphans, Done
  <2>2. kept' \subseteq kept /\ durable' \subseteq kept' /\ regDisk' \in {regDisk, reg} /\ reg' = reg
    <3>1. CASE kept' = kept /\ Unflushed
      BY <1>3, <3>1 DEF SweepOrphans, Unflushed, GrantTypeOK
    <3>2. CASE \E S : Dropped(S) /\ Flushed
      BY <1>3, <3>2 DEF SweepOrphans, Dropped, Flushed
    <3>3. CASE \E S : DropFails(S)
      BY <1>3, <3>3 DEF SweepOrphans, DropFails, Dropped
    <3> QED BY <1>3, <3>1, <3>2, <3>3 DEF SweepOrphans, Dropped
  <2>3. grantFaults' \in 0..MaxFaults
    BY <1>3 DEF SweepOrphans, DropFails, Fault, GrantTypeOK
  <2> QED BY <1>3, <2>1, <2>2, <2>3 DEF SweepOrphans, history, GrantTypeOK
<1> QED BY <1>1, <1>2, <1>3 DEF SweepStep

\* Aging leaves the pairs what they are.
LEMMA TickProperties ==
  ASSUME Typed, GrantTick
  PROVE  /\ pairs' \in Seq(PairRecord) /\ Len(pairs') = Len(pairs)
         /\ \A p \in 1..Len(pairs) : /\ pairs'[p].client = pairs[p].client /\ pairs'[p].parent = pairs[p].parent
                                     /\ pairs'[p].whole = pairs[p].whole
                                     /\ pairs'[p].age = Aged(pairs[p].age, RefreshTTL)
         /\ DOMAIN reg' = DOMAIN reg /\ DOMAIN regDisk' = DOMAIN regDisk
         /\ \A c \in DOMAIN reg : /\ reg'[c] \in ClientRecord /\ reg'[c].uris = reg[c].uris
                                  /\ reg'[c].idle = Aged(reg[c].idle, StaleAfter)
         /\ \A c \in DOMAIN regDisk : /\ regDisk'[c] \in ClientRecord /\ regDisk'[c].uris = regDisk[c].uris
                                      /\ regDisk'[c].idle = Aged(regDisk[c].idle, StaleAfter)
<1> GrantTypeOK
  BY DEF Typed
<1> DEFINE OlderPair(x) == [x EXCEPT !.age = Aged(x.age, RefreshTTL)]
<1>1. \A p \in 1..Len(pairs) : pairs'[p] = OlderPair(pairs[p])
  BY PairTyped DEF GrantTick
<1>2. pairs' = [p \in 1..Len(pairs) |-> pairs'[p]]
  BY PairTyped DEF GrantTick
<1>3. \A x \in PairRecord : /\ OlderPair(x) \in PairRecord /\ OlderPair(x).age = Aged(x.age, RefreshTTL)
                            /\ OlderPair(x).client = x.client /\ OlderPair(x).parent = x.parent /\ OlderPair(x).whole = x.whole
  <2>1. \A age \in 0..(RefreshTTL + 1) : Aged(age, RefreshTTL) \in 0..(RefreshTTL + 1)
    BY DEF Aged
  <2> QED BY <2>1 DEF PairRecord
<1> HIDE DEF OlderPair
<1>4. pairs' \in Seq(PairRecord) /\ Len(pairs') = Len(pairs)
  <2> HIDE DEF PairRecord
  <2>0. \A p \in 1..Len(pairs) : pairs[p] \in PairRecord
    BY PairTyped
  <2>1. \A p \in 1..Len(pairs) : pairs'[p] \in PairRecord
    BY <1>1, <1>3, <2>0
  <2>2. Len(pairs) \in Nat
    BY PairTyped
  <2> QED BY SMTT(30), <1>2, <2>1, <2>2
<1>5. \A p \in 1..Len(pairs) : /\ pairs'[p].client = pairs[p].client /\ pairs'[p].parent = pairs[p].parent
                               /\ pairs'[p].whole = pairs[p].whole
                               /\ pairs'[p].age = Aged(pairs[p].age, RefreshTTL)
  BY <1>1, <1>3, PairTyped
<1> DEFINE OlderRecord(x) == [x EXCEPT !.idle = Aged(x.idle, StaleAfter)]
<1>6. \A x \in ClientRecord : /\ OlderRecord(x) \in ClientRecord /\ OlderRecord(x).uris = x.uris
                              /\ OlderRecord(x).idle = Aged(x.idle, StaleAfter)
  BY DEF ClientRecord, Aged
<1>7. /\ \A c \in DOMAIN reg : reg[c] \in ClientRecord
      /\ \A c \in DOMAIN regDisk : regDisk[c] \in ClientRecord
  BY DEF GrantTypeOK
<1>8. /\ DOMAIN reg' = DOMAIN reg /\ DOMAIN regDisk' = DOMAIN regDisk
      /\ \A c \in DOMAIN reg : reg'[c] = OlderRecord(reg[c])
      /\ \A c \in DOMAIN regDisk : regDisk'[c] = OlderRecord(regDisk[c])
  BY DEF GrantTick
<1> HIDE DEF OlderRecord
<1>9. /\ \A c \in DOMAIN reg : /\ reg'[c] \in ClientRecord /\ reg'[c].uris = reg[c].uris
                               /\ reg'[c].idle = Aged(reg[c].idle, StaleAfter)
      /\ \A c \in DOMAIN regDisk : /\ regDisk'[c] \in ClientRecord /\ regDisk'[c].uris = regDisk[c].uris
                                   /\ regDisk'[c].idle = Aged(regDisk[c].idle, StaleAfter)
  BY <1>6, <1>7, <1>8
<1> QED BY <1>4, <1>5, <1>8, <1>9

\* The clock and a crash keep the types.
LEMMA QuietTyped ==
  ASSUME Typed, GrantTick \/ GrantCrash
  PROVE  task' \in [Task -> TaskRecord] /\ GrantTypeOK'
<1> GrantTypeOK
  BY DEF Typed
<1>1. CASE GrantTick
  BY <1>1, TickProperties DEF GrantTick, Typed, history, GrantTypeOK, PairRecord
<1>2. CASE GrantCrash
  BY <1>2, IdleTyped DEF GrantCrash, Fault, history, GrantTypeOK
<1> QED BY <1>1, <1>2

\* A request's step is its own.
LEMMA OthersStay ==
  ASSUME Typed, NEW r \in Task, Acts(r)
  PROVE  /\ \A q \in Task \ {r} : task'[q] = task[q] /\ (lock = q => lock' = q)
         /\ lock # lock' => lock = NoClient \/ lock = r
<1>t. task \in [Task -> TaskRecord] /\ NoClient \notin Task
  BY DEF Typed, Task
<1>1. CASE GrantStep(r)
  <2>1. \A q \in Task \ {r} : task'[q] = task[q]
    BY <1>t, <1>1 DEF GrantStep, Register, Update, MintAccess, MintRefresh, ReadActivity, BumpActivity, Flush, FlushFails,
      LockToRotate, LockToRevoke, LockToPurge, Invalidate, Remove, Purge, Unregister, Goto, Done
  <2>2. lock' # lock => lock = NoClient \/ lock = r
    BY <1>1 DEF GrantStep, Register, Update, MintAccess, MintRefresh, ReadActivity, BumpActivity, Flush, FlushFails,
      LockToRotate, LockToRevoke, LockToPurge, Invalidate, Remove, Purge, Unregister, Release, Unlocked
  <2> QED BY <1>t, <2>1, <2>2
<1>2. CASE RequestStarts(r)
  BY <1>t, <1>2 DEF RequestStarts, StartRegister, StartUpdate, StartExchange, StartDelete, StartRotate, StartRevoke
<1>3. CASE r = Cleanup /\ SweepStep
  BY <1>t, <1>3 DEF SweepStep, SweepStarts, SweepNextClient, SweepOrphans, Done
<1> QED BY <1>1, <1>2, <1>3 DEF Acts

\* A request that starts has these fields.
LEMMA RequestStarted ==
  ASSUME Typed, NEW r \in Req, RequestStarts(r)
  PROVE  /\ UNCHANGED <<reg, regDisk, pairs, kept, durable, lock, answered, revoked, gone, cut, slipped>>
         /\ task[r].pc = "idle" /\ task'[r].new = 0
         /\ task'[r].client \in Client
         /\ task'[r].op # "register" => task'[r].client \in DOMAIN reg
         /\ \/ /\ task'[r].op = "register" /\ task'[r].pc = "put" /\ task'[r].tokens = {}
               /\ task'[r].client \notin answered /\ \A q \in Task : task[q].client # task'[r].client
            \/ /\ task'[r].op = "update" /\ task'[r].pc = "write" /\ task'[r].tokens = {}
               /\ task'[r].read = {reg[task'[r].client]}
            \/ /\ task'[r].op = "exchange" /\ task'[r].pc = "access" /\ task'[r].tokens = {} /\ task'[r].pair = 0 /\ PairLeft
            \/ /\ task'[r].op = "rotate" /\ task'[r].pc = "lock" /\ task'[r].tokens = {} /\ PairLeft
               /\ task'[r].pair \in 1..Len(pairs)
            \/ /\ task'[r].op = "revoke" /\ task'[r].pc = "lock" /\ task'[r].tokens \subseteq kept
            \/ /\ task'[r].op = "delete" /\ task'[r].pc = "lock" /\ task'[r].tokens = {}
<1>0. /\ task \in [Task -> TaskRecord] /\ GrantTypeOK /\ r \in Task /\ Idle \in TaskRecord
  BY IdleTyped DEF Typed, Task
<1>1. /\ UNCHANGED <<reg, regDisk, pairs, kept, durable, lock, answered, revoked, gone, cut, slipped>>
      /\ task[r].pc = "idle"
  BY DEF RequestStarts, StartRegister, StartUpdate, StartExchange, StartDelete, StartRotate, StartRevoke, history, On
<1>2. ASSUME NEW c \in Client, StartRegister(r, c)
      PROVE  /\ task'[r].op = "register" /\ task'[r].pc = "put" /\ task'[r].tokens = {} /\ task'[r].new = 0
             /\ task'[r].client = c /\ c \notin answered /\ \A q \in Task : task[q].client # c
  BY <1>0, <1>2, IdleTyped DEF StartRegister, TaskRecord
<1>3. ASSUME NEW c \in Client, StartUpdate(r, c)
      PROVE  /\ task'[r].op = "update" /\ task'[r].pc = "write" /\ task'[r].tokens = {} /\ task'[r].new = 0
             /\ task'[r].client = c /\ c \in DOMAIN reg /\ task'[r].read = {reg[c]}
  BY <1>0, <1>3, IdleTyped DEF StartUpdate, TaskRecord
<1>4. ASSUME NEW c \in Client, StartExchange(r, c)
      PROVE  /\ task'[r].op = "exchange" /\ task'[r].pc = "access" /\ task'[r].tokens = {} /\ task'[r].new = 0
             /\ task'[r].client = c /\ c \in DOMAIN reg /\ task'[r].pair = 0 /\ PairLeft
  BY <1>0, <1>4, IdleTyped DEF StartExchange, TaskRecord
<1>5. ASSUME NEW c \in Client, StartDelete(r, c)
      PROVE  /\ task'[r].op = "delete" /\ task'[r].pc = "lock" /\ task'[r].tokens = {} /\ task'[r].new = 0
             /\ task'[r].client = c /\ c \in DOMAIN reg
  BY <1>0, <1>5, IdleTyped DEF StartDelete, TaskRecord
<1>6. ASSUME NEW p \in 1..Len(pairs), StartRotate(r, p)
      PROVE  /\ task'[r].op = "rotate" /\ task'[r].pc = "lock" /\ task'[r].tokens = {} /\ task'[r].new = 0
             /\ task'[r].client = pairs[p].client /\ pairs[p].client \in DOMAIN reg /\ task'[r].pair = p /\ PairLeft
  BY <1>0, <1>6, IdleTyped DEF StartRotate, TaskRecord
<1>7. ASSUME NEW p \in 1..Len(pairs), NEW k \in Kind, StartRevoke(r, <<p, k>>)
      PROVE  /\ task'[r].op = "revoke" /\ task'[r].pc = "lock" /\ task'[r].tokens \subseteq kept /\ task'[r].new = 0
             /\ task'[r].client = Owner(<<p, k>>) /\ Owner(<<p, k>>) \in DOMAIN reg
  BY <1>0, <1>7, IdleTyped DEF StartRevoke, TaskRecord
<1>8. DOMAIN reg \subseteq Client
  BY <1>0 DEF GrantTypeOK
<1> QED
  <2>1. CASE \E c \in Client : StartRegister(r, c) \/ StartUpdate(r, c) \/ StartExchange(r, c) \/ StartDelete(r, c)
    BY <1>1, <1>2, <1>3, <1>4, <1>5, <1>8, <2>1
  <2>2. CASE \E p \in 1..Len(pairs) : StartRotate(r, p)
    BY <1>1, <1>6, <1>8, <2>2
  <2>3. CASE \E p \in 1..Len(pairs), k \in Kind : StartRevoke(r, <<p, k>>)
    BY <1>1, <1>7, <1>8, <2>3
  <2> QED BY <2>1, <2>2, <2>3 DEF RequestStarts

\* What a sweep that starts has seen.
LEMMA SweepStarted ==
  ASSUME Typed, SweepStarts
  PROVE  /\ UNCHANGED <<reg, regDisk, pairs, kept, durable, lock, answered, revoked, gone, cut, slipped>>
         /\ task[Cleanup].pc = "idle" /\ task'[Cleanup].op = "sweep" /\ task'[Cleanup].pc = "next"
         /\ task'[Cleanup].new = 0 /\ task'[Cleanup].tokens = {} /\ task'[Cleanup].todo = {c \in DOMAIN reg : Stale(c)}
         /\ task'[Cleanup].read = {[expired |-> Orphans, seen |-> answered, due |-> {t \in kept : TokenExpired(t)}]}
BY IdleTyped DEF SweepStarts, Typed, Task, TaskRecord, history, Ready, On

\* The bound on pairs is kept: a grant that starts finds one left.
LEMMA CountKept ==
  ASSUME Typed, NEW r \in Task, TaskInv(r), Acts(r)
  PROVE  IsFiniteSet(WithoutPair') /\ Len(pairs') + Cardinality(WithoutPair') <= MaxPairs
<1>0. /\ task \in [Task -> TaskRecord] /\ task[r] \in TaskRecord /\ GrantTypeOK /\ Len(pairs) \in Nat
      /\ IsFiniteSet(WithoutPair) /\ Cardinality(WithoutPair) \in Nat /\ Len(pairs) + Cardinality(WithoutPair) <= MaxPairs
  BY PairTyped, FS_CardinalityType DEF Typed
<1>1. \A q \in Task \ {r} : task'[q] = task[q]
  BY OthersStay
<1>2. WithoutPair' \subseteq WithoutPair \cup {r}
  BY <1>1 DEF WithoutPair, Granting
<1>3. ASSUME Len(pairs') = Len(pairs), WithoutPair' \subseteq WithoutPair
      PROVE  IsFiniteSet(WithoutPair') /\ Len(pairs') + Cardinality(WithoutPair') <= MaxPairs
  <2>1. IsFiniteSet(WithoutPair') /\ Cardinality(WithoutPair') <= Cardinality(WithoutPair)
    BY <1>0, <1>3, FS_Subset
  <2>2. Cardinality(WithoutPair') \in Nat
    BY <2>1, FS_CardinalityType
  <2> QED BY <1>0, <1>3, <2>1, <2>2
<1>4. CASE MintAccess(r)
  <2>1. Len(pairs') = Len(pairs) + 1 /\ r \in WithoutPair
    BY <1>4, AccessMinted DEF WithoutPair
  <2>2. task'[r].new = Len(pairs) + 1
    BY <1>0, <1>4 DEF MintAccess, TaskRecord
  <2>3. r \notin WithoutPair'
    BY <1>0, <2>2 DEF WithoutPair
  <2>4. WithoutPair' \subseteq WithoutPair \ {r}
    BY <1>2, <2>3
  <2>5. IsFiniteSet(WithoutPair \ {r}) /\ Cardinality(WithoutPair \ {r}) = Cardinality(WithoutPair) - 1
    BY <1>0, <2>1, FS_RemoveElement
  <2>6. IsFiniteSet(WithoutPair') /\ Cardinality(WithoutPair') <= Cardinality(WithoutPair \ {r})
    BY <2>4, <2>5, FS_Subset
  <2>7. Cardinality(WithoutPair') \in Nat
    BY <2>6, FS_CardinalityType
  <2> QED BY <1>0, <2>1, <2>5, <2>6, <2>7
<1>5. CASE GrantStep(r) /\ ~MintAccess(r)
  <2>1. Len(pairs') = Len(pairs)
    <3>1. CASE MintRefresh(r)
      BY <3>1, RefreshMinted
    <3>2. CASE pairs' = pairs
      BY <3>2
    <3> QED BY <1>5, <3>1, <3>2 DEF GrantStep, Register, Update, ReadActivity, BumpActivity, Flush, FlushFails,
      LockToRotate, LockToRevoke, LockToPurge, Invalidate, Remove, Purge, Unregister
  <2>2. (task'[r].op = task[r].op /\ task'[r].new = task[r].new) \/ task'[r].op \in {"idle", "delete", "sweep"}
    BY SMTT(30), <1>0, <1>5, IdleTyped DEF GrantStep, Register, Update, MintRefresh, ReadActivity, BumpActivity, Flush, FlushFails,
      LockToRotate, LockToRevoke, LockToPurge, Invalidate, Remove, Purge, Unregister, Goto, Done, TaskRecord
  <2>3. WithoutPair' \subseteq WithoutPair
    BY <1>2, <2>2 DEF WithoutPair, Granting
  <2> QED BY <1>3, <2>1, <2>3
<1>6. CASE r \in Req /\ RequestStarts(r)
  <2>1. pairs' = pairs
    BY <1>6 DEF RequestStarts, StartRegister, StartUpdate, StartExchange, StartDelete, StartRotate, StartRevoke
  <2>2. CASE PairLeft
    <3>1. Len(pairs) + Cardinality(WithoutPair) < MaxPairs
      BY <2>2 DEF PairLeft, WithoutPair, Granting
    <3>2. /\ IsFiniteSet(WithoutPair \cup {r})
          /\ \/ Cardinality(WithoutPair \cup {r}) = Cardinality(WithoutPair)
             \/ Cardinality(WithoutPair \cup {r}) = Cardinality(WithoutPair) + 1
      BY <1>0, FS_AddElement
    <3>3. IsFiniteSet(WithoutPair') /\ Cardinality(WithoutPair') <= Cardinality(WithoutPair \cup {r})
      BY <1>2, <3>2, FS_Subset
    <3>4. Cardinality(WithoutPair') \in Nat
      BY <3>3, FS_CardinalityType
    <3> QED BY <1>0, <2>1, <3>1, <3>2, <3>3, <3>4
  <2>3. CASE ~PairLeft
    <3>1. task'[r].op \in {"register", "update", "delete", "revoke"}
      BY <1>6, <2>3, RequestStarted
    <3> QED BY <1>2, <1>3, <2>1, <3>1 DEF WithoutPair, Granting
  <2> QED BY <2>2, <2>3
<1>7. CASE r = Cleanup /\ SweepStep
  <2>1. pairs' = pairs
    BY <1>7 DEF SweepStep, SweepStarts, SweepNextClient, SweepOrphans
  <2>2. task'[r].op \in {"idle", "sweep"}
    <3>1. CASE SweepStarts
      BY <1>7, <3>1, SweepStarted
    <3>2. CASE SweepNextClient
      BY <1>0, <1>7, <3>2 DEF SweepNextClient, At, TaskRecord
    <3>3. CASE SweepOrphans
      BY <1>0, <1>7, <3>3, IdleTyped DEF SweepOrphans, Done
    <3> QED BY <1>7, <3>1, <3>2, <3>3 DEF SweepStep
  <2> QED BY <1>2, <1>3, <2>1, <2>2 DEF WithoutPair, Granting
<1> QED BY <1>4, <1>5, <1>6, <1>7 DEF Acts

\* Every step keeps the types.
LEMMA TypedStep ==
  ASSUME Typed, \A r \in Task : TaskInv(r), [GrantNext]_grantVars
  PROVE  Typed'
<1>1. CASE \E r \in Task : Acts(r)
  BY <1>1, CountKept, StartsTyped, StepTyped, SweepTyped DEF Acts, Typed
<1>2. CASE GrantTick \/ GrantCrash
  <2>1. task' \in [Task -> TaskRecord] /\ GrantTypeOK'
    BY <1>2, QuietTyped
  <2>2. /\ WithoutPair' = {}
        /\ Len(pairs') = Len(pairs)
    <3>1. CASE GrantTick
      <4>1. \A r \in Task : task'[r] = task[r] /\ ~Granting(r)
        BY <3>1 DEF GrantTick, Granting, On, TaskInv, Staged, Minting
      <4> QED BY <3>1, <4>1, TickProperties DEF WithoutPair, Granting
    <3>2. CASE GrantCrash
      BY <3>2, IdleTyped DEF GrantCrash, WithoutPair, Granting
    <3> QED BY <1>2, <3>1, <3>2
  <2> QED BY <2>1, <2>2, PairTyped, FS_EmptySet DEF Typed
<1>3. CASE UNCHANGED grantVars \/ NothingFound
  BY <1>3 DEF grantVars, NothingFound, RevokeUnknown, history, Typed, GrantTypeOK, WithoutPair, Granting
<1> QED BY <1>1, <1>2, <1>3 DEF GrantNext, NothingFound, Acts, Task

(***************************************************************************)
(* What one request may meet of another's step.                            *)
(***************************************************************************)

AboutToRotate(r, p) == task[r].op = "rotate" /\ task[r].pc = "access" /\ task[r].pair = p

PairsGrow(r) ==
  /\ Len(pairs) <= Len(pairs')
  /\ \A p \in 1..Len(pairs) :
       /\ pairs'[p].client = pairs[p].client /\ pairs'[p].parent = pairs[p].parent /\ pairs'[p].age = pairs[p].age
       /\ pairs[p].whole => pairs'[p].whole
       /\ p # task[r].new => pairs'[p].whole = pairs[p].whole
  /\ \A p \in (Len(pairs) + 1)..Len(pairs') :
       /\ p = Len(pairs) + 1 /\ ~pairs'[p].whole
       /\ pairs'[p].parent # 0 => AboutToRotate(r, pairs'[p].parent)

TokensMove(r) ==
  /\ \A t \in kept' \ kept :
       \/ t = <<Len(pairs) + 1, "access">> /\ Len(pairs') = Len(pairs) + 1
       \/ t = <<task[r].new, "refresh">> /\ task[r].pc = "refresh" /\ pairs'[task[r].new].whole
  /\ \A t \in kept \ kept' : lock = r \/ TokenExpired(t)

HistoryGrows(r) ==
  /\ answered \subseteq answered' /\ gone \subseteq gone' /\ slipped \subseteq slipped'
  /\ \A x \in answered' \ answered : \/ task[r].op = "register" /\ x = task[r].client
                                     \/ task[r].new # 0 /\ x = task[r].new
  /\ revoked' # revoked => lock = r

RegistryMoves ==
  /\ DOMAIN reg \subseteq DOMAIN reg' \cup gone'
  /\ \A c \in DOMAIN reg' : \/ c \in slipped' \cup gone'
                            \/ reg'[c].idle = 0
                            \/ c \in DOMAIN reg /\ reg'[c].idle <= reg[c].idle

\* A pair is added, or its refresh token put; nothing else of the pairs changes.
LEMMA PairsOnlyGrow ==
  ASSUME Typed, NEW r \in Task, TaskInv(r), Acts(r)
  PROVE  PairsGrow(r) /\ (~(MintAccess(r) \/ MintRefresh(r)) => pairs' = pairs)
<1> GrantTypeOK
  BY DEF Typed
<1>1. CASE MintAccess(r)
  <2>1. Len(pairs) \in Nat /\ Len(pairs') = Len(pairs) + 1
    BY <1>1, AccessMinted, PairTyped
  <2>2. \A p \in 1..Len(pairs) : pairs'[p] = pairs[p]
    BY <1>1, AccessMinted
  <2>3. ~pairs'[Len(pairs) + 1].whole /\ pairs'[Len(pairs) + 1].parent = task[r].pair
    BY <1>1, AccessMinted
  <2>4. task[r].pair # 0 => AboutToRotate(r, task[r].pair)
    BY <1>1 DEF MintAccess, On, AboutToRotate, TaskInv, Staged, OwnPair, Minting
  <2> QED BY <1>1, <2>1, <2>2, <2>3, <2>4 DEF PairsGrow
<1>2. CASE MintRefresh(r)
  <2>1. Len(pairs) \in Nat /\ Len(pairs') = Len(pairs) /\ \A p \in 1..Len(pairs) : pairs[p] \in PairRecord
    BY <1>2, RefreshMinted, PairTyped
  <2>2. \A p \in 1..Len(pairs) : p # task[r].new => pairs'[p] = pairs[p]
    BY <1>2, RefreshMinted
  <2>5. \A p \in 1..Len(pairs) :
          /\ pairs'[p].client = pairs[p].client /\ pairs'[p].parent = pairs[p].parent /\ pairs'[p].age = pairs[p].age
          /\ pairs[p].whole => pairs'[p].whole
          /\ p # task[r].new => pairs'[p].whole = pairs[p].whole
    BY <1>2, RefreshMinted
  <2> QED BY <1>2, <2>1, <2>5 DEF PairsGrow
<1>3. CASE ~(MintAccess(r) \/ MintRefresh(r))
  <2>1. pairs' = pairs
    BY <1>3 DEF Acts, GrantStep, Register, Update, ReadActivity, BumpActivity, Flush, FlushFails,
      LockToRotate, LockToRevoke, LockToPurge, Invalidate, Remove, Purge, Unregister,
      RequestStarts, StartRegister, StartUpdate, StartExchange, StartDelete, StartRotate, StartRevoke,
      SweepStep, SweepStarts, SweepNextClient, SweepOrphans
  <2> QED BY <2>1, PairTyped DEF PairsGrow
<1> QED BY <1>1, <1>2, <1>3

\* A token that comes is of a grant that is not over; one that goes is taken under the lock, or expired.
LEMMA TokensOnlyMove ==
  ASSUME Typed, NEW r \in Task, TaskInv(r), Acts(r)
  PROVE  TokensMove(r)
<1> GrantTypeOK
  BY DEF Typed
<1>1. CASE MintAccess(r)
  BY <1>1, AccessMinted DEF MintAccess, TokensMove
<1>2. CASE MintRefresh(r)
  BY <1>2, RefreshMinted DEF MintRefresh, On, TokensMove
<1>3. CASE Invalidate(r) \/ Remove(r) \/ Purge(r)
  <2>1. lock = r
    BY <1>3 DEF TaskInv, Mutex, Locking, Invalidate, Remove, Purge, On
  <2>2. kept' \subseteq kept
    BY <1>3 DEF Invalidate, Remove, Purge, Dropped, DropFails
  <2> QED BY <2>1, <2>2 DEF TokensMove
<1>4. CASE r = Cleanup /\ SweepOrphans
  <2>1. \A t \in UNION {x.expired : x \in task[Cleanup].read} : TokenExpired(t)
    BY <1>4 DEF SweepOrphans, At, TaskInv, SnapshotRight
  <2>2. kept' \subseteq kept /\ kept \ kept' \subseteq UNION {x.expired : x \in task[Cleanup].read}
    BY <1>4 DEF SweepOrphans, Dropped, DropFails
  <2> QED BY <2>1, <2>2 DEF TokensMove
<1>5. CASE kept' = kept
  BY <1>5 DEF TokensMove
<1> QED BY <1>1, <1>2, <1>3, <1>4, <1>5 DEF Acts, GrantStep, Register, Update, ReadActivity, BumpActivity, Flush, FlushFails,
      LockToRotate, LockToRevoke, LockToPurge, Unregister,
      RequestStarts, StartRegister, StartUpdate, StartExchange, StartDelete, StartRotate, StartRevoke,
      SweepStep, SweepStarts, SweepNextClient

\* What is answered is a registration or a grant of the request itself.
LEMMA HistoryOnlyGrows ==
  ASSUME Typed, NEW r \in Task, TaskInv(r), Acts(r)
  PROVE  HistoryGrows(r)
<1>1. CASE Flush(r)
  <2>1. task[r].op = "register" \/ task[r].op = "update" \/ (Granting(r) /\ task[r].new # 0)
    BY <1>1 DEF Flush, On, TaskInv, Staged, OwnPair, Granting, Minting
  <2>2. Granting(r) => task[r].op \notin {"register", "update"}
    BY DEF Granting
  <2> QED BY <1>1, <2>1, <2>2 DEF Flush, Answer, HistoryGrows
<1>2. CASE Remove(r)
  <2>1. lock = r
    BY <1>2 DEF Remove, On, TaskInv, Mutex, Locking
  <2> QED BY <1>2, <2>1 DEF Remove, HistoryGrows
<1>3. CASE ~Flush(r) /\ ~Remove(r)
  BY <1>3 DEF HistoryGrows, Acts, GrantStep, Register, Update, MintAccess, MintRefresh, ReadActivity, BumpActivity, FlushFails,
      LockToRotate, LockToRevoke, LockToPurge, Invalidate, Purge, Unregister, history,
      RequestStarts, StartRegister, StartUpdate, StartExchange, StartDelete, StartRotate, StartRevoke,
      SweepStep, SweepStarts, SweepNextClient, SweepOrphans
<1> QED BY <1>1, <1>2, <1>3

\* A record goes with its client only, and its last activity moves on, or the client is marked.
LEMMA RegistryOnlyMoves ==
  ASSUME Typed, RegistryInv, NEW r \in Task, TaskInv(r), Acts(r)
  PROVE  RegistryMoves
<1> GrantTypeOK
  BY DEF Typed
<1>0. \A c \in DOMAIN reg : reg[c] \in ClientRecord /\ reg[c].idle \in Nat
  BY DEF GrantTypeOK, ClientRecord
<1>1. CASE Register(r)
  BY <1>0, <1>1 DEF Register, RegistryMoves, history
<1>2. CASE Update(r)
  <2>1. \A x \in task[r].read : x \in ClientRecord
    BY <1>2 DEF Update, At, TaskInv, OwnRecord, RecordOK
  <2>2. task[r].client \in DOMAIN reg \cup gone
    BY <1>2 DEF Update, At, TaskInv, OwnRecord
  <2>3. CASE reg' = reg /\ slipped' = slipped
    BY <1>0, <1>2, <2>3 DEF Update, RegistryMoves
  <2>4. ASSUME NEW patch \in Patch, NEW old \in task[r].read,
               reg' = [d \in DOMAIN reg \cup {task[r].client} |->
                            IF d # task[r].client THEN reg[d]
                            ELSE [old EXCEPT !.uris = IF patch = {} THEN @ ELSE UNION patch]],
               slipped' = IF task[r].client \in DOMAIN reg /\ old.idle > reg[task[r].client].idle
                          THEN slipped \cup {task[r].client} ELSE slipped,
               gone' = gone
        PROVE  RegistryMoves
    <3>1. old.idle \in Nat /\ [old EXCEPT !.uris = IF patch = {} THEN @ ELSE UNION patch].idle = old.idle
      BY <2>1 DEF ClientRecord
    <3>2. \A c \in DOMAIN reg' : c # task[r].client => c \in DOMAIN reg /\ reg'[c] = reg[c]
      BY <2>4
    <3>3. reg'[task[r].client].idle = old.idle
      BY <2>4, <3>1
    <3>4. \/ task[r].client \in gone' \cup slipped'
          \/ task[r].client \in DOMAIN reg /\ old.idle <= reg[task[r].client].idle
      BY <1>0, <2>2, <2>4, <3>1
    <3> QED BY <1>0, <2>4, <3>2, <3>3, <3>4 DEF RegistryMoves
  <2> QED BY <1>2, <2>3, <2>4 DEF Update
<1>3. CASE BumpActivity(r)
  <2>1. \A x \in task[r].read : x \in ClientRecord
    BY <1>3 DEF BumpActivity, On, TaskInv, OwnRecord, RecordOK
  <2>2. task[r].read # {} => [(CHOOSE x \in task[r].read : TRUE) EXCEPT !.idle = 0].idle = 0
    BY <2>1 DEF ClientRecord
  <2> QED BY <1>0, <1>3, <2>2 DEF BumpActivity, RegistryMoves, history
<1>4. CASE Unregister(r)
  BY <1>0, <1>4 DEF Unregister, Restricted, RegistryMoves
<1>5. CASE reg' = reg /\ gone' = gone
  BY <1>0, <1>5 DEF RegistryMoves
<1> QED BY <1>1, <1>2, <1>3, <1>4, <1>5 DEF Acts, GrantStep, MintAccess, MintRefresh, ReadActivity, Flush, FlushFails,
      LockToRotate, LockToRevoke, LockToPurge, Invalidate, Remove, Purge, history,
      RequestStarts, StartRegister, StartUpdate, StartExchange, StartDelete, StartRotate, StartRevoke,
      SweepStep, SweepStarts, SweepNextClient, SweepOrphans

\* A rotation begins with a token that is kept, under the lock.
LEMMA RotationBegins ==
  ASSUME Typed, NEW r \in Task, TaskInv(r), Acts(r), task'[r].op = "rotate", task'[r].pc \in {"invalidate", "access"}
  PROVE  /\ task[r].op = "rotate" /\ task'[r].pair = task[r].pair
         /\ \/ task[r].pc = "lock" /\ task'[r].pc = "invalidate" /\ LockToRotate(r)
               /\ <<task[r].pair, "refresh">> \in kept /\ ~TokenExpired(<<task[r].pair, "refresh">>)
            \/ task[r].pc = "invalidate" /\ task'[r].pc = "access" /\ Invalidate(r)
<1>0. task \in [Task -> TaskRecord] /\ task[r] \in TaskRecord /\ r \in Task
  BY DEF Typed
<1>1. CASE LockToRotate(r)
  BY <1>0, <1>1, IdleTyped DEF LockToRotate, At, Goto, Done, TaskRecord
<1>2. CASE Invalidate(r)
  BY <1>0, <1>2, IdleTyped DEF Invalidate, On, Goto, Done, TaskRecord, TaskInv, Staged
<1>3. CASE r \in Req /\ RequestStarts(r)
  BY <1>3, RequestStarted
<1>4. CASE GrantStep(r) /\ ~LockToRotate(r) /\ ~Invalidate(r)
  BY <1>0, <1>4, IdleTyped DEF GrantStep, Register, Update, MintAccess, MintRefresh, ReadActivity, BumpActivity, Flush, FlushFails,
      LockToRevoke, LockToPurge, Remove, Purge, Unregister, Goto, Done, TaskRecord
<1>5. CASE r = Cleanup /\ SweepStep
  BY <1>0, <1>5, IdleTyped, SweepStarted DEF SweepStep, SweepNextClient, SweepOrphans, Done, TaskRecord, TaskInv, Staged
<1> QED BY <1>1, <1>2, <1>3, <1>4, <1>5 DEF Acts

\* A pair that is over stays so.
LEMMA DeadStays ==
  ASSUME Typed, NEW r \in Task, TaskInv(r), Acts(r), NEW p, Dead(p)
  PROVE  Dead(p)'
<1> GrantTypeOK
  BY DEF Typed
<1>0. p \in 1..Len(pairs) /\ pairs[p].whole /\ Len(pairs) \in Nat
  BY PairTyped DEF Dead
<1>1. p \in 1..Len(pairs') /\ pairs'[p].whole
  BY SMTT(30), <1>0, PairsOnlyGrow, PairTyped, TypedStep DEF PairsGrow
<1>2. ASSUME NEW kind \in Kind
      PROVE  <<p, kind>> \notin kept'
  <2>1. <<p, kind>> \notin kept
    BY DEF Dead
  <2>2. <<p, kind>> # <<Len(pairs) + 1, "access">>
    BY <1>0
  <2>3. task[r].pc = "refresh" => task[r].new # p
    BY <1>0 DEF TaskInv, Staged, OwnPair, Granting, Minting
  <2> QED BY <2>1, <2>2, <2>3, TokensOnlyMove DEF TokensMove
<1>3. ~HasHeir(p)'
  <2>1. ~AboutToRotate(r, p)
    BY DEF Dead, BeingRotated, AboutToRotate
  <2>2. \A q \in 1..Len(pairs') : q \in 1..Len(pairs) \/ q \in (Len(pairs) + 1)..Len(pairs')
    BY <1>0
  <2> QED BY <1>0, <2>1, <2>2, PairsOnlyGrow DEF Dead, HasHeir, PairsGrow
<1>4. ~BeingRotated(p)'
  <2>1. ASSUME NEW q \in Task, task'[q].op = "rotate", task'[q].pc \in {"invalidate", "access"}, task'[q].pair = p
        PROVE  FALSE
    <3>1. CASE q # r
      <4>1. task'[q] = task[q]
        BY <3>1, OthersStay
      <4> QED BY <2>1, <4>1 DEF Dead, BeingRotated
    <3>2. CASE q = r
      BY <2>1, <3>2, RotationBegins DEF Dead, BeingRotated, Kind
    <3> QED BY <3>1, <3>2
  <2> QED BY <2>1 DEF BeingRotated
<1> QED BY <1>1, <1>2, <1>3, <1>4 DEF Dead

\* Whatever one request does, the others can go on relying on what they relied on.
LEMMA OthersKept ==
  ASSUME Typed, Typed', Apart, RegistryInv, NEW r \in Task, NEW q \in Task \ {r}, TaskInv(r), TaskInv(q), Acts(r)
  PROVE  TaskInv(q)'
<1> GrantTypeOK /\ GrantTypeOK'
  BY DEF Typed
<1>t. task'[q] = task[q] /\ (lock = q => lock' = q) /\ task[q] \in TaskRecord
  BY OthersStay DEF Typed
<1>l. Len(pairs) \in Nat /\ Len(pairs') \in Nat
  BY PairTyped, PairTyped
<1>g. PairsGrow(r) /\ TokensMove(r) /\ HistoryGrows(r) /\ RegistryMoves
  BY PairsOnlyGrow, TokensOnlyMove, HistoryOnlyGrows, RegistryOnlyMoves
<1>p. \A p \in 1..Len(pairs) :
        /\ p \in 1..Len(pairs')
        /\ pairs'[p].client = pairs[p].client /\ pairs'[p].parent = pairs[p].parent /\ pairs'[p].age = pairs[p].age
        /\ pairs[p].whole => pairs'[p].whole
        /\ p # task[r].new => pairs'[p].whole = pairs[p].whole
  BY <1>l, <1>g DEF PairsGrow
\* Two requests are not past the lock at once.
<1>m. ~(Locking(q) /\ Locking(r)) /\ (Locking(q) => lock # r)
  BY DEF TaskInv, Mutex
\* A token that comes is not of a pair that is whole.
<1>k. \A t \in kept' : t \in kept \/ t[1] \notin 1..Len(pairs) \/ (t[2] = "refresh" /\ ~pairs[t[1]].whole)
  <2>1. task[r].pc = "refresh" => ~pairs[task[r].new].whole
    BY DEF TaskInv, Staged, OwnPair, Granting, Minting
  <2>2. \A t \in kept' \ kept : \/ t[1] = Len(pairs) + 1
                                \/ t[1] = task[r].new /\ t[2] = "refresh" /\ task[r].pc = "refresh"
    BY <1>g DEF TokensMove
  <2> QED BY <1>l, <2>1, <2>2
\* A new heir is of a pair that r rotates.
<1>h. \A p \in 1..Len(pairs') : p \in 1..Len(pairs) \/ pairs'[p].parent = 0 \/ AboutToRotate(r, pairs'[p].parent)
  BY <1>l, <1>g DEF PairsGrow
<1>1. Staged(q)' /\ Mutex(q)'
  BY <1>t DEF TaskInv, Staged, Mutex, Locking, Minting
<1>2. OwnPair(q)'
  <2>1. task[q].new # 0 => task[q].new \notin answered'
    <3>1. task[q].new # 0 => task[q].new \in Nat /\ task[q].new \notin answered /\ task[q].new # task[r].new
      BY <1>l DEF TaskInv, OwnPair, Apart
    <3>2. task[r].op = "register" => task[r].client \in Client
      BY DEF TaskInv, Staged
    <3> QED BY <1>g, <3>1, <3>2 DEF HistoryGrows
  <2>2. task[q].new # 0 => task[q].new \in 1..Len(pairs) /\ task[q].new # task[r].new
    BY DEF TaskInv, OwnPair, Apart
  <2>3. Granting(q)' <=> Granting(q)
    BY <1>t DEF Granting
  <2>4. Granting(q) /\ task[q].pc \in Minting => task[q].new # 0
    BY DEF TaskInv, OwnPair
  <2>5. Granting(q) /\ task[q].pc = "refresh" => /\ ~pairs'[task[q].new].whole
                                                /\ pairs'[task[q].new].parent = task[q].pair
    BY <1>p, <2>2, <2>4 DEF TaskInv, OwnPair, Minting
  <2>6. /\ task[q].new # 0 => Granting(q) /\ task[q].pc \in Minting
        /\ task[q].op = "exchange" => task[q].pair = 0
    BY DEF TaskInv, OwnPair
  <2>7. task[q].new # 0 => pairs'[task[q].new].client = task[q].client
    BY <1>p, <2>2 DEF TaskInv, OwnPair
  <2> QED BY <1>t, <1>p, <2>1, <2>2, <2>3, <2>4, <2>5, <2>6, <2>7 DEF OwnPair
<1>3. OldPair(q)'
  <2> SUFFICES ASSUME task[q].op = "rotate"
               PROVE  OldPair(q)'
    BY <1>t DEF OldPair
  <2> DEFINE old == <<task[q].pair, "refresh">>
  <2>1. task[q].pair \in 1..Len(pairs) /\ old[1] = task[q].pair /\ old[2] = "refresh"
    BY DEF TaskInv, OldPair
  <2>2. task[q].pc = "invalidate" => old \in kept' /\ ~TokenExpired(old)'
    <3> SUFFICES ASSUME task[q].pc = "invalidate"
                 PROVE  old \in kept' /\ ~TokenExpired(old)'
      OBVIOUS
    <3>1. old \in kept /\ ~TokenExpired(old) /\ lock # r
      BY <1>m DEF TaskInv, OldPair, Locking
    <3>0. old' = old
      BY <1>t
    <3> HIDE DEF old
    <3>2. old \in kept'
      BY <1>g, <3>1 DEF TokensMove
    <3>3. ~TokenExpired(old)'
      BY <1>p, <2>1, <3>0, <3>1 DEF TokenExpired
    <3> QED BY <3>2, <3>3
  <2>3. task[q].pc \in {"access"} \cup Minting => old \notin kept' /\ pairs'[task[q].pair].whole
    BY <1>k, <1>p, <2>1 DEF TaskInv, OldPair
  <2>4. task[q].pc = "access" => \A p \in 1..Len(pairs') : pairs'[p].parent # task[q].pair
    <3> SUFFICES ASSUME task[q].pc = "access", NEW p \in 1..Len(pairs')
                 PROVE  pairs'[p].parent # task[q].pair
      OBVIOUS
    <3>1. ~AboutToRotate(r, pairs'[p].parent)
      BY <1>m DEF AboutToRotate, Locking
    <3>2. \A o \in 1..Len(pairs) : pairs[o].parent # task[q].pair
      BY DEF TaskInv, OldPair
    <3> QED BY <1>h, <1>p, <2>1, <3>1, <3>2
  <2>5. task[q].pc = "access" => old \notin revoked'
    BY <1>m, <1>g DEF TaskInv, OldPair, Locking, HistoryGrows
  <2> HIDE DEF old
  <2> QED BY <1>t, <1>p, <2>1, <2>2, <2>3, <2>4, <2>5 DEF OldPair, old
<1>4. OwnRecord(q)'
  <2>1. Granting(q)' <=> Granting(q)
    BY <1>t DEF Granting
  <2>2. task[q].op = "register" => task[q].client \notin answered'
    <3>1. task[q].op = "register" => /\ task[q].client \notin answered /\ task[q].client \notin Nat
                                     /\ task[r].op = "register" => task[r].client # task[q].client
      BY DEF TaskInv, OwnRecord, Staged, Apart
    <3>2. task[r].new # 0 => task[r].new \in Nat
      BY DEF TaskInv, OwnPair
    <3> QED BY <1>g, <3>1, <3>2 DEF HistoryGrows
  <2>3. task[q].client \in DOMAIN reg \cup gone => task[q].client \in DOMAIN reg' \cup gone'
    BY <1>g DEF RegistryMoves, HistoryGrows
  <2>4. \A c : c \in DOMAIN reg /\ reg[c].idle = 0 => c \in slipped' \cup gone' \/ (c \in DOMAIN reg' /\ reg'[c].idle = 0)
    <3>1. \A c \in DOMAIN reg' : reg'[c].idle \in Nat
      BY DEF GrantTypeOK, ClientRecord
    <3> QED BY <1>g, <3>1 DEF RegistryMoves
  <2> QED BY <1>t, <1>g, <2>1, <2>2, <2>3, <2>4 DEF TaskInv, OwnRecord, HistoryGrows
<1>5. Cascade(q)'
  <2>1. \A t \in task[q].tokens : t[1] \in 1..Len(pairs) /\ (t[2] = "refresh" => pairs[t[1]].whole)
    BY DEF TaskInv, Cascade
  <2>2. ASSUME task[q].pc = "purge", NEW t \in task[q].tokens
        PROVE  /\ Owner(t)' = task[q].client
               /\ t[2] = "refresh" => /\ ~HasHeir(t[1])'
                                      /\ \A kind \in Kind : <<t[1], kind>> \in kept' => <<t[1], kind>> \in task[q].tokens
    <3>1. Owner(t)' = task[q].client
      BY <1>p, <2>1, <2>2 DEF TaskInv, Cascade, Owner
    <3>2. ASSUME t[2] = "refresh"
          PROVE  /\ ~HasHeir(t[1])'
                 /\ \A kind \in Kind : <<t[1], kind>> \in kept' => <<t[1], kind>> \in task[q].tokens
      <4>1. /\ ~HasHeir(t[1])
            /\ \A kind \in Kind : <<t[1], kind>> \in kept => <<t[1], kind>> \in task[q].tokens
        BY <2>2, <3>2 DEF TaskInv, Cascade
      <4>2. ~AboutToRotate(r, t[1])
        BY <1>m, <2>2 DEF AboutToRotate, Locking
      <4>3. ~HasHeir(t[1])'
        BY <1>h, <1>p, <2>1, <4>1, <4>2 DEF HasHeir
      <4>4. t[1] \in 1..Len(pairs) /\ pairs[t[1]].whole
        BY <2>1, <3>2
      <4>5. \A kind \in Kind : <<t[1], kind>> \in kept' => <<t[1], kind>> \in kept
        BY <1>k, <4>4
      <4> QED BY <4>1, <4>3, <4>5
    <3> QED BY <3>1, <3>2
  <2>3. task[q].pc = "unregister" => \A t \in task[q].tokens : t[2] = "refresh" => Dead(t[1])'
    BY DeadStays DEF TaskInv, Cascade
  <2> QED BY <1>t, <1>p, <2>1, <2>2, <2>3 DEF Cascade
<1>6. SnapshotRight(q)'
  <2> SUFFICES ASSUME task[q].op = "sweep", NEW x \in task[q].read
               PROVE  /\ x \in Snapshot
                      /\ \A t \in x.expired : t[1] \in 1..Len(pairs') /\ TokenExpired(t)'
                      /\ \A p \in x.seen \ Client :
                           /\ p \in 1..Len(pairs')
                           /\ InHand(q, pairs'[p].client) => \/ pairs'[p].age > RefreshTTL
                                                             \/ pairs'[p].client \in slipped' \cup gone'
                      /\ \A t \in x.due : /\ t[1] \in 1..Len(pairs')
                                          /\ t[2] = "refresh" => pairs'[t[1]].whole
                                          /\ t \in x.expired \/ t \notin kept' \/ Owner(t)' \in task[q].todo
                                          /\ Owner(t)' = task[q].client /\ t \in kept' =>
                                               /\ task[q].pc = "purge" => t \in task[q].tokens
                                               /\ task[q].pc = "unregister" => t \in x.expired
    BY <1>t DEF SnapshotRight, InHand
  <2>1. /\ x \in Snapshot
        /\ \A t \in x.expired : t[1] \in 1..Len(pairs) /\ TokenExpired(t)
        /\ \A p \in x.seen \ Client : /\ p \in 1..Len(pairs)
                                      /\ InHand(q, pairs[p].client) => \/ pairs[p].age > RefreshTTL
                                                                       \/ pairs[p].client \in slipped \cup gone
    BY DEF TaskInv, SnapshotRight
  <2>2. \A t \in x.due : /\ t[1] \in 1..Len(pairs)
                         /\ t[2] = "refresh" => pairs[t[1]].whole
                         /\ t \in x.expired \/ t \notin kept \/ Owner(t) \in task[q].todo
                         /\ Owner(t) = task[q].client /\ t \in kept =>
                              /\ task[q].pc = "purge" => t \in task[q].tokens
                              /\ task[q].pc = "unregister" => t \in x.expired
    BY DEF TaskInv, SnapshotRight
  <2>3. \A t \in x.due : t \in kept' => t \in kept
    BY <1>k, <2>2
  <2>4. \A t \in x.expired : t[1] \in 1..Len(pairs') /\ TokenExpired(t)'
    BY <1>p, <2>1 DEF TokenExpired
  <2>5. \A p \in x.seen \ Client : /\ p \in 1..Len(pairs')
                                   /\ InHand(q, pairs'[p].client) => \/ pairs'[p].age > RefreshTTL
                                                                     \/ pairs'[p].client \in slipped' \cup gone'
    BY <1>g, <1>p, <2>1 DEF HistoryGrows
  <2>6. \A t \in x.due : Owner(t)' = Owner(t) /\ t[1] \in 1..Len(pairs') /\ (t[2] = "refresh" => pairs'[t[1]].whole)
    BY <1>p, <2>2 DEF Owner
  <2> QED BY <2>1, <2>2, <2>3, <2>4, <2>5, <2>6
<1> QED BY <1>1, <1>2, <1>3, <1>4, <1>5, <1>6 DEF TaskInv

(***************************************************************************)
(* What a request's own step makes of its part.                            *)
(***************************************************************************)

SameTask(r) == /\ task'[r].op = task[r].op /\ task'[r].client = task[r].client /\ task'[r].pair = task[r].pair
               /\ task'[r].new = task[r].new /\ task'[r].read = task[r].read
               /\ task'[r].tokens = task[r].tokens /\ task'[r].todo = task[r].todo

\* Going on changes the stage alone.
LEMMA GoingOn ==
  ASSUME Typed, NEW r \in Task, NEW pc, Goto(r, pc)
  PROVE  SameTask(r) /\ task'[r].pc = pc
BY DEF Typed, Goto, SameTask, TaskRecord

\* An idle request relies on nothing.
LEMMA DoneInv ==
  ASSUME Typed, NEW r \in Task, Done(r)
  PROVE  TaskInv(r)'
<1>1. task'[r] = Idle
  BY DEF Typed, Done
<1>2. task'[r].op = "idle" /\ task'[r].pc = "idle" /\ task'[r].new = 0 /\ task'[r].tokens = {}
  BY <1>1, IdleTyped
<1>3. Staged(r)' /\ OwnPair(r)' /\ Mutex(r)' /\ OldPair(r)'
  BY <1>2 DEF Staged, OwnPair, Granting, Mutex, Locking, OldPair
<1>4. OwnRecord(r)' /\ Cascade(r)' /\ SnapshotRight(r)'
  BY <1>2 DEF OwnRecord, Granting, Cascade, SnapshotRight
<1> QED BY <1>3, <1>4 DEF TaskInv

\* Registration and update.
LEMMA OwnRegisterUpdate ==
  ASSUME Typed, Typed', NEW r \in Task, TaskInv(r), Register(r) \/ Update(r)
  PROVE  TaskInv(r)'
<1>1. CASE Done(r)
  BY <1>1, DoneInv
<1>2. CASE Goto(r, "flush")
  <2>1. SameTask(r) /\ task'[r].pc = "flush"
    BY <1>2, GoingOn
  <2>2. task[r].op \in {"register", "update"}
    BY DEF Register, Update, At
  <2>3. pairs' = pairs /\ answered' = answered /\ task[r].new = 0
    BY <2>2 DEF Register, Update, history, TaskInv, OwnPair, Granting
  <2>4. Staged(r)' /\ OwnPair(r)' /\ Mutex(r)' /\ OldPair(r)'
    BY <2>1, <2>2, <2>3 DEF SameTask, TaskInv, Staged, OwnPair, Granting, Mutex, Locking, OldPair
  <2>5. task[r].op = "update" => task[r].client \in DOMAIN reg' \cup gone'
    <3>1. CASE Update(r)
      BY <2>2, <3>1 DEF Update, TaskInv, OwnRecord
    <3>2. CASE Register(r)
      BY <3>2 DEF Register, At
    <3> QED BY <3>1, <3>2
  <2>6. OwnRecord(r)'
    BY <2>1, <2>2, <2>3, <2>5 DEF SameTask, TaskInv, OwnRecord, Granting
  <2>7. Cascade(r)' /\ SnapshotRight(r)'
    BY <2>1, <2>2, <2>3 DEF SameTask, TaskInv, Cascade, SnapshotRight
  <2> QED BY <2>4, <2>6, <2>7 DEF TaskInv
<1> QED BY <1>1, <1>2 DEF Register, Update

\* The stages of a grant.
LEMMA OwnMint ==
  ASSUME Typed, Typed', RegistryInv, DurableInv, NEW r \in Task, TaskInv(r), Acts(r),
         MintAccess(r) \/ MintRefresh(r) \/ ReadActivity(r) \/ BumpActivity(r)
  PROVE  TaskInv(r)'
<1> GrantTypeOK /\ task \in [Task -> TaskRecord] /\ task[r] \in TaskRecord
  BY DEF Typed
<1>0. Granting(r) /\ task[r].pc \in {"access"} \cup Minting
  BY DEF TaskInv, Staged, Granting, Minting, MintAccess, MintRefresh, ReadActivity, BumpActivity, On
<1>1. /\ task'[r].op = task[r].op /\ task'[r].client = task[r].client /\ task'[r].pair = task[r].pair
      /\ task'[r].tokens = task[r].tokens
      /\ MintAccess(r) => task'[r].pc = "refresh" /\ task'[r].new = Len(pairs) + 1
      /\ ~MintAccess(r) => task'[r].pc \in Minting \ {"refresh"} /\ task'[r].new = task[r].new
  <2>1. CASE MintAccess(r)
    BY <2>1 DEF MintAccess, TaskRecord
  <2>2. CASE MintRefresh(r)
    BY <2>2, GoingOn DEF MintRefresh, MintAccess, On, SameTask, Minting
  <2>3. CASE ReadActivity(r)
    BY <2>3 DEF ReadActivity, MintAccess, On, TaskRecord, Minting
  <2>4. CASE BumpActivity(r)
    BY <2>4, GoingOn DEF BumpActivity, MintAccess, On, SameTask, Minting
  <2> QED BY <2>1, <2>2, <2>3, <2>4
<1>2. answered' = answered /\ gone' = gone /\ slipped' = slipped /\ lock' = lock
  BY DEF MintAccess, MintRefresh, ReadActivity, BumpActivity, history
<1>l. Len(pairs) \in Nat /\ Len(pairs') \in Nat
  BY PairTyped DEF Typed
<1>3. Staged(r)' /\ Mutex(r)'
  BY <1>0, <1>1, <1>2 DEF TaskInv, Staged, Granting, Mutex, Locking, Minting
<1>4. OwnPair(r)'
  <2>1. CASE MintAccess(r)
    <3>1. /\ Len(pairs') = Len(pairs) + 1 /\ ~pairs'[Len(pairs) + 1].whole
          /\ pairs'[Len(pairs) + 1].parent = task[r].pair /\ pairs'[Len(pairs) + 1].client = task[r].client
      BY <2>1, AccessMinted
    <3>2. Len(pairs) + 1 \notin answered /\ Len(pairs) + 1 # 0
      BY <1>l DEF DurableInv
    <3> QED BY <1>0, <1>1, <1>2, <1>l, <2>1, <3>1, <3>2 DEF TaskInv, OwnPair, Granting, Minting
  <2>2. CASE ~MintAccess(r)
    <3>1. Len(pairs') = Len(pairs) /\ \A p \in 1..Len(pairs) : pairs'[p].client = pairs[p].client
      BY <2>2, RefreshMinted DEF MintRefresh, ReadActivity, BumpActivity
    <3>2. task[r].pc \in Minting
      BY <1>0, <2>2 DEF MintAccess, MintRefresh, ReadActivity, BumpActivity, On, Minting
    <3> QED BY <1>0, <1>1, <1>2, <2>2, <3>1, <3>2 DEF TaskInv, OwnPair, Granting, Minting
  <2> QED BY <2>1, <2>2
<1>5. OldPair(r)'
  <2> SUFFICES ASSUME task[r].op = "rotate"
               PROVE  /\ task[r].pair \in 1..Len(pairs')
                      /\ <<task[r].pair, "refresh">> \notin kept' /\ pairs'[task[r].pair].whole
    BY <1>1 DEF OldPair, Minting
  <2>1. /\ task[r].pair \in 1..Len(pairs)
        /\ <<task[r].pair, "refresh">> \notin kept /\ pairs[task[r].pair].whole
    BY <1>0 DEF TaskInv, OldPair
  <2>2. task[r].pc = "refresh" => task[r].new # task[r].pair
    BY <1>0, <2>1 DEF TaskInv, OwnPair
  <2>3. <<task[r].pair, "refresh">> \notin kept'
    BY <2>1, <2>2, TokensOnlyMove DEF TokensMove
  <2>4. task[r].pair \in 1..Len(pairs') /\ pairs'[task[r].pair].whole
    BY <1>l, <2>1, PairsOnlyGrow DEF PairsGrow
  <2> QED BY <2>3, <2>4
<1>6. OwnRecord(r)'
  <2>1. task[r].client \in DOMAIN reg \cup gone /\ DOMAIN reg \subseteq DOMAIN reg'
    BY <1>0 DEF TaskInv, OwnRecord, MintAccess, MintRefresh, ReadActivity, BumpActivity
  <2>2. ASSUME task'[r].pc = "bump"
        PROVE  /\ \A x \in task'[r].read : RecordOK(x)
               /\ task'[r].read = {} => task[r].client \in gone
    <3>1. ReadActivity(r)
      BY <2>2, GoingOn DEF MintAccess, MintRefresh, BumpActivity, TaskRecord
    <3>2. task'[r].read = IF task[r].client \in DOMAIN reg THEN {reg[task[r].client]} ELSE {}
      BY <3>1 DEF ReadActivity, TaskRecord
    <3> QED BY <2>1, <3>2 DEF RegistryInv
  <2>3. ASSUME task'[r].pc = "flush"
        PROVE  \/ task[r].client \in slipped \cup gone
               \/ task[r].client \in DOMAIN reg' /\ reg'[task[r].client].idle = 0
    <3>1. BumpActivity(r)
      BY <2>3, GoingOn DEF MintAccess, MintRefresh, ReadActivity, TaskRecord
    <3>2. \A x \in task[r].read : x \in ClientRecord
      BY <3>1 DEF BumpActivity, On, TaskInv, OwnRecord, RecordOK
    <3>3. task[r].read # {} => [(CHOOSE x \in task[r].read : TRUE) EXCEPT !.idle = 0].idle = 0
      BY <3>2 DEF ClientRecord
    <3>4. task[r].read = {} => task[r].client \in gone
      BY <3>1 DEF BumpActivity, On, TaskInv, OwnRecord
    <3> QED BY <3>1, <3>3, <3>4 DEF BumpActivity
  <2>4. task'[r].op \notin {"update", "register"} /\ task'[r].pc # "write"
    BY <1>0, <1>1 DEF Granting, Minting
  <2> QED BY <1>1, <1>2, <2>1, <2>2, <2>3, <2>4 DEF OwnRecord
<1>7. Cascade(r)' /\ SnapshotRight(r)'
  <2>1. task'[r].pc \notin {"purge", "unregister"} /\ task'[r].op # "sweep"
    BY <1>0, <1>1 DEF Granting, Minting
  <2>2. \A t \in task[r].tokens : t[1] \in 1..Len(pairs') /\ (t[2] = "refresh" => pairs'[t[1]].whole)
    BY <1>l, PairsOnlyGrow DEF TaskInv, Cascade, PairsGrow
  <2> QED BY <1>1, <2>1, <2>2 DEF Cascade, SnapshotRight
<1> QED BY <1>3, <1>4, <1>5, <1>6, <1>7 DEF TaskInv

\* Taking the lock.
LEMMA OwnLock ==
  ASSUME Typed, Typed', PairsInv, NEW r \in Task, TaskInv(r), LockToRotate(r) \/ LockToRevoke(r) \/ LockToPurge(r)
  PROVE  TaskInv(r)'
<1> GrantTypeOK /\ task \in [Task -> TaskRecord] /\ task[r] \in TaskRecord
  BY DEF Typed
<1>0. /\ UNCHANGED <<reg, pairs, kept, answered, gone, slipped>> /\ task[r].pc = "lock"
      /\ task[r].op \in {"rotate", "revoke", "delete", "sweep"} /\ task[r].new = 0
  BY DEF LockToRotate, LockToRevoke, LockToPurge, history, At, On, TaskInv, Staged, OwnPair, Minting
<1>1. CASE Done(r)
  BY <1>1, DoneInv
<1>2. CASE LockToRotate(r) /\ ~Done(r)
  <2>1. SameTask(r) /\ task'[r].pc = "invalidate" /\ lock' = r
    BY <1>2, GoingOn DEF LockToRotate
  <2>2. task[r].op = "rotate" /\ <<task[r].pair, "refresh">> \in kept /\ ~TokenExpired(<<task[r].pair, "refresh">>)
    BY <1>2 DEF LockToRotate, At
  <2>3. ~(pairs'[task[r].pair].age > TTL("refresh"))
    BY <1>0, <2>2 DEF TokenExpired
  <2>4. Staged(r)' /\ OwnPair(r)' /\ Mutex(r)' /\ SnapshotRight(r)'
    BY <1>0, <2>1, <2>2 DEF SameTask, TaskInv, Staged, OwnPair, Granting, Minting, Mutex, SnapshotRight
  <2>5. OldPair(r)'
    <3>1. task'[r].pair = task[r].pair /\ task[r].pair \in 1..Len(pairs) /\ kept' = kept /\ pairs' = pairs
      BY <1>0, <2>1, <2>2 DEF SameTask, TaskInv, OldPair
    <3> QED BY <2>1, <2>2, <2>3, <3>1 DEF OldPair, Minting, TokenExpired
  <2>6. OwnRecord(r)' /\ Cascade(r)'
    BY <1>0, <2>1, <2>2 DEF SameTask, TaskInv, OwnRecord, Granting, Cascade
  <2> QED BY <2>4, <2>5, <2>6 DEF TaskInv
<1>3. CASE LockToRevoke(r)
  <2>1. SameTask(r) /\ task'[r].pc = "remove" /\ lock' = r /\ task[r].op = "revoke"
    BY <1>3, GoingOn DEF LockToRevoke, At
  <2>2. Staged(r)' /\ OwnPair(r)' /\ Mutex(r)' /\ OldPair(r)'
    BY <1>0, <2>1 DEF SameTask, TaskInv, Staged, OwnPair, Granting, Minting, Mutex, OldPair
  <2>3. OwnRecord(r)' /\ Cascade(r)' /\ SnapshotRight(r)'
    BY <1>0, <2>1 DEF SameTask, TaskInv, OwnRecord, Granting, Cascade, SnapshotRight
  <2> QED BY <2>2, <2>3 DEF TaskInv
<1>4. CASE LockToPurge(r)
  <2>1. /\ task'[r].op = task[r].op /\ task'[r].client = task[r].client /\ task'[r].new = 0
        /\ task'[r].read = task[r].read /\ task'[r].todo = task[r].todo
        /\ task'[r].pc = "purge" /\ task'[r].tokens = OwnedBy(task[r].client) /\ lock' = r
        /\ task[r].op \in {"delete", "sweep"}
    BY <1>0, <1>4 DEF LockToPurge, TaskRecord
  <2>2. Staged(r)' /\ OwnPair(r)' /\ Mutex(r)' /\ OldPair(r)'
    BY <1>0, <2>1 DEF TaskInv, Staged, OwnPair, Granting, Minting, Mutex, OldPair
  <2>3. OwnRecord(r)'
    BY <1>0, <2>1 DEF OwnRecord, Granting
  <2>4. Cascade(r)'
    <3> SUFFICES ASSUME NEW t \in OwnedBy(task[r].client)
                 PROVE  /\ t[1] \in 1..Len(pairs) /\ Owner(t) = task[r].client
                        /\ t[2] = "refresh" =>
                             /\ pairs[t[1]].whole /\ ~HasHeir(t[1])
                             /\ \A kind \in Kind : <<t[1], kind>> \in kept => <<t[1], kind>> \in OwnedBy(task[r].client)
      BY <1>0, <2>1 DEF Cascade, Owner, HasHeir
    <3>1. t \in kept /\ Owner(t) = task[r].client
      BY DEF OwnedBy
    <3>2. t[1] \in 1..Len(pairs) /\ t = <<t[1], t[2]>>
      BY <3>1, PairTyped
    <3>3. ASSUME t[2] = "refresh"
          PROVE  pairs[t[1]].whole /\ ~HasHeir(t[1])
      <4>1. <<t[1], "refresh">> \in kept /\ t[1] # 0
        BY <3>1, <3>2, <3>3
      <4> QED BY <3>2, <4>1 DEF PairsInv, HasHeir
    <3>4. \A kind \in Kind : <<t[1], kind>> \in kept => <<t[1], kind>> \in OwnedBy(task[r].client)
      BY <3>1 DEF OwnedBy, Owner
    <3> QED BY <3>1, <3>2, <3>3, <3>4
  <2>5. SnapshotRight(r)'
    <3> SUFFICES ASSUME task[r].op = "sweep", NEW x \in task[r].read
                 PROVE  /\ x \in Snapshot
                        /\ \A t \in x.expired : t[1] \in 1..Len(pairs) /\ TokenExpired(t)
                        /\ \A p \in x.seen \ Client :
                             /\ p \in 1..Len(pairs)
                             /\ InHand(r, pairs[p].client) => \/ pairs[p].age > RefreshTTL
                                                              \/ pairs[p].client \in slipped \cup gone
                        /\ \A t \in x.due : /\ t[1] \in 1..Len(pairs)
                                            /\ t[2] = "refresh" => pairs[t[1]].whole
                                            /\ t \in x.expired \/ t \notin kept \/ Owner(t) \in task[r].todo
                                            /\ Owner(t) = task[r].client /\ t \in kept => t \in OwnedBy(task[r].client)
      BY <1>0, <2>1 DEF SnapshotRight, InHand, TokenExpired, Owner
    <3> QED BY DEF TaskInv, SnapshotRight, OwnedBy
  <2> QED BY <2>2, <2>3, <2>4, <2>5 DEF TaskInv
<1> QED BY <1>1, <1>2, <1>3, <1>4 DEF LockToRotate

\* What is done under the lock, and the end of a client.
LEMMA OwnRemoval ==
  ASSUME Typed, Typed', PairsInv, NEW r \in Task, \A q \in Task : TaskInv(q), Acts(r),
         Invalidate(r) \/ Remove(r) \/ Purge(r) \/ Unregister(r)
  PROVE  TaskInv(r)'
<1> GrantTypeOK /\ task \in [Task -> TaskRecord] /\ task[r] \in TaskRecord
  BY DEF Typed
<1>1. CASE Done(r)
  BY <1>1, DoneInv
<1>2. CASE Invalidate(r) /\ ~Done(r)
  <2>1. /\ SameTask(r) /\ task'[r].pc = "access" /\ task[r].op = "rotate" /\ lock' = r /\ task[r].new = 0
        /\ kept' = kept \ {<<task[r].pair, "refresh">>} /\ UNCHANGED <<reg, pairs, answered, revoked, gone, slipped>>
    BY <1>2, GoingOn DEF Invalidate, Dropped, On, TaskInv, Staged, OwnPair, Minting, Mutex, Locking, history
  <2>2. /\ task[r].pair \in 1..Len(pairs) /\ pairs[task[r].pair].whole
        /\ \A p \in 1..Len(pairs) : pairs[p].parent # task[r].pair
        /\ <<task[r].pair, "refresh">> \notin revoked
    <3>0. TaskInv(r) /\ task[r].pc = "invalidate"
      BY <1>2 DEF Invalidate, On
    <3>1. task[r].pair \in 1..Len(pairs) /\ <<task[r].pair, "refresh">> \in kept
      BY <2>1, <3>0 DEF TaskInv, OldPair
    <3>2. task[r].pair # 0
      BY <3>1
    <3>3. \A t \in revoked : t # <<task[r].pair, "refresh">>
      BY <3>1 DEF PairsInv
    <3> QED BY <3>1, <3>2, <3>3 DEF PairsInv
  <2>3. Staged(r)' /\ OwnPair(r)' /\ Mutex(r)'
    <3>1. task[r].pc = "invalidate"
      BY <1>2 DEF Invalidate, On
    <3> QED BY <2>1, <3>1 DEF SameTask, TaskInv, Staged, OwnPair, Granting, Minting, Mutex
  <2>5. OldPair(r)'
    BY <2>1, <2>2 DEF SameTask, OldPair, Minting
  <2>4. OwnRecord(r)' /\ Cascade(r)' /\ SnapshotRight(r)'
    BY <2>1 DEF SameTask, TaskInv, OwnRecord, Granting, Cascade, SnapshotRight
  <2> QED BY <2>3, <2>4, <2>5 DEF TaskInv
<1>3. CASE Purge(r) /\ ~Done(r)
  <2>1. /\ SameTask(r) /\ task'[r].pc = "unregister" /\ task[r].pc = "purge" /\ task[r].op \in {"delete", "sweep"}
        /\ lock = r /\ task[r].new = 0
        /\ kept' = kept \ task[r].tokens /\ UNCHANGED <<reg, pairs, answered, gone, slipped>>
    <3>1. SameTask(r) /\ task'[r].pc = "unregister" /\ task[r].pc = "purge"
      BY <1>3, GoingOn DEF Purge, On
    <3>2. task[r].op \in {"delete", "sweep"} /\ lock = r /\ task[r].new = 0
      BY <3>1 DEF TaskInv, Staged, OwnPair, Granting, Minting, Mutex, Locking
    <3>3. kept' = kept \ task[r].tokens /\ UNCHANGED <<reg, pairs, answered, gone, slipped>>
      BY <1>3 DEF Purge, Dropped, history
    <3> QED BY <3>1, <3>2, <3>3
  <2>2. Staged(r)' /\ OwnPair(r)' /\ Mutex(r)' /\ OldPair(r)' /\ OwnRecord(r)'
    BY <2>1 DEF SameTask, TaskInv, Staged, OwnPair, Granting, Mutex, Locking, OldPair, OwnRecord
  <2>3. Cascade(r)'
    <3>1. \A t \in task[r].tokens : t[1] \in 1..Len(pairs) /\ (t[2] = "refresh" => pairs[t[1]].whole)
      BY DEF TaskInv, Cascade
    <3>2. ASSUME NEW t \in task[r].tokens, t[2] = "refresh"
          PROVE  Dead(t[1])'
      <4>1. /\ ~HasHeir(t[1])
            /\ \A kind \in Kind : <<t[1], kind>> \in kept => <<t[1], kind>> \in task[r].tokens
        BY <2>1, <3>2 DEF TaskInv, Cascade
      <4>2. ~BeingRotated(t[1])'
        <5>1. \A q \in Task \ {r} : task'[q] = task[q]
          BY OthersStay
        <5>2. \A q \in Task \ {r} : ~(task[q].op = "rotate" /\ task[q].pc \in {"invalidate", "access"})
          BY <2>1 DEF TaskInv, Mutex, Locking
        <5>3. task'[r].op # "rotate"
          BY <2>1 DEF SameTask
        <5> QED BY <5>1, <5>2, <5>3 DEF BeingRotated
      <4> QED BY <2>1, <3>1, <3>2, <4>1, <4>2 DEF Dead, HasHeir
    <3> QED BY <2>1, <3>1, <3>2 DEF SameTask, Cascade
  <2>4. SnapshotRight(r)'
    <3> SUFFICES ASSUME task[r].op = "sweep", NEW x \in task[r].read
                 PROVE  /\ x \in Snapshot
                        /\ \A t \in x.expired : t[1] \in 1..Len(pairs) /\ TokenExpired(t)
                        /\ \A p \in x.seen \ Client :
                             /\ p \in 1..Len(pairs)
                             /\ InHand(r, pairs[p].client) => \/ pairs[p].age > RefreshTTL
                                                              \/ pairs[p].client \in slipped \cup gone
                        /\ \A t \in x.due : /\ t[1] \in 1..Len(pairs)
                                            /\ t[2] = "refresh" => pairs[t[1]].whole
                                            /\ t \in x.expired \/ t \notin kept' \/ Owner(t) \in task[r].todo
                                            /\ Owner(t) = task[r].client /\ t \in kept' => t \in x.expired
      BY <2>1 DEF SameTask, SnapshotRight, InHand, TokenExpired, Owner
    <3>1. \A t \in x.due : Owner(t) = task[r].client /\ t \in kept => t \in task[r].tokens
      BY <2>1 DEF TaskInv, SnapshotRight
    <3>2. \A t \in kept' : t \in kept /\ t \notin task[r].tokens
      BY <2>1
    <3> QED BY <2>1, <3>1, <3>2 DEF TaskInv, SnapshotRight, InHand
  <2> QED BY <2>2, <2>3, <2>4 DEF TaskInv
<1>4. CASE Unregister(r) /\ ~Done(r)
  <2>1. /\ task'[r].op = task[r].op /\ task'[r].client = task[r].client /\ task'[r].new = task[r].new
        /\ task'[r].read = task[r].read /\ task'[r].tokens = task[r].tokens
        /\ task'[r].pc = "next" /\ task'[r].todo = task[r].todo \ {task[r].client}
    BY <1>4 DEF Unregister, TaskRecord
  <2>2. /\ task[r].op = "sweep" /\ task[r].pc = "unregister" /\ task[r].new = 0
        /\ UNCHANGED <<pairs, kept, answered, slipped>> /\ gone \subseteq gone'
    <3>1. task[r].pc = "unregister" /\ task[r].op # "delete"
      BY <1>4 DEF Unregister, On
    <3>2. task[r].op = "sweep" /\ task[r].new = 0
      BY <3>1 DEF TaskInv, Staged, OwnPair, Granting, Minting
    <3>3. UNCHANGED <<pairs, kept, answered, slipped>> /\ gone \subseteq gone'
      BY <1>4 DEF Unregister
    <3> QED BY <3>1, <3>2, <3>3
  <2>3. Staged(r)' /\ OwnPair(r)' /\ Mutex(r)' /\ OldPair(r)' /\ OwnRecord(r)' /\ Cascade(r)'
    BY <2>1, <2>2 DEF TaskInv, Staged, OwnPair, Granting, Mutex, Locking, OldPair, OwnRecord, Cascade
  <2>4. SnapshotRight(r)'
    <3> SUFFICES ASSUME NEW x \in task[r].read
                 PROVE  /\ x \in Snapshot
                        /\ \A t \in x.expired : t[1] \in 1..Len(pairs) /\ TokenExpired(t)
                        /\ \A p \in x.seen \ Client :
                             /\ p \in 1..Len(pairs)
                             /\ pairs[p].client \in task[r].todo => \/ pairs[p].age > RefreshTTL
                                                                    \/ pairs[p].client \in slipped \cup gone'
                        /\ \A t \in x.due : /\ t[1] \in 1..Len(pairs)
                                            /\ t[2] = "refresh" => pairs[t[1]].whole
                                            /\ t \in x.expired \/ t \notin kept \/ Owner(t) \in task[r].todo \ {task[r].client}
      BY <2>1, <2>2 DEF SnapshotRight, InHand, TokenExpired, Owner
    <3> QED BY <2>2 DEF TaskInv, SnapshotRight, InHand
  <2> QED BY <2>3, <2>4 DEF TaskInv
<1>5. CASE Remove(r)
  BY <1>1, <1>5 DEF Remove
<1> QED BY <1>1, <1>2, <1>3, <1>4, <1>5

\* A request that starts.
LEMMA OwnStart ==
  ASSUME Typed, Typed', RegistryInv, PairsInv, NEW r \in Req, RequestStarts(r)
  PROVE  TaskInv(r)'
<1>1. /\ UNCHANGED <<reg, pairs, kept, answered, gone, slipped>> /\ r # Cleanup /\ r \in Task
      /\ task'[r].new = 0 /\ task'[r].client \in Client /\ (task'[r].op # "register" => task'[r].client \in DOMAIN reg)
  BY RequestStarted DEF Task
<1>2. Staged(r)' /\ OwnPair(r)' /\ Mutex(r)' /\ SnapshotRight(r)'
  BY <1>1, RequestStarted DEF Staged, OwnPair, Granting, Minting, Mutex, Locking, SnapshotRight
<1>3. OldPair(r)'
  BY <1>1, RequestStarted DEF OldPair, Minting
<1>4. OwnRecord(r)'
  <2>1. task'[r].op = "register" => task'[r].client \notin answered
    BY RequestStarted
  <2>2. \/ task'[r].pc = "write" /\ task'[r].op = "update" /\ task'[r].read = {reg[task'[r].client]}
        \/ task'[r].pc \notin {"write", "bump", "flush"}
    BY RequestStarted
  <2>3. Granting(r)' \/ task'[r].op = "update" => task'[r].client \in DOMAIN reg
    BY <1>1 DEF Granting
  <2> QED BY <1>1, <2>1, <2>2, <2>3 DEF OwnRecord, RegistryInv
<1>5. Cascade(r)'
  <2>1. \A t \in task'[r].tokens : t \in kept
    BY RequestStarted
  <2>2. \A t \in kept : t[1] \in 1..Len(pairs) /\ t = <<t[1], t[2]>>
    BY PairTyped DEF Typed
  <2>3. ASSUME NEW t \in kept, t[2] = "refresh"
        PROVE  pairs[t[1]].whole
    <3>1. <<t[1], "refresh">> \in kept /\ t[1] \in 1..Len(pairs)
      BY <2>2, <2>3
    <3> QED BY <3>1 DEF PairsInv
  <2>4. task'[r].pc \notin {"purge", "unregister"}
    BY RequestStarted
  <2> QED BY <1>1, <2>1, <2>2, <2>3, <2>4 DEF Cascade
<1> QED BY <1>2, <1>3, <1>4, <1>5 DEF TaskInv

\* The sweep.
LEMMA OwnSweep ==
  ASSUME Typed, Typed', PairsInv, DurableInv, ActivityInv, TaskInv(Cleanup), SweepStep
  PROVE  TaskInv(Cleanup)'
<1> GrantTypeOK /\ task \in [Task -> TaskRecord] /\ Cleanup \in Task /\ task[Cleanup] \in TaskRecord /\ task'[Cleanup] \in TaskRecord
  BY DEF Typed, Task
<1>1. CASE SweepStarts
  <2>0. /\ UNCHANGED <<reg, pairs, kept, answered, gone, slipped>>
        /\ task'[Cleanup].op = "sweep" /\ task'[Cleanup].pc = "next"
        /\ task'[Cleanup].new = 0 /\ task'[Cleanup].tokens = {} /\ task'[Cleanup].todo = {c \in DOMAIN reg : Stale(c)}
    BY <1>1, SweepStarted
  <2>1. Staged(Cleanup)' /\ OwnPair(Cleanup)' /\ Mutex(Cleanup)' /\ OldPair(Cleanup)' /\ OwnRecord(Cleanup)' /\ Cascade(Cleanup)'
    BY <2>0 DEF Staged, OwnPair, Granting, Mutex, Locking, OldPair, OwnRecord, Cascade
  <2>2. SnapshotRight(Cleanup)'
    <3> DEFINE x == [expired |-> Orphans, seen |-> answered, due |-> {t \in kept : TokenExpired(t)}]
    <3>1. task'[Cleanup].read = {x} /\ x.expired = Orphans /\ x.seen = answered /\ x.due = {t \in kept : TokenExpired(t)}
      BY <1>1, SweepStarted
    <3>2. x \in Snapshot
      BY PairTyped DEF Snapshot, Orphans, GrantTypeOK
    <3>3. \A t \in kept : t[1] \in 1..Len(pairs) /\ t = <<t[1], t[2]>>
      BY PairTyped
    <3>4. \A t \in Orphans : t \in kept /\ TokenExpired(t)
      BY DEF Orphans
    <3>5. ASSUME NEW p \in answered \ Client
          PROVE  /\ p \in 1..Len(pairs)
                 /\ pairs[p].client \in {c \in DOMAIN reg : Stale(c)} => \/ pairs[p].age > RefreshTTL
                                                                        \/ pairs[p].client \in slipped \cup gone
      <4>1. p \in 1..Len(pairs)
        <5>1. answered \subseteq (1..MaxPairs) \cup Client
          BY DEF GrantTypeOK
        <5>2. p \in Nat
          BY <3>5, <5>1
        <5> QED BY <3>5, <5>2 DEF DurableInv
      <4>2. pairs[p].age \in Nat /\ \A c \in DOMAIN reg : reg[c].idle \in Nat
        <5>1. \A c \in DOMAIN reg : reg[c].idle \in Nat
          BY DEF GrantTypeOK, ClientRecord
        <5>2. pairs[p].age \in Nat
          BY <4>1, PairTyped
        <5> QED BY <5>1, <5>2
      <4> QED BY <3>5, <4>1, <4>2 DEF ActivityInv, ActiveSince, Stale
    <3>6. ASSUME NEW t \in kept, TokenExpired(t)
          PROVE  /\ t[2] = "refresh" => pairs[t[1]].whole
                 /\ t \in Orphans \/ Owner(t) \in {c \in DOMAIN reg : Stale(c)}
      <4>1. t[2] = "refresh" => pairs[t[1]].whole
        <5>1. t[2] = "refresh" => <<t[1], "refresh">> \in kept /\ t[1] \in 1..Len(pairs)
          BY <3>3
        <5> QED BY <5>1 DEF PairsInv
      <4>2. t \in Orphans \/ Owner(t) \in {c \in DOMAIN reg : Stale(c)}
        BY <3>6 DEF Orphans
      <4> QED BY <4>1, <4>2
    <3> HIDE DEF x
    <3>7. /\ \A t \in x.expired : t[1] \in 1..Len(pairs) /\ TokenExpired(t)
          /\ \A t \in x.due : t[1] \in 1..Len(pairs) /\ t \in kept
      BY <3>1, <3>3, <3>4
    <3> QED BY <2>0, <3>1, <3>2, <3>5, <3>6, <3>7 DEF SnapshotRight, InHand, TokenExpired, Owner
  <2> QED BY <2>1, <2>2 DEF TaskInv
<1>2. CASE SweepNextClient
  <2>1. PICK c \in task[Cleanup].todo : task' = [task EXCEPT ![Cleanup].pc = "lock", ![Cleanup].client = c]
    BY <1>2 DEF SweepNextClient
  <2>2. /\ task'[Cleanup].op = "sweep" /\ task'[Cleanup].client = c /\ task'[Cleanup].new = task[Cleanup].new
        /\ task'[Cleanup].read = task[Cleanup].read /\ task'[Cleanup].tokens = task[Cleanup].tokens
        /\ task'[Cleanup].pc = "lock" /\ task'[Cleanup].todo = task[Cleanup].todo
        /\ task[Cleanup].op = "sweep" /\ task[Cleanup].pc = "next" /\ task[Cleanup].new = 0
    BY <1>2, <2>1 DEF SweepNextClient, At, TaskRecord, TaskInv, OwnPair, Granting
  <2>3. UNCHANGED <<reg, pairs, kept, answered, gone, slipped>> /\ c \in Client
    BY <1>2 DEF SweepNextClient, history, TaskRecord
  <2>4. Staged(Cleanup)' /\ OwnPair(Cleanup)' /\ Mutex(Cleanup)' /\ OldPair(Cleanup)' /\ OwnRecord(Cleanup)' /\ Cascade(Cleanup)'
    BY <2>2, <2>3 DEF TaskInv, Staged, OwnPair, Granting, Mutex, Locking, OldPair, OwnRecord, Cascade
  <2>5. SnapshotRight(Cleanup)'
    BY <2>2, <2>3 DEF TaskInv, SnapshotRight, InHand, TokenExpired, Owner
  <2> QED BY <2>4, <2>5 DEF TaskInv
<1>3. CASE SweepOrphans
  BY <1>3, DoneInv DEF SweepOrphans
<1> QED BY <1>1, <1>2, <1>3 DEF SweepStep

\* Every request can rely on its part after any step.
LEMMA TaskStep ==
  ASSUME GrantInv, [GrantNext]_grantVars, NEW q \in Task
  PROVE  TaskInv(q)'
<1> Typed /\ Typed' /\ Apart /\ RegistryInv /\ PairsInv /\ DurableInv /\ ActivityInv /\ \A r \in Task : TaskInv(r)
  BY TypedStep DEF GrantInv
<1>1. ASSUME NEW r \in Task, Acts(r)
      PROVE  TaskInv(q)'
  <2>1. CASE q # r
    BY <1>1, <2>1, OthersKept
  <2>2. CASE GrantStep(q) /\ q = r
    <3>1. CASE Flush(q) \/ FlushFails(q)
      BY <3>1, DoneInv DEF Flush, FlushFails
    <3>2. CASE Register(q) \/ Update(q)
      BY <3>2, OwnRegisterUpdate
    <3>3. CASE MintAccess(q) \/ MintRefresh(q) \/ ReadActivity(q) \/ BumpActivity(q)
      BY <1>1, <2>2, <3>3, OwnMint
    <3>4. CASE LockToRotate(q) \/ LockToRevoke(q) \/ LockToPurge(q)
      BY <3>4, OwnLock
    <3>5. CASE Invalidate(q) \/ Remove(q) \/ Purge(q) \/ Unregister(q)
      BY <1>1, <2>2, <3>5, OwnRemoval
    <3> QED BY <2>2, <3>1, <3>2, <3>3, <3>4, <3>5 DEF GrantStep
  <2>3. CASE q \in Req /\ RequestStarts(q)
    BY <2>3, OwnStart
  <2>4. CASE q = Cleanup /\ SweepStep
    BY <2>4, OwnSweep
  <2> QED BY <1>1, <2>1, <2>2, <2>3, <2>4 DEF Acts
<1>2. CASE GrantTick
  <2>1. task' = task /\ task[q].op = "idle" /\ task[q].pc = "idle"
    BY <1>2 DEF GrantTick, On, TaskInv, Staged, Minting
  <2>2. task[q].new = 0
    BY <2>1 DEF TaskInv, OwnPair, Granting
  <2>3. Staged(q)' /\ OwnPair(q)' /\ Mutex(q)' /\ OldPair(q)' /\ OwnRecord(q)' /\ SnapshotRight(q)'
    BY <2>1, <2>2 DEF TaskInv, Staged, OwnPair, Granting, Mutex, Locking, OldPair, OwnRecord, SnapshotRight
  <2>4. Cascade(q)'
    BY <1>2, <2>1, TickProperties DEF TaskInv, Cascade
  <2> QED BY <2>3, <2>4 DEF TaskInv
<1>3. CASE GrantCrash
  <2>1. task'[q] = Idle
    BY <1>3 DEF GrantCrash
  <2>2. task'[q].op = "idle" /\ task'[q].pc = "idle" /\ task'[q].new = 0 /\ task'[q].tokens = {}
    BY <2>1, IdleTyped
  <2>3. q = Cleanup \/ q # Cleanup
    OBVIOUS
  <2>4. Staged(q)' /\ OwnPair(q)' /\ Mutex(q)' /\ OldPair(q)'
    BY <2>2 DEF Staged, OwnPair, Granting, Mutex, Locking, OldPair
  <2>5. OwnRecord(q)' /\ Cascade(q)' /\ SnapshotRight(q)'
    BY <2>2 DEF OwnRecord, Granting, Cascade, SnapshotRight
  <2> QED BY <2>4, <2>5 DEF TaskInv
<1>4. CASE UNCHANGED grantVars \/ NothingFound
  <2>1. /\ task' = task /\ pairs' = pairs /\ kept' = kept /\ reg' = reg /\ lock' = lock /\ answered' = answered
        /\ gone' = gone /\ slipped' = slipped /\ revoked' = revoked
    BY <1>4 DEF grantVars, NothingFound, RevokeUnknown, history
  <2>2. Staged(q)' /\ OwnPair(q)' /\ Mutex(q)' /\ OwnRecord(q)'
    BY <2>1 DEF TaskInv, Staged, OwnPair, Granting, Mutex, Locking, OwnRecord
  <2>6. OldPair(q)'
    BY <2>1 DEF TaskInv, OldPair, TokenExpired
  <2>3. \A p : Dead(p)' <=> Dead(p)
    BY <2>1 DEF Dead, HasHeir, BeingRotated
  <2>4. Cascade(q)'
    BY <2>1, <2>3 DEF TaskInv, Cascade, Owner, HasHeir
  <2>5. SnapshotRight(q)'
    BY <2>1 DEF TaskInv, SnapshotRight, InHand, TokenExpired, Owner
  <2> QED BY <2>2, <2>4, <2>5, <2>6 DEF TaskInv
<1> QED BY <1>1, <1>2, <1>3, <1>4 DEF GrantNext, NothingFound, Acts, Task

(***************************************************************************)
(* What any step makes of the stores.                                      *)
(***************************************************************************)

\* A step leaves a request's pair and client what they were, unless it mints, starts, or lets go.
LEMMA PairOfTask ==
  ASSUME Typed, NEW r \in Task, TaskInv(r), Acts(r)
  PROVE  /\ task'[r].new # 0 => task'[r].new = task[r].new \/ (task'[r].new = Len(pairs) + 1 /\ MintAccess(r))
         /\ task'[r].op = "register" => \/ task[r].op = "register" /\ task'[r].client = task[r].client
                                        \/ \A q \in Task : task[q].client # task'[r].client
<1>0. task \in [Task -> TaskRecord] /\ task[r] \in TaskRecord /\ r \in Task
  BY DEF Typed
<1>1. CASE MintAccess(r)
  BY <1>0, <1>1 DEF MintAccess, TaskRecord
<1>2. CASE r \in Req /\ RequestStarts(r)
  BY <1>2, RequestStarted
<1>3. CASE GrantStep(r) /\ ~MintAccess(r)
  <2>1. task'[r].new = task[r].new \/ task'[r].new = 0
    BY <1>0, <1>3, IdleTyped DEF GrantStep, Register, Update, MintRefresh, ReadActivity, BumpActivity, Flush, FlushFails,
      LockToRotate, LockToRevoke, LockToPurge, Invalidate, Remove, Purge, Unregister, Goto, Done, TaskRecord
  <2>2. (task'[r].op = task[r].op /\ task'[r].client = task[r].client) \/ task'[r].op # "register"
    BY <1>0, <1>3, IdleTyped DEF GrantStep, Register, Update, MintRefresh, ReadActivity, BumpActivity, Flush, FlushFails,
      LockToRotate, LockToRevoke, LockToPurge, Invalidate, Remove, Purge, Unregister, Goto, Done, TaskRecord
  <2> QED BY <1>3, <2>1, <2>2
<1>4. CASE r = Cleanup /\ SweepStep
  BY SMTT(30), <1>0, <1>4, IdleTyped, SweepStarted DEF SweepStep, SweepNextClient, SweepOrphans, Done, TaskRecord, At
<1> QED BY <1>1, <1>2, <1>3, <1>4 DEF Acts

\* No two requests come to share a pair or a registration.
LEMMA ApartStep ==
  ASSUME GrantInv, [GrantNext]_grantVars
  PROVE  Apart'
<1> Typed /\ Apart /\ \A r \in Task : TaskInv(r)
  BY DEF GrantInv
<1>1. ASSUME NEW r \in Task, Acts(r)
      PROVE  Apart'
  <2>1. \A q \in Task \ {r} : task'[q] = task[q]
    BY <1>1, OthersStay
  <2>2. \A q \in Task : task[q].new # Len(pairs) + 1
    <3>1. Len(pairs) \in Nat
      BY PairTyped DEF Typed
    <3> QED BY <3>1 DEF TaskInv, OwnPair
  <2>3. /\ task'[r].new # 0 => task'[r].new = task[r].new \/ task'[r].new = Len(pairs) + 1
        /\ task'[r].op = "register" => \/ task[r].op = "register" /\ task'[r].client = task[r].client
                                       \/ \A q \in Task : task[q].client # task'[r].client
    BY <1>1, PairOfTask
  <2> QED BY <2>1, <2>2, <2>3 DEF Apart
<1>2. CASE GrantTick
  BY <1>2 DEF GrantTick, Apart
<1>3. CASE GrantCrash
  BY <1>3, IdleTyped DEF GrantCrash, Apart
<1>4. CASE UNCHANGED grantVars \/ NothingFound
  BY <1>4 DEF grantVars, NothingFound, RevokeUnknown, history, Apart
<1> QED BY <1>1, <1>2, <1>3, <1>4 DEF GrantNext, NothingFound, Acts, Task

\* A client that is written back keeps the count: it was registered, or its deletion is recorded.
LEMMA CapKept ==
  ASSUME Typed, RegistryInv, gone \subseteq gone', NEW c \in Client, c \in DOMAIN reg \cup gone,
         DOMAIN reg' \subseteq DOMAIN reg \cup {c}
  PROVE  IsFiniteSet(DOMAIN reg') /\ ClientsCapped'
<1>1. IsFiniteSet(DOMAIN reg) /\ Cardinality(DOMAIN reg \ gone) <= MaxClients
  BY DEF RegistryInv, ClientsCapped
<1>2. IsFiniteSet(DOMAIN reg \cup {c}) /\ IsFiniteSet(DOMAIN reg \ gone)
  BY <1>1, FS_AddElement, FS_Subset
<1>3. IsFiniteSet(DOMAIN reg')
  BY <1>2, FS_Subset
<1>4. DOMAIN reg' \ gone' \subseteq DOMAIN reg \ gone
  OBVIOUS
<1>5. IsFiniteSet(DOMAIN reg' \ gone') /\ Cardinality(DOMAIN reg' \ gone') <= Cardinality(DOMAIN reg \ gone)
  BY <1>2, <1>4, FS_Subset
<1>6. Cardinality(DOMAIN reg' \ gone') \in Nat /\ Cardinality(DOMAIN reg \ gone) \in Nat
  BY <1>2, <1>5, FS_CardinalityType
<1> QED BY <1>1, <1>3, <1>5, <1>6 DEF ClientsCapped

\* What a step does to the disk: nothing, some of the records in memory, or one record less.
LEMMA DiskFollows ==
  ASSUME Typed, NEW r \in Task, Acts(r)
  PROVE  /\ \A c \in DOMAIN regDisk' : \/ c \in DOMAIN regDisk /\ regDisk'[c] = regDisk[c]
                                       \/ c \in DOMAIN reg' /\ regDisk'[c] = reg'[c]
         /\ Flush(r) => regDisk' = reg' /\ durable' = kept'
<1>1. CASE Unregister(r)
  BY <1>1 DEF Unregister, Flushed, Restricted, Flush, On
<1>2. regDisk' \in {regDisk, reg'} \/ (regDisk' = reg /\ reg' = reg) \/ Unregister(r)
  BY DEF Acts, GrantStep, Register, Update, MintAccess, MintRefresh, ReadActivity, BumpActivity, Flush, FlushFails, HalfFlushed,
      LockToRotate, LockToRevoke, LockToPurge, Invalidate, Remove, Purge, Flushed, Unflushed, DropFails, history,
      RequestStarts, StartRegister, StartUpdate, StartExchange, StartDelete, StartRotate, StartRevoke,
      SweepStep, SweepStarts, SweepNextClient, SweepOrphans
<1>3. Flush(r) => regDisk' = reg' /\ durable' = kept'
  BY DEF Flush, Flushed
<1> QED BY <1>1, <1>2, <1>3

\* The registry keeps its cap and its form.
LEMMA RegistryStep ==
  ASSUME GrantInv, [GrantNext]_grantVars
  PROVE  RegistryInv'
<1> /\ Typed /\ RegistryInv /\ (\A r \in Task : TaskInv(r)) /\ GrantTypeOK /\ GrantTypeOK'
  BY TypedStep DEF GrantInv, Typed
<1>0. \A c \in DOMAIN reg : c \in Client /\ RecordOK(reg[c]) /\ reg[c] \in ClientRecord
  BY DEF GrantTypeOK, RegistryInv
<1>1. ASSUME NEW r \in Task, Acts(r)
      PROVE  RegistryInv'
  <2>1. gone \subseteq gone'
    BY <1>1, HistoryOnlyGrows DEF HistoryGrows
  <2>2. IsFiniteSet(DOMAIN reg') /\ ClientsCapped' /\ \A c \in DOMAIN reg' : RecordOK(reg'[c])
    <3>1. CASE reg' = reg
      <4>1. PICK c : c \in Client
        BY DEF GrantAssumption
      <4>2. DOMAIN reg' \ gone' \subseteq DOMAIN reg \ gone /\ IsFiniteSet(DOMAIN reg \ gone)
        BY <2>1, <3>1, FS_Subset DEF RegistryInv
      <4>3. Cardinality(DOMAIN reg' \ gone') <= Cardinality(DOMAIN reg \ gone) /\ IsFiniteSet(DOMAIN reg' \ gone')
        BY <4>2, FS_Subset
      <4>4. Cardinality(DOMAIN reg' \ gone') \in Nat /\ Cardinality(DOMAIN reg \ gone) \in Nat
        BY <4>2, <4>3, FS_CardinalityType
      <4> QED BY <3>1, <4>3, <4>4 DEF RegistryInv, ClientsCapped
    <3>2. CASE Register(r) /\ reg' # reg
      <4>1. PICK uris \in SUBSET Uri : /\ ValidRegistration(uris) /\ RoomForClient
                                       /\ reg' = [c \in DOMAIN reg \cup {task[r].client} |->
                                                    IF c = task[r].client THEN [uris |-> uris, idle |-> 0] ELSE reg[c]]
        BY <3>2 DEF Register
      <4>2. RecordOK([uris |-> uris, idle |-> 0])
        BY <4>1, RecordTyped DEF RecordOK, ValidRegistration
      <4>3. \A c \in DOMAIN reg' : RecordOK(reg'[c])
        BY <1>0, <4>1, <4>2
      <4>4. /\ IsFiniteSet(DOMAIN reg')
            /\ \/ Cardinality(DOMAIN reg') = Cardinality(DOMAIN reg)
               \/ Cardinality(DOMAIN reg') = Cardinality(DOMAIN reg) + 1
        <5>1. DOMAIN reg' = DOMAIN reg \cup {task[r].client}
          BY <4>1
        <5> QED BY <5>1, FS_AddElement DEF RegistryInv
      <4>5. Cardinality(DOMAIN reg) \in Nat /\ Cardinality(DOMAIN reg) < MaxClients
        BY <4>1, FS_CardinalityType DEF RoomForClient, RegistryInv
      <4>6. IsFiniteSet(DOMAIN reg' \ gone') /\ Cardinality(DOMAIN reg' \ gone') <= Cardinality(DOMAIN reg')
        BY <4>4, FS_Subset
      <4>7. Cardinality(DOMAIN reg' \ gone') \in Nat
        BY <4>6, FS_CardinalityType
      <4> QED BY <4>3, <4>4, <4>5, <4>6, <4>7 DEF ClientsCapped
    <3>3. CASE Update(r) /\ reg' # reg
      <4>1. PICK patch \in Patch, old \in task[r].read :
              /\ ValidUpdate(patch)
              /\ reg' = [d \in DOMAIN reg \cup {task[r].client} |->
                            IF d # task[r].client THEN reg[d]
                            ELSE [old EXCEPT !.uris = IF patch = {} THEN @ ELSE UNION patch]]
        BY <3>3 DEF Update
      <4>2. task[r].client \in Client /\ task[r].client \in DOMAIN reg \cup gone /\ RecordOK(old)
        BY <3>3 DEF Update, At, TaskInv, Staged, OwnRecord
      <4>3. patch = {} \/ \E uris \in SUBSET Uri : patch = {uris} /\ UNION patch = uris /\ ValidRegistration(uris)
        BY <4>1 DEF Patch, ValidUpdate
      <4>4. RecordOK([old EXCEPT !.uris = IF patch = {} THEN @ ELSE UNION patch])
        BY <4>2, <4>3 DEF RecordOK, ClientRecord, ValidRegistration
      <4>5. \A c \in DOMAIN reg' : RecordOK(reg'[c])
        BY <1>0, <4>1, <4>4
      <4>6. DOMAIN reg' \subseteq DOMAIN reg \cup {task[r].client}
        BY <4>1
      <4> QED BY <2>1, <4>2, <4>5, <4>6, CapKept
    <3>4. CASE BumpActivity(r) /\ reg' # reg
      <4>1. /\ \A x \in task[r].read : RecordOK(x)
            /\ task[r].op \in {"exchange", "rotate"} /\ task[r].client \in Client /\ task[r].client \in DOMAIN reg \cup gone
        BY <3>4 DEF BumpActivity, On, TaskInv, Staged, OwnRecord, Granting, Minting
      <4>2. task[r].read # {} => RecordOK([(CHOOSE x \in task[r].read : TRUE) EXCEPT !.idle = 0])
        <5>1. ASSUME NEW x, RecordOK(x)
              PROVE  RecordOK([x EXCEPT !.idle = 0])
          BY <5>1 DEF RecordOK, ClientRecord
        <5> QED BY <4>1, <5>1
      <4>3. /\ \A c \in DOMAIN reg' : RecordOK(reg'[c])
            /\ DOMAIN reg' \subseteq DOMAIN reg \cup {task[r].client}
        BY <1>0, <3>4, <4>2 DEF BumpActivity
      <4> QED BY <2>1, <4>1, <4>3, CapKept
    <3>5. CASE Unregister(r) /\ reg' # reg
      <4>1. task[r].client \in Client
        BY <3>5 DEF Unregister, On, TaskInv, Staged, Minting
      <4>2. gone' = gone \cup {task[r].client} /\ reg' = Restricted(reg, DOMAIN reg \ {task[r].client})
        BY <3>5 DEF Unregister
      <4>3. /\ DOMAIN reg' = DOMAIN reg \ {task[r].client} /\ DOMAIN reg' \subseteq DOMAIN reg
            /\ \A c \in DOMAIN reg' : RecordOK(reg'[c])
        BY <1>0, <4>2 DEF Restricted
      <4>4. IsFiniteSet(DOMAIN reg') /\ IsFiniteSet(DOMAIN reg \ gone)
        BY <4>3, FS_Subset DEF RegistryInv
      <4>5. DOMAIN reg' \ gone' \subseteq DOMAIN reg \ gone
        BY <4>2, <4>3
      <4>6. Cardinality(DOMAIN reg' \ gone') <= Cardinality(DOMAIN reg \ gone) /\ IsFiniteSet(DOMAIN reg' \ gone')
        BY <4>4, <4>5, FS_Subset
      <4>7. Cardinality(DOMAIN reg' \ gone') \in Nat /\ Cardinality(DOMAIN reg \ gone) \in Nat
        BY <4>4, <4>6, FS_CardinalityType
      <4> QED BY <4>3, <4>4, <4>6, <4>7 DEF RegistryInv, ClientsCapped
    <3>6. reg' = reg \/ Register(r) \/ Update(r) \/ BumpActivity(r) \/ Unregister(r)
      BY <1>1 DEF Acts, GrantStep, MintAccess, MintRefresh, ReadActivity, Flush, FlushFails,
        LockToRotate, LockToRevoke, LockToPurge, Invalidate, Remove, Purge,
        RequestStarts, StartRegister, StartUpdate, StartExchange, StartDelete, StartRotate, StartRevoke,
        SweepStep, SweepStarts, SweepNextClient, SweepOrphans
    <3> QED BY <3>1, <3>2, <3>3, <3>4, <3>5, <3>6
  <2>3. \A c \in DOMAIN regDisk' : RecordOK(regDisk'[c])
    BY <1>1, <2>2, DiskFollows DEF RegistryInv
  <2> QED BY <2>2, <2>3 DEF RegistryInv
<1>2. CASE GrantTick
  <2>1. /\ DOMAIN reg' = DOMAIN reg /\ DOMAIN regDisk' = DOMAIN regDisk /\ gone' = gone
        /\ \A c \in DOMAIN reg : reg'[c] \in ClientRecord /\ reg'[c].uris = reg[c].uris
        /\ \A c \in DOMAIN regDisk : regDisk'[c] \in ClientRecord /\ regDisk'[c].uris = regDisk[c].uris
    BY <1>2, TickProperties DEF GrantTick, history
  <2> QED BY <2>1 DEF RegistryInv, ClientsCapped, RecordOK
<1>3. CASE GrantCrash
  <2>1. reg' = regDisk /\ regDisk' = regDisk /\ gone' = gone /\ DOMAIN regDisk \subseteq DOMAIN reg
    BY <1>3 DEF GrantCrash, history, GrantTypeOK
  <2>2. IsFiniteSet(DOMAIN regDisk) /\ IsFiniteSet(DOMAIN reg \ gone)
    BY <2>1, FS_Subset DEF RegistryInv
  <2>3. DOMAIN regDisk \ gone \subseteq DOMAIN reg \ gone
    BY <2>1
  <2>4. Cardinality(DOMAIN regDisk \ gone) <= Cardinality(DOMAIN reg \ gone) /\ IsFiniteSet(DOMAIN regDisk \ gone)
    BY <2>2, <2>3, FS_Subset
  <2>5. Cardinality(DOMAIN regDisk \ gone) \in Nat /\ Cardinality(DOMAIN reg \ gone) \in Nat
    BY <2>2, <2>4, FS_CardinalityType
  <2> QED BY <2>1, <2>2, <2>4, <2>5 DEF RegistryInv, ClientsCapped
<1>4. CASE UNCHANGED grantVars \/ NothingFound
  BY <1>4 DEF grantVars, NothingFound, RevokeUnknown, history, RegistryInv, ClientsCapped
<1> QED BY <1>1, <1>2, <1>3, <1>4 DEF GrantNext, NothingFound, Acts, Task

\* A refresh token has one heir at most, none while it is good; what a cascade took stays away.
LEMMA PairsStep ==
  ASSUME GrantInv, [GrantNext]_grantVars
  PROVE  PairsInv'
<1> /\ Typed /\ PairsInv /\ (\A r \in Task : TaskInv(r)) /\ GrantTypeOK /\ GrantTypeOK' /\ Typed'
  BY TypedStep DEF GrantInv, Typed
<1>l. Len(pairs) \in Nat /\ Len(pairs') \in Nat
  BY PairTyped
<1>1. ASSUME NEW r \in Task, Acts(r)
      PROVE  PairsInv'
  <2>g. PairsGrow(r) /\ TokensMove(r)
    BY <1>1, PairsOnlyGrow, TokensOnlyMove
  <2>p. \A p \in 1..Len(pairs) : /\ p \in 1..Len(pairs')
                                 /\ pairs'[p].client = pairs[p].client /\ pairs'[p].parent = pairs[p].parent
                                 /\ pairs[p].whole => pairs'[p].whole
    BY <1>l, <2>g DEF PairsGrow
  \* A token that comes is not of a pair that is whole.
  <2>k. \A t \in kept' : t[2] = "refresh" /\ t[1] \in 1..Len(pairs) /\ pairs[t[1]].whole => t \in kept
    <3>1. task[r].pc = "refresh" => ~pairs[task[r].new].whole
      BY DEF TaskInv, Staged, OwnPair, Granting, Minting
    <3> QED BY <1>l, <2>g, <3>1 DEF TokensMove
  <2>1. \A p \in 1..Len(pairs') : <<p, "refresh">> \in kept' => pairs'[p].whole
    <3> SUFFICES ASSUME NEW p \in 1..Len(pairs'), <<p, "refresh">> \in kept'
                 PROVE  pairs'[p].whole
      OBVIOUS
    <3>1. CASE <<p, "refresh">> \in kept
      <4>1. p \in 1..Len(pairs)
        BY <3>1, PairTyped
      <4> QED BY <2>p, <3>1, <4>1 DEF PairsInv
    <3>2. CASE <<p, "refresh">> \notin kept
      BY <2>g, <3>2 DEF TokensMove
    <3> QED BY <3>1, <3>2
  <2>2. ASSUME NEW p \in 1..Len(pairs'), pairs'[p].parent # 0
        PROVE  /\ pairs'[p].parent \in 1..Len(pairs)
               /\ <<pairs'[p].parent, "refresh">> \notin kept /\ pairs[pairs'[p].parent].whole
               /\ \A q \in 1..Len(pairs) : q # p => pairs[q].parent # pairs'[p].parent
    <3>1. CASE p \in 1..Len(pairs)
      BY <2>p, <2>2, <3>1 DEF PairsInv, OneHeir
    <3>2. CASE p = Len(pairs) + 1
      <4>1. AboutToRotate(r, pairs'[p].parent)
        BY <1>l, <2>2, <2>g, <3>2 DEF PairsGrow
      <4> QED BY <4>1 DEF AboutToRotate, TaskInv, OldPair
    <3> QED BY <1>l, <2>g, <3>1, <3>2 DEF PairsGrow
  <2>3. \A p \in 1..Len(pairs') : pairs'[p].parent # 0 => /\ pairs'[p].parent \in 1..Len(pairs')
                                                          /\ <<pairs'[p].parent, "refresh">> \notin kept'
                                                          /\ pairs'[pairs'[p].parent].whole
    BY <2>2, <2>p, <2>k
  <2>4. OneHeir'
    <3> SUFFICES ASSUME NEW p \in 1..Len(pairs'), NEW q \in 1..Len(pairs'), pairs'[p].parent # 0, pairs'[p].parent = pairs'[q].parent
                 PROVE  p = q
      BY DEF OneHeir
    <3>1. \A o \in 1..Len(pairs') : o \in 1..Len(pairs) \/ o = Len(pairs) + 1
      BY <1>l, <2>g DEF PairsGrow
    <3>2. ASSUME NEW o \in 1..Len(pairs'), NEW s \in 1..Len(pairs), pairs'[o].parent # 0, pairs'[o].parent = pairs'[s].parent
          PROVE  o = s
      <4>1. pairs'[s].parent = pairs[s].parent
        BY <2>p
      <4>2. s # o => pairs[s].parent # pairs'[o].parent
        BY <2>2, <3>2
      <4> QED BY <3>2, <4>1, <4>2
    <3>3. CASE q \in 1..Len(pairs)
      BY <3>2, <3>3
    <3>4. CASE p \in 1..Len(pairs)
      BY <3>2, <3>4
    <3> QED BY <3>1, <3>3, <3>4
  <2>5. \A p \in cut' : Dead(p)'
    <3>1. \A p \in cut' : p \in cut \/ (task[r].pc = "unregister" /\ \E t \in task[r].tokens : t[2] = "refresh" /\ p = t[1])
      <4>1. CASE Unregister(r)
        BY <4>1 DEF Unregister, On
      <4>2. CASE cut' = cut
        BY <4>2
      <4> QED BY <1>1, <4>1, <4>2 DEF Acts, GrantStep, Register, Update, MintAccess, MintRefresh, ReadActivity, BumpActivity,
            Flush, FlushFails, LockToRotate, LockToRevoke, LockToPurge, Invalidate, Remove, Purge, history,
            RequestStarts, StartRegister, StartUpdate, StartExchange, StartDelete, StartRotate, StartRevoke,
            SweepStep, SweepStarts, SweepNextClient, SweepOrphans
    <3>2. \A p \in cut' : Dead(p)
      BY <3>1 DEF PairsInv, TaskInv, Cascade
    <3> QED BY <1>1, <3>2, DeadStays
  <2>6. \A t \in revoked' : t[2] = "refresh" /\ t[1] \in 1..Len(pairs') /\ pairs'[t[1]].whole /\ t \notin kept'
    <3>1. CASE Remove(r) /\ revoked' # revoked
      <4>1. /\ kept' = kept \ task[r].tokens /\ pairs' = pairs
            /\ revoked' = revoked \cup {t \in task[r].tokens : t[2] = "refresh"}
        BY <3>1 DEF Remove, Dropped
      <4>2. \A t \in task[r].tokens : t[1] \in 1..Len(pairs) /\ (t[2] = "refresh" => pairs[t[1]].whole)
        BY DEF TaskInv, Cascade
      <4> QED BY <4>1, <4>2 DEF PairsInv
    <3>2. CASE revoked' = revoked
      BY <2>p, <2>k, <3>2 DEF PairsInv
    <3> QED BY <1>1, <3>1, <3>2 DEF Acts, GrantStep, Register, Update, MintAccess, MintRefresh, ReadActivity, BumpActivity,
          Flush, FlushFails, LockToRotate, LockToRevoke, LockToPurge, Invalidate, Purge, Unregister, history,
          RequestStarts, StartRegister, StartUpdate, StartExchange, StartDelete, StartRotate, StartRevoke,
          SweepStep, SweepStarts, SweepNextClient, SweepOrphans
  <2> QED BY <2>1, <2>3, <2>4, <2>5, <2>6 DEF PairsInv
<1>2. CASE GrantTick \/ GrantCrash
  <2>1. /\ Len(pairs') = Len(pairs) /\ kept' \subseteq kept /\ cut' = cut /\ revoked' = revoked
        /\ \A p \in 1..Len(pairs) : pairs'[p].parent = pairs[p].parent /\ pairs'[p].whole = pairs[p].whole
    <3>1. CASE GrantTick
      BY <3>1, TickProperties DEF GrantTick, history
    <3>2. CASE GrantCrash
      BY <3>2 DEF GrantCrash, history, GrantTypeOK
    <3> QED BY <1>2, <3>1, <3>2
  <2>2. \A p : ~BeingRotated(p)'
    BY <1>2, IdleTyped DEF BeingRotated, GrantTick, GrantCrash, On
  <2>3. \A p \in cut : Dead(p)'
    BY <2>1, <2>2 DEF PairsInv, Dead, HasHeir
  <2>4. OneHeir'
    BY <2>1 DEF PairsInv, OneHeir
  <2> QED BY <2>1, <2>3, <2>4 DEF PairsInv
<1>3. CASE UNCHANGED grantVars \/ NothingFound
  <2>1. pairs' = pairs /\ kept' = kept /\ cut' = cut /\ task' = task /\ revoked' = revoked
    BY <1>3 DEF grantVars, NothingFound, RevokeUnknown, history
  <2>2. \A p : Dead(p) => Dead(p)'
    BY <2>1 DEF Dead, HasHeir, BeingRotated
  <2> QED BY <2>1, <2>2 DEF PairsInv, OneHeir
<1> QED BY <1>1, <1>2, <1>3 DEF GrantNext, NothingFound, Acts, Task

\* What was answered is on disk, as long as nothing removed it.
LEMMA DurableStep ==
  ASSUME GrantInv, [GrantNext]_grantVars
  PROVE  DurableInv'
<1> /\ Typed /\ DurableInv /\ (\A r \in Task : TaskInv(r)) /\ GrantTypeOK /\ GrantTypeOK' /\ Typed'
  BY TypedStep DEF GrantInv, Typed
<1>l. Len(pairs) \in Nat /\ Len(pairs') \in Nat
  BY PairTyped
<1>0. /\ \A t \in kept : t[1] \in answered => t \in durable
      /\ \A c \in DOMAIN reg \ gone : c \in answered => c \in DOMAIN regDisk
      /\ \A x \in answered \cap Nat : x \in 1..Len(pairs)
      /\ durable \subseteq kept /\ DOMAIN regDisk \subseteq DOMAIN reg
  BY DEF DurableInv, AnsweredIsDurable, GrantTypeOK
<1>1. ASSUME NEW r \in Task, Acts(r)
      PROVE  DurableInv'
  <2>g. PairsGrow(r) /\ TokensMove(r) /\ HistoryGrows(r)
    BY <1>1, PairsOnlyGrow, TokensOnlyMove, HistoryOnlyGrows
  <2>1. \A x \in answered' \cap Nat : x \in 1..Len(pairs')
    <3>1. ASSUME NEW x \in answered' \ answered, x \in Nat
          PROVE  x \in 1..Len(pairs)
      <4>1. task[r].op = "register" => task[r].client \notin Nat
        BY DEF TaskInv, Staged, GrantAssumption
      <4> QED BY <2>g, <3>1, <4>1 DEF HistoryGrows, TaskInv, OwnPair
    <3> QED BY <1>l, <1>0, <2>g, <3>1 DEF PairsGrow
  <2>2. CASE Flush(r)
    <3>1. durable' = kept' /\ regDisk' = reg'
      BY <2>2 DEF Flush, Flushed
    <3> QED BY <2>1, <3>1 DEF DurableInv, AnsweredIsDurable
  <2>3. CASE ~Flush(r)
    <3>0. answered' = answered
      BY <1>1, <2>3 DEF Acts, GrantStep, Register, Update, MintAccess, MintRefresh, ReadActivity, BumpActivity, FlushFails,
        LockToRotate, LockToRevoke, LockToPurge, Invalidate, Remove, Purge, Unregister, history,
        RequestStarts, StartRegister, StartUpdate, StartExchange, StartDelete, StartRotate, StartRevoke,
        SweepStep, SweepStarts, SweepNextClient, SweepOrphans
    <3>1. \A t \in kept' : t[1] \in answered => t \in durable'
      <4>1. \A t \in kept' : t[1] \in answered => t \in kept
        <5>1. Len(pairs) + 1 \notin answered /\ (task[r].pc = "refresh" => task[r].new \notin answered)
          BY <1>l, <1>0 DEF TaskInv, Staged, OwnPair, Granting, Minting
        <5> QED BY <2>g, <5>1 DEF TokensMove
      <4>2. durable \cap kept' \subseteq durable'
        BY <1>1, <2>3 DEF Acts, GrantStep, Register, Update, MintAccess, MintRefresh, ReadActivity, BumpActivity, FlushFails,
          HalfFlushed, LockToRotate, LockToRevoke, LockToPurge, Invalidate, Remove, Purge, Unregister, DropFails, Flushed,
          Unflushed, RequestStarts, StartRegister, StartUpdate, StartExchange, StartDelete, StartRotate, StartRevoke,
          SweepStep, SweepStarts, SweepNextClient, SweepOrphans
      <4> QED BY <1>0, <4>1, <4>2
    <3>2. \A c \in DOMAIN reg' \ gone' : c \in answered => c \in DOMAIN regDisk'
      <4>1. CASE Register(r)
        <5>1. task[r].client \notin answered
          BY <4>1 DEF Register, At, TaskInv, OwnRecord
        <5> QED BY <1>0, <4>1, <5>1 DEF Register, history
      <4>2. CASE Update(r)
        <5>1. task[r].client \in DOMAIN reg \cup gone
          BY <4>2 DEF Update, At, TaskInv, OwnRecord
        <5> QED BY <1>0, <4>2, <5>1 DEF Update
      <4>3. CASE BumpActivity(r)
        <5>1. task[r].client \in DOMAIN reg \cup gone
          BY <4>3 DEF BumpActivity, On, TaskInv, Staged, OwnRecord, Granting, Minting
        <5> QED BY <1>0, <4>3, <5>1 DEF BumpActivity, history
      <4>4. CASE Unregister(r)
        BY <1>0, <4>4 DEF Unregister, Flushed, Restricted
      <4>5. CASE reg' = reg /\ gone' = gone /\ regDisk' \in {regDisk, reg}
        BY <1>0, <4>5
      <4> QED BY <1>1, <2>3, <4>1, <4>2, <4>3, <4>4, <4>5 DEF Acts, GrantStep, MintAccess, MintRefresh, ReadActivity, FlushFails,
        HalfFlushed, LockToRotate, LockToRevoke, LockToPurge, Invalidate, Remove, Purge, DropFails, Flushed, Unflushed, history,
        RequestStarts, StartRegister, StartUpdate, StartExchange, StartDelete, StartRotate, StartRevoke,
        SweepStep, SweepStarts, SweepNextClient, SweepOrphans
    <3> QED BY <2>1, <3>0, <3>1, <3>2 DEF DurableInv, AnsweredIsDurable
  <2> QED BY <2>2, <2>3
<1>2. CASE GrantTick
  <2>1. /\ kept' = kept /\ durable' = durable /\ answered' = answered /\ gone' = gone /\ Len(pairs') = Len(pairs)
        /\ DOMAIN reg' = DOMAIN reg /\ DOMAIN regDisk' = DOMAIN regDisk
    BY <1>2, TickProperties DEF GrantTick, history
  <2> QED BY <1>0, <2>1 DEF DurableInv, AnsweredIsDurable
<1>3. CASE GrantCrash
  BY <1>0, <1>3 DEF GrantCrash, history, DurableInv, AnsweredIsDurable
<1>4. CASE UNCHANGED grantVars \/ NothingFound
  BY <1>4 DEF grantVars, NothingFound, RevokeUnknown, history, DurableInv, AnsweredIsDurable
<1> QED BY <1>1, <1>2, <1>3, <1>4 DEF GrantNext, NothingFound, Acts, Task

\* A client's last activity, in memory and on disk, is no older than what it was handed.
LEMMA ActivityStep ==
  ASSUME GrantInv, [GrantNext]_grantVars
  PROVE  ActivityInv'
<1> /\ Typed /\ RegistryInv /\ DurableInv /\ ActivityInv /\ (\A r \in Task : TaskInv(r)) /\ GrantTypeOK /\ GrantTypeOK' /\ Typed'
  BY TypedStep DEF GrantInv, Typed
<1>l. Len(pairs) \in Nat /\ Len(pairs') \in Nat
  BY PairTyped
<1>n. /\ \A c \in DOMAIN reg : reg[c].idle \in Nat
      /\ \A c \in DOMAIN reg' : reg'[c].idle \in Nat
      /\ \A c \in DOMAIN regDisk : regDisk[c].idle \in Nat
      /\ \A p \in 1..Len(pairs) : pairs[p].age \in Nat
  <2>1. \A p \in 1..Len(pairs) : pairs[p].age \in Nat
    BY PairTyped
  <2>2. \A x \in ClientRecord : x.idle \in Nat
    BY DEF ClientRecord, GrantAssumption
  <2>3. /\ \A c \in DOMAIN reg : reg[c] \in ClientRecord
        /\ \A c \in DOMAIN reg' : reg'[c] \in ClientRecord
        /\ \A c \in DOMAIN regDisk : regDisk[c] \in ClientRecord
    BY DEF GrantTypeOK, ClientRecord
  <2> QED BY <2>1, <2>2, <2>3
<1>1. ASSUME NEW r \in Task, Acts(r)
      PROVE  ActivityInv'
  <2>g. PairsGrow(r) /\ HistoryGrows(r) /\ RegistryMoves
    BY <1>1, PairsOnlyGrow, HistoryOnlyGrows, RegistryOnlyMoves
  <2>p. \A p \in 1..Len(pairs) : pairs'[p].client = pairs[p].client /\ pairs'[p].age = pairs[p].age
    BY <2>g DEF PairsGrow
  <2>h. gone \subseteq gone' /\ slipped \subseteq slipped' /\ answered \subseteq answered'
    BY <2>g DEF HistoryGrows
  \* A pair that was answered before.
  <2>1. ASSUME NEW p \in answered \cap (1..Len(pairs)), NEW c, c = pairs[p].client, c \notin slipped' \cup gone'
        PROVE  /\ c \in DOMAIN reg' => reg'[c].idle <= pairs[p].age \/ pairs[p].age > RefreshTTL
               /\ c \in DOMAIN regDisk => regDisk[c].idle <= pairs[p].age \/ pairs[p].age > RefreshTTL
    <3>1. /\ c \in DOMAIN reg => reg[c].idle <= pairs[p].age \/ pairs[p].age > RefreshTTL
          /\ c \in DOMAIN regDisk => regDisk[c].idle <= pairs[p].age \/ pairs[p].age > RefreshTTL
      BY <2>1, <2>h DEF ActivityInv, ActiveSince
    <3>2. c \in DOMAIN reg' => reg'[c].idle = 0 \/ (c \in DOMAIN reg /\ reg'[c].idle <= reg[c].idle)
      BY <2>g, <2>1 DEF RegistryMoves
    <3>3. pairs[p].age \in Nat
      BY <1>n
    <3> QED BY <1>n, <3>1, <3>2, <3>3
  \* The pair that is answered now: its client was just seen.
  <2>2. ASSUME NEW p \in answered' \ answered, p \in 1..Len(pairs'), NEW c, c = pairs'[p].client, c \notin slipped' \cup gone'
        PROVE  Flush(r) /\ p \in 1..Len(pairs) /\ c \in DOMAIN reg' /\ reg'[c].idle = 0
    <3>1. Flush(r)
      BY <1>1, <2>2 DEF Acts, GrantStep, Register, Update, MintAccess, MintRefresh, ReadActivity, BumpActivity, FlushFails,
        LockToRotate, LockToRevoke, LockToPurge, Invalidate, Remove, Purge, Unregister, history,
        RequestStarts, StartRegister, StartUpdate, StartExchange, StartDelete, StartRotate, StartRevoke,
        SweepStep, SweepStarts, SweepNextClient, SweepOrphans
    <3>2. task[r].op = "register" => task[r].client \notin Nat
      BY DEF TaskInv, Staged, GrantAssumption
    <3>3. p = task[r].new /\ task[r].new # 0
      BY <1>l, <2>g, <2>2, <3>2 DEF HistoryGrows
    <3>4. p \in 1..Len(pairs) /\ pairs[p].client = task[r].client /\ Granting(r)
      BY <3>3 DEF TaskInv, OwnPair
    <3>5. task[r].pc = "flush" /\ UNCHANGED <<reg, gone, slipped>>
      BY <3>1 DEF Flush, On
    <3> QED BY <2>p, <2>2, <3>1, <3>4, <3>5 DEF TaskInv, OwnRecord
  <2>3. ActiveSince(reg)'
    <3> SUFFICES ASSUME NEW p \in answered' \cap (1..Len(pairs')), pairs'[p].client \in DOMAIN reg' \ (slipped' \cup gone')
                 PROVE  reg'[pairs'[p].client].idle <= pairs'[p].age \/ pairs'[p].age > RefreshTTL
      BY DEF ActiveSince
    <3>1. CASE p \in answered
      <4>1. p \in 1..Len(pairs)
        BY <1>l, <3>1 DEF DurableInv
      <4> QED BY <2>1, <2>p, <3>1, <4>1
    <3>2. CASE p \notin answered
      <4>1. p \in 1..Len(pairs) /\ reg'[pairs'[p].client].idle = 0
        BY <2>2, <3>2
      <4> QED BY <1>n, <2>p, <4>1
    <3> QED BY <3>1, <3>2
  <2>4. ActiveSince(regDisk)'
    <3> SUFFICES ASSUME NEW p \in answered' \cap (1..Len(pairs')), pairs'[p].client \in DOMAIN regDisk' \ (slipped' \cup gone')
                 PROVE  regDisk'[pairs'[p].client].idle <= pairs'[p].age \/ pairs'[p].age > RefreshTTL
      BY DEF ActiveSince
    <3>1. CASE p \in answered
      <4>1. p \in 1..Len(pairs)
        BY <1>l, <3>1 DEF DurableInv
      <4> QED BY <1>1, <2>1, <2>p, <3>1, <4>1, DiskFollows
    <3>2. CASE p \notin answered
      <4>1. Flush(r) /\ p \in 1..Len(pairs) /\ reg'[pairs'[p].client].idle = 0
        BY <2>2, <3>2
      <4>2. regDisk' = reg'
        BY <1>1, <4>1, DiskFollows
      <4> QED BY <1>n, <2>p, <4>1, <4>2
    <3> QED BY <3>1, <3>2
  <2> QED BY <2>3, <2>4 DEF ActivityInv
<1>2. CASE GrantTick
  <2>1. /\ answered' = answered /\ gone' = gone /\ slipped' = slipped /\ Len(pairs') = Len(pairs)
        /\ DOMAIN reg' = DOMAIN reg /\ DOMAIN regDisk' = DOMAIN regDisk
        /\ \A p \in 1..Len(pairs) : pairs'[p].client = pairs[p].client /\ pairs'[p].age = Aged(pairs[p].age, RefreshTTL)
        /\ \A c \in DOMAIN reg : reg'[c].idle = Aged(reg[c].idle, StaleAfter)
        /\ \A c \in DOMAIN regDisk : regDisk'[c].idle = Aged(regDisk[c].idle, StaleAfter)
    BY <1>2, TickProperties DEF GrantTick, history
  <2>2. \A idle, age \in Nat : idle <= age \/ age > RefreshTTL =>
          Aged(idle, StaleAfter) <= Aged(age, RefreshTTL) \/ Aged(age, RefreshTTL) > RefreshTTL
    BY DEF Aged, GrantAssumption
  <2>3. ASSUME NEW p \in answered \cap (1..Len(pairs)), NEW c, c = pairs[p].client, c \notin slipped \cup gone
        PROVE  /\ c \in DOMAIN reg => reg'[c].idle <= pairs'[p].age \/ pairs'[p].age > RefreshTTL
               /\ c \in DOMAIN regDisk => regDisk'[c].idle <= pairs'[p].age \/ pairs'[p].age > RefreshTTL
    <3>1. /\ c \in DOMAIN reg => reg[c].idle <= pairs[p].age \/ pairs[p].age > RefreshTTL
          /\ c \in DOMAIN regDisk => regDisk[c].idle <= pairs[p].age \/ pairs[p].age > RefreshTTL
      BY <2>3 DEF ActivityInv, ActiveSince
    <3> QED BY <1>n, <2>1, <2>2, <3>1
  <2> QED BY <2>1, <2>3 DEF ActivityInv, ActiveSince
<1>3. CASE GrantCrash
  BY <1>3 DEF GrantCrash, history, ActivityInv, ActiveSince
<1>4. CASE UNCHANGED grantVars \/ NothingFound
  BY <1>4 DEF grantVars, NothingFound, RevokeUnknown, history, ActivityInv, ActiveSince
<1> QED BY <1>1, <1>2, <1>3, <1>4 DEF GrantNext, NothingFound, Acts, Task

(***************************************************************************)
(* The theorems.                                                           *)
(***************************************************************************)

\* A boot.
LEMMA GrantInitInv ==
  ASSUME GrantInit
  PROVE  GrantInv
<1> USE DEF GrantAssumption
<1>0. /\ task = [r \in Task |-> Idle] /\ lock = NoClient /\ starts = 0 /\ grantFaults = 0
      /\ revoked = {} /\ gone = {} /\ cut = {} /\ slipped = {} /\ regDisk = reg /\ durable = kept
      /\ kept = (DOMAIN pairs) \X Kind
  BY DEF GrantInit
<1>1. \/ /\ reg = [c \in {} |-> [uris |-> Permitted, idle |-> 0]] /\ pairs = <<>> /\ answered = {} \cup DOMAIN pairs
      \/ \E c \in Client : /\ reg = [d \in {c} |-> [uris |-> Permitted, idle |-> 0]]
                           /\ pairs = <<[client |-> c, parent |-> 0, whole |-> TRUE, age |-> 0]>>
                           /\ answered = {c} \cup DOMAIN pairs
  BY DEF GrantInit
<1>2. [uris |-> Permitted, idle |-> 0] \in ClientRecord
  BY DEF ClientRecord
<1>3. /\ \A c \in DOMAIN reg : c \in Client /\ RecordOK(reg[c]) /\ reg[c] \in ClientRecord /\ reg[c].idle = 0
      /\ IsFiniteSet(DOMAIN reg) /\ Cardinality(DOMAIN reg) <= MaxClients
  <2>1. CASE DOMAIN reg = {}
    BY <2>1, FS_EmptySet
  <2>2. CASE \E c \in Client : reg = [d \in {c} |-> [uris |-> Permitted, idle |-> 0]]
    <3>1. PICK c \in Client : reg = [d \in {c} |-> [uris |-> Permitted, idle |-> 0]]
      BY <2>2
    <3>2. IsFiniteSet({c}) /\ Cardinality({c}) = 1
      BY FS_Singleton
    <3> QED BY <1>2, <3>1, <3>2 DEF RecordOK
  <2> QED BY <1>1, <2>1, <2>2
<1> DEFINE Clean ==
      /\ pairs \in Seq(PairRecord) /\ Len(pairs) <= MaxPairs /\ Len(pairs) \in Nat /\ DOMAIN pairs = 1..Len(pairs)
      /\ Len(pairs) <= 1 /\ answered \cap Nat \subseteq 1..Len(pairs) /\ answered \subseteq DOMAIN reg \cup (1..Len(pairs))
      /\ \A p \in 1..Len(pairs) : pairs[p].parent = 0 /\ pairs[p].whole /\ pairs[p].age = 0
<1>4. Clean
  <2>1. CASE pairs = <<>>
    BY <1>1, <2>1
  <2>2. ASSUME NEW c \in Client, reg = [d \in {c} |-> [uris |-> Permitted, idle |-> 0]],
               pairs = <<[client |-> c, parent |-> 0, whole |-> TRUE, age |-> 0]>>, answered = {c} \cup DOMAIN pairs
        PROVE  Clean
    <3> DEFINE x == [client |-> c, parent |-> 0, whole |-> TRUE, age |-> 0]
    <3>1. x \in PairRecord /\ x.parent = 0 /\ x.whole /\ x.age = 0
      BY DEF PairRecord
    <3>2. pairs = <<x>> /\ DOMAIN reg = {c}
      BY <2>2
    <3> HIDE DEF x
    <3>3. pairs \in Seq(PairRecord) /\ Len(pairs) = 1 /\ DOMAIN pairs = 1..1 /\ pairs[1] = x
      BY <3>1, <3>2
    <3>4. answered = {c} \cup (1..1) /\ c \notin Nat
      BY <2>2, <3>3
    <3> QED BY <3>1, <3>2, <3>3, <3>4
  <2> QED BY <1>1, <2>1, <2>2
<1>5. GrantTypeOK
  BY <1>0, <1>3, <1>4 DEF GrantTypeOK, PairRecord
<1>6. \A r \in Task : task[r] = Idle
  BY <1>0
<1>7. task \in [Task -> TaskRecord] /\ WithoutPair = {}
  BY <1>0, <1>6, IdleTyped DEF WithoutPair, Granting
<1>8. Typed
  BY <1>4, <1>5, <1>7, FS_EmptySet DEF Typed
<1>9. Apart
  BY <1>6, IdleTyped DEF Apart
<1>10. RegistryInv
  BY <1>0, <1>3 DEF RegistryInv, ClientsCapped
<1>11. PairsInv
  BY <1>0, <1>4 DEF PairsInv, OneHeir
<1>12. DurableInv
  BY <1>0, <1>4 DEF DurableInv, AnsweredIsDurable
<1>13. ActivityInv
  BY <1>0, <1>3, <1>4, PairTyped, <1>5 DEF ActivityInv, ActiveSince
<1>14. ASSUME NEW r \in Task
       PROVE  TaskInv(r)
  <2>1. task[r].op = "idle" /\ task[r].pc = "idle" /\ task[r].new = 0 /\ task[r].tokens = {}
    BY <1>6, IdleTyped
  <2>2. Staged(r) /\ OwnPair(r) /\ Mutex(r) /\ OldPair(r)
    BY <2>1 DEF Staged, OwnPair, Granting, Mutex, Locking, OldPair
  <2>3. OwnRecord(r) /\ Cascade(r) /\ SnapshotRight(r)
    BY <2>1 DEF OwnRecord, Granting, Cascade, SnapshotRight
  <2> QED BY <2>2, <2>3 DEF TaskInv
<1> QED BY <1>8, <1>9, <1>10, <1>11, <1>12, <1>13, <1>14 DEF GrantInv

\* The invariant holds at every step of every behaviour.
THEOREM GrantInvariant == GrantSpec => []GrantInv
<1>1. GrantInit => GrantInv
  BY GrantInitInv
<1>2. GrantInv /\ [GrantNext]_grantVars => GrantInv'
  BY TypedStep, ApartStep, RegistryStep, PairsStep, DurableStep, ActivityStep, TaskStep DEF GrantInv
<1> QED BY <1>1, <1>2, PTL DEF GrantSpec

\* Records, tokens and histories keep their form.
THEOREM GrantTypeCorrect == GrantSpec => []GrantTypeOK
<1>1. GrantInv => GrantTypeOK
  BY DEF GrantInv, Typed
<1> QED BY <1>1, GrantInvariant, PTL

\* Whichever registrations, updates and write-backs race, clients stay under the cap and each has
\* redirect URIs, all of them permitted (client-registration.ts, dcr-validator.ts).
THEOREM RegistryKeptHolds == GrantSpec => []RegistryKept
<1>1. GrantInv => RegistryKept
  BY DEF GrantInv, RegistryInv, RegistryKept, RegistryWellFormed, RecordOK
<1> QED BY <1>1, GrantInvariant, PTL

\* What an answer promised survives a crash, and what a cascade took does not come back, nor does
\* anything that was rotated from it (token-store.ts).
THEOREM DurablyDoneHolds == GrantSpec => []DurablyDone
<1>1. ASSUME GrantInv
      PROVE  DurablyDone
  <2>1. \A p \in cut : Dead(p)
    BY <1>1 DEF GrantInv, PairsInv
  <2>2. \A t \in kept : t[1] \in 1..Len(pairs) /\ t[2] \in Kind /\ t = <<t[1], t[2]>>
    BY <1>1, PairTyped DEF GrantInv, Typed
  <2>3. \A t \in kept : ~FromCut(t[1])
    BY <2>1, <2>2 DEF FromCut, Dead, HasHeir
  <2> QED BY <1>1, <2>3 DEF GrantInv, DurableInv, DurablyDone, CascadeComplete
<1> QED BY <1>1, GrantInvariant, PTL

\* A sweep spares what is in use, and leaves nothing that was due (cleanup.ts).
THEOREM SweepsRightHolds == GrantSpec => SweepsRight
<1> DEFINE
      Spares == \A t \in kept \ kept' :
                  ~TokenExpired(t) /\ t[1] \in answered /\ task'[Cleanup] # task[Cleanup] =>
                    \/ \A x \in task[Cleanup].read : t[1] \notin x.seen
                    \/ Owner(t) \in slipped \cup gone
                    \/ GrantCrash
      Complete == SweepOrphans /\ grantFaults' = grantFaults
                    => \A x \in task[Cleanup].read : x.due \cap kept' = {}
<1>1. ASSUME GrantInv, [GrantNext]_grantVars
      PROVE  [Spares]_grantVars
  <2> SUFFICES ASSUME GrantNext, NEW t \in kept \ kept', ~TokenExpired(t), task'[Cleanup] # task[Cleanup], ~GrantCrash,
                      NEW x \in task[Cleanup].read, t[1] \in x.seen
               PROVE  Owner(t) \in slipped \cup gone
    BY <1>1
  <2> Typed /\ GrantTypeOK /\ Cleanup \in Task /\ \A r \in Task : TaskInv(r)
    BY <1>1 DEF GrantInv, Typed, Task
  <2>0. task \in [Task -> TaskRecord]
    BY DEF Typed
  <2>1. t[1] \in 1..Len(pairs) /\ t[2] \in Kind /\ t[1] \in Nat
    BY PairTyped
  <2>2. Acts(Cleanup)
    <3>1. PICK r \in Task : Acts(r)
      BY DEF GrantNext, GrantTick, RevokeUnknown, Acts, Task
    <3>2. r = Cleanup
      BY <3>1, OthersStay
    <3> QED BY <3>1, <3>2
  <2>3. lock = Cleanup
    BY <2>2, TokensOnlyMove DEF TokensMove
  <2>4. CASE Purge(Cleanup)
    <3>1. t \in task[Cleanup].tokens /\ task[Cleanup].pc = "purge"
      BY <2>4 DEF Purge, On, Dropped, DropFails
    <3>2. task[Cleanup].op = "sweep" /\ Owner(t) = task[Cleanup].client
      BY <3>1 DEF TaskInv, Staged, Cascade, Minting
    <3>3. t[1] \in x.seen \ Client /\ InHand(Cleanup, pairs[t[1]].client)
      BY <2>1, <3>1, <3>2 DEF Owner, InHand, GrantAssumption
    <3>4. pairs[t[1]].age > RefreshTTL \/ Owner(t) \in slipped \cup gone
      BY <3>2, <3>3 DEF TaskInv, SnapshotRight, Owner
    <3>5. ~(pairs[t[1]].age > RefreshTTL)
      <4>0. pairs[t[1]].age \in 0..(RefreshTTL + 1)
        BY <2>1, PairTyped
      <4>1. pairs[t[1]].age \in Nat /\ ~(pairs[t[1]].age > TTL(t[2]))
        BY <4>0, GrantAssumption DEF TokenExpired
      <4>2. TTL(t[2]) \in Nat /\ TTL(t[2]) <= RefreshTTL
        BY DEF TTL, GrantAssumption
      <4> QED BY <4>1, <4>2 DEF GrantAssumption
    <3> QED BY <3>4, <3>5
  <2>5. CASE SweepOrphans
    <3>1. t \in UNION {y.expired : y \in task[Cleanup].read} /\ task[Cleanup].op = "sweep"
      BY <2>5 DEF SweepOrphans, Dropped, DropFails, At
    <3> QED BY <3>1 DEF TaskInv, SnapshotRight
  <2>6. ~(Invalidate(Cleanup) \/ Remove(Cleanup))
    BY DEF Invalidate, Remove, On, TaskInv, Staged, Minting
  <2>7. kept' = kept \/ MintAccess(Cleanup) \/ MintRefresh(Cleanup) \/ Purge(Cleanup) \/ SweepOrphans
    BY <2>2, <2>6 DEF Acts, GrantStep, Register, Update, ReadActivity, BumpActivity, Flush, FlushFails,
      LockToRotate, LockToRevoke, LockToPurge, Unregister,
      RequestStarts, StartRegister, StartUpdate, StartExchange, StartDelete, StartRotate, StartRevoke,
      SweepStep, SweepStarts, SweepNextClient
  <2>8. ~(kept' = kept \/ MintAccess(Cleanup) \/ MintRefresh(Cleanup))
    BY DEF MintAccess, MintRefresh
  <2> QED BY <2>4, <2>5, <2>7, <2>8
<1>2. ASSUME GrantInv
      PROVE  Complete
  <2> SUFFICES ASSUME SweepOrphans, grantFaults' = grantFaults, NEW x \in task[Cleanup].read, NEW t \in x.due, t \in kept'
               PROVE  FALSE
    OBVIOUS
  <2>1. grantFaults \in Nat /\ TaskInv(Cleanup)
    BY <1>2 DEF GrantInv, Typed, GrantTypeOK, Task, GrantAssumption
  <2>2. kept' = kept \ UNION {y.expired : y \in task[Cleanup].read}
    BY <2>1 DEF SweepOrphans, Dropped, DropFails, Fault
  <2>3. task[Cleanup].op = "sweep" /\ task[Cleanup].todo = {}
    BY DEF SweepOrphans, At
  <2>4. t \in x.expired \/ t \notin kept \/ Owner(t) \in task[Cleanup].todo
    BY <2>1, <2>3 DEF TaskInv, SnapshotRight
  <2> QED BY <2>2, <2>3, <2>4
<1>3. GrantSpec => [][Spares]_grantVars
  <2>1. GrantInv /\ [GrantNext]_grantVars => [Spares]_grantVars
    BY <1>1
  <2> HIDE DEF Spares
  <2> QED BY <2>1, GrantInvariant, PTL DEF GrantSpec
<1>4. GrantSpec => [][Complete]_grantVars
  <2>1. GrantInv => Complete
    BY <1>2
  <2> HIDE DEF Complete
  <2> QED BY <2>1, GrantInvariant, PTL DEF GrantSpec
<1> QED BY <1>3, <1>4 DEF SweepsRight, SweepSpares, SweepComplete

\* No grant is minted from a refresh token that a revocation has found and removed, and none of the tokens
\* handed out comes back once it is gone: where a revocation finds no record and is answered all the same,
\* only a rotation that had already taken the token mints from it (provider.ts, revokeToken; token-store.ts).
THEOREM NoRevivalHolds == GrantSpec => NoRevival
<1> DEFINE Barren == /\ \A p \in (Len(pairs) + 1)..Len(pairs') : <<pairs'[p].parent, "refresh">> \notin revoked
                     /\ \A t \in kept' \ kept : t[1] \notin answered
<1>1. ASSUME GrantInv, GrantNext, NEW p \in (Len(pairs) + 1)..Len(pairs'), <<pairs'[p].parent, "refresh">> \in revoked
      PROVE  FALSE
  <2> Typed /\ PairsInv /\ \A r \in Task : TaskInv(r)
    BY <1>1 DEF GrantInv
  <2>1. Len(pairs) \in Nat
    BY PairTyped DEF Typed
  <2>2. PICK r \in Task : Acts(r)
    <3>0. Len(pairs') # Len(pairs)
      BY <1>1, <2>1
    <3>1. ~GrantTick /\ ~GrantCrash /\ ~NothingFound
      <4>1. GrantTick => Len(pairs') = Len(pairs)
        BY TickProperties
      <4>2. GrantCrash \/ NothingFound => pairs' = pairs
        BY DEF GrantCrash, NothingFound, RevokeUnknown
      <4> QED BY <3>0, <4>1, <4>2
    <3> QED BY <1>1, <3>1 DEF GrantNext, NothingFound, Acts, Task
  <2>3. pairs'[p].parent # 0
    <3>1. <<0, "refresh">> \notin revoked
      BY DEF PairsInv
    <3> QED BY <1>1, <3>1
  <2>4. AboutToRotate(r, pairs'[p].parent)
    BY <1>1, <2>2, <2>3, PairsOnlyGrow DEF PairsGrow
  <2> QED BY <1>1, <2>4 DEF AboutToRotate, TaskInv, OldPair
<1>2. ASSUME GrantInv, GrantNext, NEW t \in kept' \ kept
      PROVE  t[1] \notin answered
  <2> Typed /\ GrantTypeOK /\ DurableInv /\ \A r \in Task : TaskInv(r)
    BY <1>2 DEF GrantInv, Typed
  <2>1. Len(pairs) \in Nat
    BY PairTyped
  <2>2. PICK r \in Task : Acts(r)
    <3>1. ~GrantTick /\ ~GrantCrash /\ ~NothingFound
      BY <1>2 DEF GrantTick, GrantCrash, NothingFound, RevokeUnknown, GrantTypeOK
    <3> QED BY <1>2, <3>1 DEF GrantNext, NothingFound, Acts, Task
  <2>3. \/ t = <<Len(pairs) + 1, "access">>
        \/ t = <<task[r].new, "refresh">> /\ task[r].pc = "refresh"
    BY <1>2, <2>2, TokensOnlyMove DEF TokensMove
  <2>4. Len(pairs) + 1 \notin answered
    BY <2>1 DEF DurableInv
  <2>5. task[r].pc = "refresh" => task[r].new \notin answered
    BY DEF TaskInv, Staged, OwnPair, Granting, Minting
  <2> QED BY <2>3, <2>4, <2>5
<1>3. GrantInv /\ [GrantNext]_grantVars => [Barren]_grantVars
  BY <1>1, <1>2
<1>4. GrantSpec => [][Barren]_grantVars
  <2> HIDE DEF Barren
  <2> QED BY <1>3, GrantInvariant, PTL DEF GrantSpec
<1> QED BY <1>4 DEF NoRevival

(***************************************************************************)
(* The store implements the ledger.                                        *)
(***************************************************************************)

Good == {p \in Whole : <<p, "refresh">> \in kept} \cup Rotating
ParentOf == [p \in Whole |-> pairs[p].parent]

\* The putting of a refresh token is the step at which the ledger moves.
LEMMA LedgerMints ==
  ASSUME GrantInv, NEW r \in Task, Acts(r), MintRefresh(r), NEW p, p = task[r].new
  PROVE  /\ p \in 1..MaxPairs /\ p \notin Whole /\ DOMAIN ParentOf = Whole
         /\ ParentOf' = [q \in Whole \cup {p} |-> IF q = p THEN task[r].pair ELSE ParentOf[q]]
         /\ task[r].pair = 0 => Good' = Good \cup {p}
         /\ task[r].pair # 0 => task[r].pair \in Good /\ Good' = (Good \ {task[r].pair}) \cup {p}
<1> /\ Typed /\ (\A q \in Task : TaskInv(q)) /\ GrantTypeOK /\ task \in [Task -> TaskRecord]
  BY DEF GrantInv, Typed
<1>0. /\ task[r].pc = "refresh" /\ Granting(r) /\ p \in 1..Len(pairs) /\ p \in Nat
      /\ ~pairs[p].whole /\ pairs[p].parent = task[r].pair
      /\ kept' = kept \cup {<<p, "refresh">>}
  <2>1. task[r].pc = "refresh" /\ kept' = kept \cup {<<p, "refresh">>}
    BY DEF MintRefresh, On
  <2>2. Granting(r)
    BY <2>1 DEF TaskInv, Staged, Granting
  <2>3. OwnPair(r)
    BY DEF TaskInv
  <2>4. /\ p \in 1..Len(pairs) /\ p \in Nat
        /\ ~pairs[p].whole /\ pairs[p].parent = task[r].pair
    BY <2>1, <2>2, <2>3 DEF OwnPair, Minting
  <2> QED BY <2>1, <2>2, <2>4
<1>1. /\ Len(pairs') = Len(pairs)
      /\ \A q \in 1..Len(pairs) : /\ q # p => pairs'[q] = pairs[q]
                                  /\ pairs'[q].parent = pairs[q].parent
      /\ pairs'[p].whole
  BY RefreshMinted
<1>2. p \in 1..MaxPairs /\ p \notin Whole /\ Whole' = Whole \cup {p}
  <2>1. Len(pairs) \in Nat /\ Len(pairs) <= MaxPairs
    BY PairTyped
  <2>2. p \in 1..MaxPairs
    BY <1>0, <2>1
  <2> QED BY <1>0, <1>1, <2>2 DEF Whole
<1>3. ParentOf' = [q \in Whole \cup {p} |-> IF q = p THEN task[r].pair ELSE ParentOf[q]]
  <2>1. \A q \in Whole : pairs'[q].parent = pairs[q].parent /\ q # p /\ ParentOf[q] = pairs[q].parent
    BY <1>1, <1>2 DEF Whole, ParentOf
  <2>2. pairs'[p].parent = task[r].pair
    BY <1>0, <1>1
  <2>3. ParentOf' = [q \in Whole' |-> pairs'[q].parent]
    BY DEF ParentOf
  <2> QED BY <1>2, <2>1, <2>2, <2>3
<1>4. {q \in Whole' : <<q, "refresh">> \in kept'} = {q \in Whole : <<q, "refresh">> \in kept} \cup {p}
  BY <1>0, <1>2
<1>5. SameTask(r) /\ task'[r].pc = "read" /\ \A q \in Task \ {r} : task'[q] = task[q]
  BY GoingOn, OthersStay DEF MintRefresh
<1>6. CASE task[r].op = "exchange"
  <2>1. task[r].pair = 0
    BY <1>6 DEF TaskInv, OwnPair
  <2>2. Rotating' = Rotating
    BY <1>5, <1>6 DEF SameTask, Rotating
  <2> QED BY <1>2, <1>3, <1>4, <2>1, <2>2 DEF Good, ParentOf
<1>7. CASE task[r].op = "rotate"
  <2>1. task[r].pair \in 1..Len(pairs) /\ <<task[r].pair, "refresh">> \notin kept /\ task[r].pair # 0 /\ task[r].pair # p
    <3>1. TaskInv(r)
      OBVIOUS
    <3>2. task[r].pair \in 1..Len(pairs) /\ <<task[r].pair, "refresh">> \notin kept /\ pairs[task[r].pair].whole
      BY <1>0, <1>7, <3>1 DEF TaskInv, OldPair, Minting
    <3> QED BY SMTT(30), <1>0, <3>2, PairTyped
  <2>2. \A q \in Task \ {r} : ~(task[q].op = "rotate" /\ task[q].pc \in {"access", "refresh"})
    BY <1>0, <1>7 DEF TaskInv, Mutex, Locking, Minting
  <2>3. Rotating = {task[r].pair}
    BY <1>0, <1>7, <2>2 DEF Rotating
  <2>4. Rotating' = {}
    BY <1>5, <2>2 DEF Rotating
  <2> QED BY <1>2, <1>3, <1>4, <2>1, <2>3, <2>4 DEF Good, ParentOf
<1> QED BY <1>0, <1>6, <1>7 DEF Granting

\* Any other step can only lose what is good.
LEMMA LedgerLoses ==
  ASSUME GrantInv, [GrantNext]_grantVars, \A r \in Task : ~(Acts(r) /\ MintRefresh(r))
  PROVE  ParentOf' = ParentOf /\ Good' \subseteq Good
<1> /\ Typed /\ PairsInv /\ (\A q \in Task : TaskInv(q)) /\ GrantTypeOK /\ task \in [Task -> TaskRecord]
  BY DEF GrantInv, Typed
<1>l. Len(pairs) \in Nat
  BY PairTyped
<1>1. ASSUME NEW r \in Task, Acts(r)
      PROVE  ParentOf' = ParentOf /\ Good' \subseteq Good
  <2>g. PairsGrow(r) /\ TokensMove(r)
    BY <1>1, PairsOnlyGrow, TokensOnlyMove
  <2>1. Whole' = Whole /\ \A p \in Whole : pairs'[p].parent = pairs[p].parent
    <3>1. CASE MintAccess(r)
      BY <1>l, <3>1, AccessMinted DEF Whole
    <3>2. CASE ~MintAccess(r)
      BY <1>1, <3>2, PairsOnlyGrow DEF Whole
    <3> QED BY <3>1, <3>2
  <2>2. {q \in Whole' : <<q, "refresh">> \in kept'} \subseteq {q \in Whole : <<q, "refresh">> \in kept}
    <3>1. task[r].pc = "refresh" => task[r].new \notin Whole
      BY DEF TaskInv, Staged, OwnPair, Granting, Minting, Whole
    <3>2. Len(pairs) + 1 \notin Whole
      BY <1>l DEF Whole
    <3> QED BY <2>1, <2>g, <3>1, <3>2 DEF TokensMove
  <2>3. ASSUME NEW q \in Task, task'[q].op = "rotate", task'[q].pc \in {"access", "refresh"}
        PROVE  task'[q].pair \in Good
    <3>1. CASE q # r
      BY <1>1, <2>3, <3>1, OthersStay DEF Rotating, Good
    <3>2. CASE q = r /\ task'[q].pc = "access"
      <4>1. task'[r].pair = task[r].pair /\ task[r].op = "rotate" /\ task[r].pc = "invalidate"
        BY <1>1, <2>3, <3>2, RotationBegins
      <4>2. task[r].pair \in 1..Len(pairs) /\ <<task[r].pair, "refresh">> \in kept
        BY <4>1 DEF TaskInv, OldPair
      <4> QED BY <3>2, <4>1, <4>2 DEF PairsInv, Good, Whole
    <3>3. CASE q = r /\ task'[q].pc = "refresh"
      <4>1. MintAccess(r)
        <5>1. CASE GrantStep(r)
          <6> task[r] \in TaskRecord
            OBVIOUS
          <6> QED BY <1>1, <2>3, <3>3, <5>1, IdleTyped, GoingOn DEF GrantStep, Register, Update, ReadActivity, BumpActivity,
                Flush, FlushFails, LockToRotate, LockToRevoke, LockToPurge, Invalidate, Remove, Purge, Unregister, Done, TaskRecord
        <5>2. CASE r \in Req /\ RequestStarts(r)
          BY <2>3, <3>3, <5>2, RequestStarted
        <5>3. CASE r = Cleanup /\ SweepStep
          BY <2>3, <3>3, <5>3, IdleTyped, SweepStarted DEF SweepStep, SweepNextClient, SweepOrphans, Done, At, TaskRecord
        <5> QED BY <1>1, <5>1, <5>2, <5>3 DEF Acts
      <4>2. task[r].op = "rotate" /\ task[r].pc = "access" /\ task'[r].pair = task[r].pair
        BY <2>3, <3>3, <4>1 DEF MintAccess, On, TaskRecord
      <4> QED BY <3>3, <4>2 DEF Rotating, Good
    <3> QED BY <2>3, <3>1, <3>2, <3>3
  <2>4. Rotating' \subseteq Good
    BY <2>3 DEF Rotating
  <2>5. ParentOf' = ParentOf
    BY <2>1 DEF ParentOf
  <2> QED BY <2>2, <2>4, <2>5 DEF Good
<1>2. CASE GrantTick \/ GrantCrash
  <2>1. /\ Len(pairs') = Len(pairs) /\ kept' \subseteq kept
        /\ \A p \in 1..Len(pairs) : pairs'[p].parent = pairs[p].parent /\ pairs'[p].whole = pairs[p].whole
    <3>1. CASE GrantTick
      BY <3>1, TickProperties DEF GrantTick, history
    <3>2. CASE GrantCrash
      BY <3>2 DEF GrantCrash, history, GrantTypeOK
    <3> QED BY <1>2, <3>1, <3>2
  <2>2. Rotating' = {}
    BY <1>2, IdleTyped DEF Rotating, GrantTick, GrantCrash, On
  <2>3. Whole' = Whole /\ \A p \in Whole : pairs'[p].parent = pairs[p].parent
    BY <2>1 DEF Whole
  <2> QED BY <2>1, <2>2, <2>3 DEF Good, ParentOf
<1>3. CASE UNCHANGED grantVars \/ NothingFound
  BY <1>3 DEF grantVars, NothingFound, RevokeUnknown, history, ParentOf, Good, Whole, Rotating
<1> QED BY <1>1, <1>2, <1>3 DEF GrantNext, NothingFound, Acts, Task

\* Locks, buffers, files and crashes notwithstanding, a refresh token is replaced in one step by its
\* successor or lost, and never comes back (token-store.ts).
THEOREM LedgerKeptHolds == GrantSpec => LedgerKept
<1>1. GrantInit => Ledger!Init
  <2> SUFFICES ASSUME GrantInit
               PROVE  Good = DOMAIN ParentOf /\ \E S \in SUBSET (1..MaxPairs) : ParentOf = [p \in S |-> 0]
    BY DEF Ledger!Init, Good, ParentOf
  <2>1. GrantInv /\ kept = (DOMAIN pairs) \X Kind /\ \A r \in Task : task[r] = Idle
    BY GrantInitInv DEF GrantInit
  <2>2. DOMAIN pairs = 1..Len(pairs) /\ Len(pairs) <= MaxPairs /\ Len(pairs) \in Nat
    BY <2>1, PairTyped DEF GrantInv, Typed
  <2>3. \A p \in 1..Len(pairs) : pairs[p].parent = 0
    BY DEF GrantInit
  <2>4. Rotating = {}
    BY <2>1, IdleTyped DEF Rotating
  <2>5. Whole \in SUBSET (1..MaxPairs) /\ \A p \in Whole : p \in 1..Len(pairs)
    BY <2>2 DEF Whole, GrantAssumption
  <2>6. ParentOf = [p \in Whole |-> 0]
    BY <2>3, <2>5 DEF ParentOf
  <2> QED BY <2>1, <2>2, <2>4, <2>5, <2>6 DEF Good, Kind
<1>2. GrantInv /\ [GrantNext]_grantVars => [Ledger!Next]_(Ledger!vars)
  <2> SUFFICES ASSUME GrantInv, [GrantNext]_grantVars
               PROVE  \/ \E p \in 1..MaxPairs : /\ p \notin DOMAIN ParentOf
                                                /\ ParentOf' = [q \in DOMAIN ParentOf \cup {p} |-> IF q = p THEN 0 ELSE ParentOf[q]]
                                                /\ Good' = Good \cup {p}
                      \/ \E p \in 1..MaxPairs, t \in Good :
                           /\ p \notin DOMAIN ParentOf
                           /\ ParentOf' = [q \in DOMAIN ParentOf \cup {p} |-> IF q = p THEN t ELSE ParentOf[q]]
                           /\ Good' = (Good \ {t}) \cup {p}
                      \/ \E S \in SUBSET Good : Good' = Good \ S /\ ParentOf' = ParentOf
    BY DEF Ledger!Next, Ledger!Issue, Ledger!Exchange, Ledger!Issued, Ledger!Lose, Ledger!vars, Good, ParentOf
  <2>1. CASE \E r \in Task : Acts(r) /\ MintRefresh(r)
    <3>1. PICK r \in Task : Acts(r) /\ MintRefresh(r)
      BY <2>1
    <3> DEFINE p == task[r].new
               t == task[r].pair
    <3>2. /\ p \in 1..MaxPairs /\ p \notin Whole /\ DOMAIN ParentOf = Whole
          /\ ParentOf' = [q \in Whole \cup {p} |-> IF q = p THEN t ELSE ParentOf[q]]
          /\ t = 0 => Good' = Good \cup {p}
          /\ t # 0 => t \in Good /\ Good' = (Good \ {t}) \cup {p}
      BY <3>1, LedgerMints
    <3> HIDE DEF p, t
    <3>3. CASE t = 0
      BY <3>2, <3>3
    <3>4. CASE t # 0
      BY <3>2, <3>4
    <3> QED BY <3>3, <3>4
  <2>2. CASE \A r \in Task : ~(Acts(r) /\ MintRefresh(r))
    <3>1. ParentOf' = ParentOf /\ Good' \subseteq Good
      BY <2>2, LedgerLoses
    <3>2. Good' = Good \ (Good \ Good') /\ (Good \ Good') \in SUBSET Good
      BY <3>1
    <3> QED BY <3>1, <3>2
  <2> QED BY <2>1, <2>2
<1> QED BY <1>1, <1>2, GrantInvariant, PTL DEF GrantSpec, LedgerKept, Ledger!Spec
=============================================================================
