---- MODULE Grants ----
(***************************************************************************)
(* The OAuth registry: clients that register themselves, the pairs of an   *)
(* access and a refresh token they are granted, rotation and revocation,   *)
(* and the sweep that removes what nobody uses any more.  Both are files   *)
(* behind a write buffer: a put is visible at once and durable after a     *)
(* flush, a removal is both.  A tick of the clock is long next to a        *)
(* request, so it falls between requests.                                  *)
(***************************************************************************)
EXTENDS Naturals, FiniteSets, Sequences

CONSTANTS
  Client,       \* client ids the server can draw
  NoClient,
  Req,          \* concurrent HTTP requests
  Cleanup,      \* the background sweep
  Uri,          \* redirect URIs a client may ask for
  Permitted,    \* those with https or a loopback host
  MaxClients,
  AccessTTL, RefreshTTL, StaleAfter,   \* in ticks
  MaxStarts,    \* bound: requests ever made
  MaxBusy,      \* bound: requests, the sweep among them, under way at once
  MaxPairs,     \* bound: pairs ever minted
  MaxFaults     \* bound: failed disk operations and crashes

ASSUME GrantAssumption ==
  /\ Client # {} /\ Client \cap Nat = {}      \* ids of clients and numbers of pairs are told apart
  /\ Cleanup \notin Req /\ NoClient \notin Client \cup Req \cup {Cleanup}
  /\ Permitted \subseteq Uri /\ Permitted # {}
  /\ MaxClients \in Nat \ {0} /\ MaxPairs \in Nat \ {0}   \* the initial state may hold a client and its pair
  /\ MaxStarts \in Nat /\ MaxBusy \in Nat /\ MaxFaults \in Nat
  /\ AccessTTL \in Nat /\ RefreshTTL \in Nat /\ StaleAfter \in Nat
  /\ AccessTTL <= RefreshTTL /\ RefreshTTL < StaleAfter

Kind == {"access", "refresh"}
Task == Req \cup {Cleanup}

VARIABLES
  reg,          \* registered client -> its redirect URIs and ticks since its last token activity
  regDisk,      \* the same, on disk
  pairs,        \* the pairs ever minted: client, the pair whose refresh token was rotated (or 0), age,
                \*   and whether its refresh token was put
  kept,         \* the tokens a look-up finds
  durable,      \* those on disk
  task,         \* per request: what it does and where it is
  lock,         \* who holds _rotateLock
  answered,     \* history: pairs and clients the server has handed out
  revoked,      \* history: refresh tokens that a revocation has found and removed
  gone,         \* history: clients whose record was removed, by their own request or by the sweep
  cut,          \* history: pairs whose refresh token a finished cascade has removed
  slipped,      \* history: clients whose last activity was overwritten by an older one
  starts,       \* requests made
  grantFaults

grantVars == <<reg, regDisk, pairs, kept, durable, task, lock, answered, revoked, gone, cut, slipped, starts, grantFaults>>
history == <<answered, revoked, gone, cut, slipped>>

Token == (1..MaxPairs) \X Kind
ClientRecord == [uris : SUBSET Uri, idle : 0..(StaleAfter + 1)]
Idle == [op |-> "idle", pc |-> "idle", client |-> NoClient, pair |-> 0, new |-> 0,
         read |-> {}, tokens |-> {}, todo |-> {}]

GrantTypeOK ==
  /\ DOMAIN reg \subseteq Client /\ \A c \in DOMAIN reg : reg[c] \in ClientRecord
  /\ DOMAIN regDisk \subseteq DOMAIN reg /\ \A c \in DOMAIN regDisk : regDisk[c] \in ClientRecord
  /\ pairs \in Seq([client : Client, parent : 0..MaxPairs, whole : BOOLEAN, age : 0..(RefreshTTL + 1)]) /\ Len(pairs) <= MaxPairs
  /\ kept \subseteq (1..Len(pairs)) \X Kind /\ durable \subseteq kept
  /\ lock \in Task \cup {NoClient}
  /\ answered \subseteq (1..MaxPairs) \cup Client
  /\ revoked \subseteq Token /\ gone \subseteq Client /\ cut \subseteq 1..MaxPairs /\ slipped \subseteq Client
  /\ grantFaults \in 0..MaxFaults

\* A boot, on an empty disk or on one that holds a client and its grant.
GrantInit ==
  /\ \E C \in {{}, {CHOOSE c \in Client : TRUE}} :
       /\ reg = [c \in C |-> [uris |-> Permitted, idle |-> 0]] /\ regDisk = reg
       /\ pairs \in (IF C = {} THEN {<<>>} ELSE {<<[client |-> c, parent |-> 0, whole |-> TRUE, age |-> 0]>> : c \in C})
       /\ kept = (DOMAIN pairs) \X Kind /\ durable = kept
       /\ answered = C \cup DOMAIN pairs
  /\ task = [r \in Task |-> Idle] /\ lock = NoClient /\ starts = 0
  /\ revoked = {} /\ gone = {} /\ cut = {} /\ slipped = {}
  /\ grantFaults = 0

----------------------------------------------------------------------------
\* Owners, expiry, and what a flush does.

TTL(kind) == IF kind = "access" THEN AccessTTL ELSE RefreshTTL
Owner(t) == pairs[t[1]].client
TokenExpired(t) == pairs[t[1]].age > TTL(t[2])
OwnedBy(c) == {t \in kept : Owner(t) = c}
Restricted(f, S) == [c \in S |-> f[c]]

At(r, op, pc) == task[r].op = op /\ task[r].pc = pc
On(r, pc) == task[r].pc = pc
Goto(r, pc) == task' = [task EXCEPT ![r].pc = pc]
Ready(r) == On(r, "idle") /\ Cardinality({q \in Task : ~On(q, "idle")}) < MaxBusy
Done(r) == task' = [task EXCEPT ![r] = Idle]
Release(r) == lock' = IF lock = r THEN NoClient ELSE lock

\* Every put that is still in a buffer, whoever made it, goes to disk.
Flushed == durable' = kept' /\ regDisk' = reg'
Unflushed == UNCHANGED <<durable, regDisk>>

\* A flush that fails has written some of it.
HalfFlushed == /\ \E S \in SUBSET (kept \ durable) : durable' = durable \cup S
               /\ regDisk' \in {regDisk, reg}
Fault == grantFaults < MaxFaults /\ grantFaults' = grantFaults + 1

\* remove unlinks the file and drops the buffered entry.
Dropped(S) == kept' = kept \ S

\* Some of the removals, or the flush behind them, failed.
MutDropFails(S) == /\ Fault
                   /\ \E T \in SUBSET S : Dropped(T)
                   /\ Unflushed
DropFails(S) == /\ Fault
                /\ \E T \in SUBSET S : Dropped(T)
                /\ durable' = durable \cap kept'
                /\ UNCHANGED regDisk

----------------------------------------------------------------------------
\* Registration: the cap is checked again, with the put, under the cache's mutex.

ValidRegistration(uris) == uris # {} /\ uris \subseteq Permitted
\* An update's redirect URIs may be absent: patch is empty or holds the one new set.
Patch == {{}} \cup {{uris} : uris \in SUBSET Uri}
MutValidUpdate(patch) == \A uris \in patch : uris \subseteq Permitted
ValidUpdate(patch) == \A uris \in patch : ValidRegistration(uris)

RoomForClient == Cardinality(DOMAIN reg) < MaxClients

\* buildClientCap: the fast check.
StartRegister(r, c) ==
  /\ Ready(r)
  /\ c \notin answered \cup gone \cup DOMAIN reg
  /\ \A q \in Task : task[q].client # c
  /\ Cardinality(DOMAIN reg) < MaxClients
  /\ task' = [task EXCEPT ![r] = [Idle EXCEPT !.op = "register", !.pc = "put", !.client = c]]
  /\ UNCHANGED <<reg, regDisk, pairs, kept, durable, lock, history, grantFaults>>

Register(r) ==
  /\ At(r, "register", "put")
  /\ \/ \E uris \in SUBSET Uri :
          /\ ValidRegistration(uris)
          /\ RoomForClient
          /\ reg' = [c \in DOMAIN reg \cup {task[r].client} |->
                       IF c = task[r].client THEN [uris |-> uris, idle |-> 0] ELSE reg[c]]
          /\ Goto(r, "flush")
     \/ /\ ~RoomForClient \/ \E uris \in SUBSET Uri : ~ValidRegistration(uris)
        /\ Done(r)
        /\ UNCHANGED reg
  /\ UNCHANGED <<regDisk, pairs, kept, durable, lock, history, grantFaults>>

\* PUT /register/:id.  The record is read, merged and written back.
StartUpdate(r, c) ==
  /\ Ready(r)
  /\ c \in DOMAIN reg \cap answered
  /\ task' = [task EXCEPT ![r] = [Idle EXCEPT !.op = "update", !.pc = "write", !.client = c, !.read = {reg[c]}]]
  /\ UNCHANGED <<reg, regDisk, pairs, kept, durable, lock, history, grantFaults>>

Update(r) ==
  LET c == task[r].client
  IN /\ At(r, "update", "write")
     /\ \E patch \in Patch, old \in task[r].read :
          IF ValidUpdate(patch)
          THEN /\ reg' = [d \in DOMAIN reg \cup {c} |->
                            IF d # c THEN reg[d]
                            ELSE [old EXCEPT !.uris = IF patch = {} THEN @ ELSE UNION patch]]
               /\ slipped' = IF c \in DOMAIN reg /\ old.idle > reg[c].idle THEN slipped \cup {c} ELSE slipped
               /\ Goto(r, "flush")
          ELSE Done(r) /\ UNCHANGED <<reg, slipped>>
     /\ UNCHANGED <<regDisk, pairs, kept, durable, lock, answered, revoked, gone, cut, grantFaults>>

----------------------------------------------------------------------------
\* The bound on pairs: one is left for every grant under way.
PairLeft == Len(pairs) + Cardinality({q \in Task : task[q].op \in {"exchange", "rotate"} /\ task[q].new = 0}) < MaxPairs

\* Minting: access, refresh, the client's last activity read and written back, flush.  A code
\* exchange does it without the lock, a rotation under it.

StartExchange(r, c) ==
  /\ Ready(r) /\ PairLeft
  /\ c \in DOMAIN reg \cap answered
  /\ task' = [task EXCEPT ![r] = [Idle EXCEPT !.op = "exchange", !.pc = "access", !.client = c]]
  /\ UNCHANGED <<reg, regDisk, pairs, kept, durable, lock, history, grantFaults>>

MintAccess(r) ==
  /\ On(r, "access")
  /\ pairs' = Append(pairs, [client |-> task[r].client, parent |-> task[r].pair, whole |-> FALSE, age |-> 0])
  /\ kept' = kept \cup {<<Len(pairs) + 1, "access">>}
  /\ task' = [task EXCEPT ![r].pc = "refresh", ![r].new = Len(pairs) + 1]
  /\ UNCHANGED <<reg, regDisk, durable, lock, history, grantFaults>>

MintRefresh(r) ==
  /\ On(r, "refresh")
  /\ kept' = kept \cup {<<task[r].new, "refresh">>}
  /\ pairs' = [pairs EXCEPT ![task[r].new].whole = TRUE]
  /\ Goto(r, "read")
  /\ UNCHANGED <<reg, regDisk, durable, lock, history, grantFaults>>

ReadActivity(r) ==
  LET c == task[r].client
  IN /\ On(r, "read")
     /\ task' = [task EXCEPT ![r].pc = "bump", ![r].read = IF c \in DOMAIN reg THEN {reg[c]} ELSE {}]
     /\ UNCHANGED <<reg, regDisk, pairs, kept, durable, lock, history, grantFaults>>

MutBumpActivity(r) ==
  /\ On(r, "bump")
  /\ Goto(r, "flush")
  /\ UNCHANGED <<reg, regDisk, pairs, kept, durable, lock, history, grantFaults>>
BumpActivity(r) ==
  LET c == task[r].client
  IN /\ On(r, "bump")
     /\ reg' = [d \in DOMAIN reg \cup {e \in {c} : task[r].read # {}} |->
                  IF d = c /\ task[r].read # {} THEN [(CHOOSE x \in task[r].read : TRUE) EXCEPT !.idle = 0] ELSE reg[d]]
     /\ Goto(r, "flush")
     /\ UNCHANGED <<regDisk, pairs, kept, durable, lock, history, grantFaults>>

\* The last step of a registration, an update and a grant; the answer follows it.
Answer(r) == CASE task[r].op = "register" -> {task[r].client}
               [] task[r].op = "update" -> {}
               [] OTHER -> {task[r].new}
MutFlush(r) ==
  /\ On(r, "flush")
  /\ UNCHANGED <<reg, kept, durable, regDisk>>
  /\ answered' = answered \cup Answer(r)
  /\ Done(r) /\ Release(r)
  /\ UNCHANGED <<pairs, revoked, gone, cut, slipped, grantFaults>>
Flush(r) ==
  /\ On(r, "flush")
  /\ UNCHANGED <<reg, kept>>
  /\ Flushed
  /\ answered' = answered \cup Answer(r)
  /\ Done(r) /\ Release(r)
  /\ UNCHANGED <<pairs, revoked, gone, cut, slipped, grantFaults>>

FlushFails(r) ==
  /\ On(r, "flush")
  /\ Fault
  /\ HalfFlushed
  /\ Done(r) /\ Release(r)
  /\ UNCHANGED <<reg, pairs, kept, history>>

----------------------------------------------------------------------------
\* Rotation, revocation and cascades share _rotateLock.

StartRotate(r, p) ==
  /\ Ready(r) /\ PairLeft
  /\ p \in answered
  /\ pairs[p].client \in DOMAIN reg
  /\ task' = [task EXCEPT ![r] = [Idle EXCEPT !.op = "rotate", !.pc = "lock", !.client = pairs[p].client, !.pair = p]]
  /\ UNCHANGED <<reg, regDisk, pairs, kept, durable, lock, history, grantFaults>>

\* The token's record is looked up before the lock is taken, expired or not.
StartRevoke(r, t) ==
  /\ Ready(r)
  /\ t \in kept
  /\ t[1] \in answered
  /\ Owner(t) \in DOMAIN reg
  /\ task' = [task EXCEPT ![r] = [Idle EXCEPT !.op = "revoke", !.pc = "lock", !.client = Owner(t), !.tokens = {t}]]
  /\ UNCHANGED <<reg, regDisk, pairs, kept, durable, lock, history, grantFaults>>

\* Where there is no record the request is answered at once, though a rotation that has just taken the
\* token may be about to mint its heir.
RevokeUnknown(t) ==
  /\ \E r \in Req : Ready(r)
  /\ t \notin kept
  /\ t[1] \in answered
  /\ Owner(t) \in DOMAIN reg
  /\ starts < MaxStarts /\ starts' = starts + 1
  /\ UNCHANGED <<reg, regDisk, pairs, kept, durable, task, lock, history, grantFaults>>

\* DELETE /register/:id, past the check of the registration token.
StartDelete(r, c) ==
  /\ Ready(r)
  /\ c \in DOMAIN reg \cap answered
  /\ task' = [task EXCEPT ![r] = [Idle EXCEPT !.op = "delete", !.pc = "lock", !.client = c]]
  /\ UNCHANGED <<reg, regDisk, pairs, kept, durable, lock, history, grantFaults>>

MutUnlocked(r) == TRUE
Unlocked(r) == lock = NoClient

\* A rotation that finds no live refresh token answers invalid_grant.
LockToRotate(r) ==
  /\ At(r, "rotate", "lock")
  /\ Unlocked(r)
  /\ LET t == <<task[r].pair, "refresh">>
     IN IF t \in kept /\ ~TokenExpired(t) THEN lock' = r /\ Goto(r, "invalidate") ELSE Done(r) /\ UNCHANGED lock
  /\ UNCHANGED <<reg, regDisk, pairs, kept, durable, history, grantFaults>>

LockToRevoke(r) ==
  /\ At(r, "revoke", "lock")
  /\ lock = NoClient
  /\ lock' = r
  /\ Goto(r, "remove")
  /\ UNCHANGED <<reg, regDisk, pairs, kept, durable, history, grantFaults>>

\* removeAllForClient: the snapshot of the client's tokens.
LockToPurge(r) ==
  LET c == task[r].client
  IN /\ task[r].op \in {"delete", "sweep"} /\ On(r, "lock")
     /\ lock = NoClient
     /\ lock' = r
     /\ task' = [task EXCEPT ![r].pc = "purge", ![r].tokens = OwnedBy(c)]
     /\ UNCHANGED <<reg, regDisk, pairs, kept, durable, history, grantFaults>>

\* The old refresh token goes first; a failure here or later costs the grant.
Invalidate(r) ==
  LET old == {<<task[r].pair, "refresh">>}
  IN /\ On(r, "invalidate")
     /\ UNCHANGED reg
     /\ \/ Dropped(old) /\ Flushed /\ Goto(r, "access") /\ UNCHANGED <<lock, grantFaults>>
        \/ DropFails(old) /\ Done(r) /\ Release(r)
     /\ UNCHANGED <<pairs, history>>

Remove(r) ==
  /\ On(r, "remove")
  /\ UNCHANGED reg
  /\ \/ /\ Dropped(task[r].tokens) /\ Flushed
        /\ revoked' = revoked \cup {t \in task[r].tokens : t[2] = "refresh"}
        /\ UNCHANGED grantFaults
     \/ DropFails(task[r].tokens) /\ UNCHANGED revoked
  /\ Done(r) /\ Release(r)
  /\ UNCHANGED <<pairs, answered, gone, cut, slipped>>

Purge(r) ==
  /\ On(r, "purge")
  /\ UNCHANGED reg
  /\ \/ Dropped(task[r].tokens) /\ Flushed /\ Goto(r, "unregister") /\ UNCHANGED grantFaults
     \/ DropFails(task[r].tokens) /\ Done(r)
  /\ Release(r)
  /\ UNCHANGED <<pairs, history>>

\* deleteClient, after the lock is released.
Unregister(r) ==
  LET c == task[r].client
  IN /\ On(r, "unregister")
     /\ \/ /\ reg' = Restricted(reg, DOMAIN reg \ {c})
           /\ gone' = gone \cup {c}
           /\ cut' = cut \cup {t[1] : t \in {x \in task[r].tokens : x[2] = "refresh"}}
           /\ UNCHANGED kept
           /\ \/ /\ Flushed
                 /\ IF task[r].op = "delete" THEN Done(r)
                    ELSE task' = [task EXCEPT ![r].pc = "next", ![r].todo = @ \ {c}]
                 /\ UNCHANGED grantFaults
              \/ /\ regDisk' = Restricted(regDisk, DOMAIN regDisk \ {c})
                 /\ Fault /\ Done(r) /\ UNCHANGED durable
        \/ Fault /\ Done(r) /\ UNCHANGED <<reg, regDisk, kept, durable, gone, cut>>
     /\ UNCHANGED <<pairs, lock, answered, revoked, slipped>>

----------------------------------------------------------------------------
\* The sweep: one snapshot of clients and tokens, then the stale clients one by one, then the
\* expired tokens of everyone else, registered or not.

Stale(c) == reg[c].idle > StaleAfter
Orphans == {t \in kept : TokenExpired(t) /\ (Owner(t) \in DOMAIN reg => ~Stale(Owner(t)))}

SweepStarts ==
  /\ Ready(Cleanup)
  /\ task' = [task EXCEPT ![Cleanup] = [Idle EXCEPT !.op = "sweep", !.pc = "next", !.todo = {c \in DOMAIN reg : Stale(c)},
                !.read = {[expired |-> Orphans, seen |-> answered,
                            due |-> {t \in kept : TokenExpired(t)}]}]]
  /\ UNCHANGED <<reg, regDisk, pairs, kept, durable, lock, history, grantFaults>>

SweepNextClient ==
  /\ At(Cleanup, "sweep", "next")
  /\ \E c \in task[Cleanup].todo : task' = [task EXCEPT ![Cleanup].pc = "lock", ![Cleanup].client = c]
  /\ UNCHANGED <<reg, regDisk, pairs, kept, durable, lock, history, grantFaults>>

SweepOrphans ==
  LET expired == UNION {x.expired : x \in task[Cleanup].read}
  IN /\ At(Cleanup, "sweep", "next")
     /\ task[Cleanup].todo = {}
     /\ UNCHANGED reg
     /\ \/ Dropped(expired) /\ (IF expired # {} THEN Flushed ELSE Unflushed) /\ UNCHANGED grantFaults
        \/ DropFails(expired)
     /\ Done(Cleanup)
     /\ UNCHANGED <<pairs, lock, history>>

Aged(age, top) == IF age > top THEN age ELSE age + 1
GrantTick ==
  /\ \A r \in Task : On(r, "idle")
  /\ pairs' = [p \in DOMAIN pairs |-> [pairs[p] EXCEPT !.age = Aged(@, RefreshTTL)]]
  /\ reg' = [c \in DOMAIN reg |-> [reg[c] EXCEPT !.idle = Aged(@, StaleAfter)]]
  /\ regDisk' = [c \in DOMAIN regDisk |-> [regDisk[c] EXCEPT !.idle = Aged(@, StaleAfter)]]
  /\ UNCHANGED <<kept, durable, task, lock, history, grantFaults>>

GrantCrash ==
  /\ Fault
  /\ kept' = durable /\ reg' = regDisk
  /\ task' = [r \in Task |-> Idle] /\ lock' = NoClient
  /\ UNCHANGED <<regDisk, durable, pairs, history>>

GrantStep(r) ==
  /\ UNCHANGED starts
  /\ \/ Register(r) \/ Update(r)
     \/ MintAccess(r) \/ MintRefresh(r) \/ ReadActivity(r) \/ BumpActivity(r) \/ Flush(r) \/ FlushFails(r)
     \/ LockToRotate(r) \/ LockToRevoke(r) \/ LockToPurge(r)
     \/ Invalidate(r) \/ Remove(r) \/ Purge(r) \/ Unregister(r)

\* Which free slot a request takes does not matter.
RequestStarts(r) ==
  /\ On(r, "idle") /\ r = CHOOSE q \in Req : On(q, "idle")
  /\ starts < MaxStarts
  /\ starts' = starts + 1
  /\ \/ \E c \in Client : StartRegister(r, c) \/ StartUpdate(r, c) \/ StartExchange(r, c) \/ StartDelete(r, c)
     \/ \E p \in 1..Len(pairs) : StartRotate(r, p) \/ \E k \in Kind : StartRevoke(r, <<p, k>>)

SweepStep == UNCHANGED starts /\ (SweepStarts \/ SweepNextClient \/ SweepOrphans)

GrantNext ==
  \/ \E r \in Req : RequestStarts(r)
  \/ \E p \in 1..Len(pairs), k \in Kind : RevokeUnknown(<<p, k>>)
  \/ \E r \in Task : GrantStep(r)
  \/ SweepStep
  \/ UNCHANGED starts /\ (GrantTick \/ GrantCrash)

GrantSpec == GrantInit /\ [][GrantNext]_grantVars

----------------------------------------------------------------------------
\* The store implements the ledger: while a rotation is between the removal of the old token and the
\* put of the new one, the ledger still counts the old one; what fails there is lost.
Rotating == {task[r].pair : r \in {q \in Task : task[q].op = "rotate" /\ task[q].pc \in {"access", "refresh"}}}
Whole == {p \in 1..Len(pairs) : pairs[p].whole}
Ledger == INSTANCE RefreshLedger WITH Grant <- 1..MaxPairs,
                                      good <- {p \in Whole : <<p, "refresh">> \in kept} \cup Rotating,
                                      parent <- [p \in Whole |-> pairs[p].parent]
\* A refresh token is replaced in one step by its successor or lost, and never comes back, whatever
\* locks, buffers and crashes lie between (token-store.ts).
LedgerKept == Ledger!Spec

\* A refresh token is good for one successor, however many requests present it at once and whatever
\* is revoked or deleted meanwhile (token-store.ts, the comment at _rotateLock): part of LedgerKept.
OneHeir == \A p, q \in 1..Len(pairs) : pairs[p].parent # 0 /\ pairs[p].parent = pairs[q].parent => p = q

\* No grant is minted from a refresh token that a revocation has found and removed, and no token once
\* handed out comes back: after a revocation that finds no record, and is answered all the same, only a
\* rotation that had already taken the token still mints from it (token-store.ts, revoke; provider.ts).
NoRevival ==
  [][/\ \A p \in (Len(pairs) + 1)..Len(pairs') : <<pairs'[p].parent, "refresh">> \notin revoked
     /\ \A t \in kept' \ kept : t[1] \notin answered]_grantVars

\* Once a client's record is removed, no token that its cascade saw is left, nor one rotated from
\* those; what is left was minted by a code exchange that ran past the cascade (token-store.ts).
FromCut(p) == \/ p \in cut
              \/ pairs[p].parent # 0 /\ pairs[p].parent \in cut
CascadeComplete == \A t \in kept : Owner(t) \in gone => ~FromCut(t[1])

\* A grant or a registration that was answered survives a crash, as long as nothing has removed it.
AnsweredIsDurable == /\ \A t \in kept : t[1] \in answered => t \in durable
                     /\ \A c \in DOMAIN reg \ gone : c \in answered => c \in DOMAIN regDisk

\* Both: what an answer promised, or took away, holds whatever runs or fails afterwards.
DurablyDone == CascadeComplete /\ AnsweredIsDurable

\* The sweep takes no token that is still good, unless it was granted while the sweep ran or
\* an update wrote an older last activity, or the client itself, back (cleanup.ts).
SweepSpares ==
  [][\A t \in kept \ kept' :
       ~TokenExpired(t) /\ t[1] \in answered /\ task'[Cleanup] # task[Cleanup] =>
         \/ \A x \in task[Cleanup].read : t[1] \notin x.seen
         \/ Owner(t) \in slipped \cup gone
         \/ GrantCrash]_grantVars

\* Clients stay under the cap whichever registrations race; those that a stale write brings back
\* after their deletion are not counted (client-registration.ts).
ClientsCapped == Cardinality(DOMAIN reg \ gone) <= MaxClients

\* Whatever is registered has redirect URIs, all permitted, after any sequence of registrations,
\* updates and write-backs (dcr-validator.ts).
RegistryWellFormed == \A c \in DOMAIN reg : reg[c].uris # {} /\ reg[c].uris \subseteq Permitted

\* The registry keeps its cap and its form whichever registrations, updates and write-backs race.
RegistryKept == ClientsCapped /\ RegistryWellFormed

\* A sweep that meets no failure leaves nothing that had expired when it began, the tokens of clients
\* deleted long ago included (cleanup.ts).
SweepComplete == [][SweepOrphans /\ grantFaults' = grantFaults
                      => \A x \in task[Cleanup].read : x.due \cap kept' = {}]_grantVars

\* A sweep works on one snapshot while grants go on: it takes all that is due and spares what is in use.
SweepsRight == SweepSpares /\ SweepComplete

\* _bumpLastActivity: "No-op if client is not found (race with deletion)".
GoneForGood == [][gone \cap DOMAIN reg' \subseteq DOMAIN reg]_grantVars
====
