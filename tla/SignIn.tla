---- MODULE SignIn ----
(***************************************************************************)
(* Signing in: from /authorize over the consent screen and the upstream    *)
(* identity provider to the authorization code and its redemption.  What   *)
(* is held in memory on the way lives in three stores with a lifetime and  *)
(* a cap; each hand-over is good once.                                     *)
(***************************************************************************)
EXTENDS Naturals, FiniteSets

CONSTANTS
  Flow,         \* authorization attempts
  Recognized,   \* those whose redirect origin is on the allowlist
  Lifetime,     \* per store: how many ticks an entry is good for
  MaxEntries    \* the cap of every store

Store == {"consent", "request", "code"}

ASSUME SignInAssumption == /\ Recognized \subseteq Flow
                           /\ Lifetime \in [Store -> Nat]
                           /\ MaxEntries \in Nat \ {0}

VARIABLES
  entries,      \* per store: the age of each flow's entry
  handed,       \* per flow: the stores whose key its user or client was handed
  returning,    \* flows whose callback awaits the identity provider
  checked,      \* per flow: token requests past the PKCE check, before redemption
  consented,    \* flows whose user pressed Allow
  grants        \* per flow: how often its code was redeemed for tokens

signInVars == <<entries, handed, returning, checked, consented, grants>>

SignInTypeOK ==
  /\ DOMAIN entries = Store
  /\ \A s \in Store : /\ DOMAIN entries[s] \subseteq Flow
                      /\ \A f \in DOMAIN entries[s] : entries[s][f] \in 0..(Lifetime[s] + 1)
  /\ handed \in [Flow -> SUBSET Store]
  /\ returning \subseteq Flow
  /\ checked \in [Flow -> 0..2]
  /\ consented \subseteq Flow
  /\ grants \in [Flow -> Nat]

SignInInit ==
  /\ entries = [s \in Store |-> [f \in {} |-> 0]]
  /\ handed = [f \in Flow |-> {}]
  /\ returning = {}
  /\ checked = [f \in Flow |-> 0]
  /\ consented = {}
  /\ grants = [f \in Flow |-> 0]

----------------------------------------------------------------------------
\* The TTL store.

Expired(s, f) == entries[s][f] > Lifetime[s]
Held(s, f) == f \in DOMAIN entries[s]
Live(s, f) == Held(s, f) /\ ~Expired(s, f)

Without(s, F) == [f \in DOMAIN entries[s] \ F |-> entries[s][f]]
Swept(s) == Without(s, {f \in DOMAIN entries[s] : Expired(s, f)})

\* What a put works on: at the cap, the expired entries go first.
MutRoomFor(s, f) == IF ~Held(s, f) /\ Cardinality(DOMAIN entries[s]) >= MaxEntries
                    THEN Without(s, {CHOOSE g \in DOMAIN entries[s] : TRUE})
                    ELSE entries[s]
RoomFor(s, f) == IF ~Held(s, f) /\ Cardinality(DOMAIN entries[s]) >= MaxEntries THEN Swept(s) ELSE entries[s]
Fits(s, f) == \/ f \in DOMAIN RoomFor(s, f)
              \/ Cardinality(DOMAIN RoomFor(s, f)) < MaxEntries

PutResult(s, f) == LET room == RoomFor(s, f)
                   IN IF Fits(s, f) THEN [g \in DOMAIN room \cup {f} |-> IF g = f THEN 0 ELSE room[g]] ELSE room

MutConsumed(s, f) == entries[s]
Consumed(s, f) == Without(s, {f})

----------------------------------------------------------------------------
\* The handlers.  Each runs to its end, or to the await on the identity provider.

\* redirectUpstream: a state and a nonce, or 503 when the store is full.
Upstream(f, others) ==
  /\ entries' = [others EXCEPT !["request"] = PutResult("request", f)]
  /\ handed' = IF Fits("request", f) THEN [handed EXCEPT ![f] = @ \cup {"request"}] ELSE handed

IsRecognized(f) == f \in Recognized

Authorize(f) ==
  /\ handed[f] = {}
  /\ IF IsRecognized(f)
     THEN Upstream(f, entries)
     ELSE /\ entries' = [entries EXCEPT !["consent"] = PutResult("consent", f)]
          /\ handed' = IF Fits("consent", f) THEN [handed EXCEPT ![f] = @ \cup {"consent"}] ELSE handed
  /\ UNCHANGED <<returning, checked, consented, grants>>

\* The form may be posted again, late, or with another decision.
Consent(f) ==
  /\ "consent" \in handed[f]
  /\ LET spent == [entries EXCEPT !["consent"] = Consumed("consent", f)]
     IN \/ /\ Live("consent", f)
           /\ Upstream(f, spent)
           /\ consented' = consented \cup {f}
        \/ /\ entries' = spent          \* denied, or the ticket is unknown or expired
           /\ UNCHANGED <<handed, consented>>
  /\ UNCHANGED <<returning, checked, grants>>

\* The browser may deliver the callback more than once.
Callback(f) ==
  /\ "request" \in handed[f]
  /\ entries' = [entries EXCEPT !["request"] = Consumed("request", f)]
  /\ returning' \in {returning} \cup {returning \cup {g} : g \in {h \in {f} : Live("request", h)}}
  /\ UNCHANGED <<handed, checked, consented, grants>>

\* Which identities are let in: by address, if its verification satisfies the policy, or by subject.
Claims == [email : BOOLEAN, verified : {"true", "false", "absent"}, sub : BOOLEAN]
PolicyAllows(verified, policy) ==
  \/ policy = "skip"
  \/ policy = "strict" /\ verified = "true"
  \/ policy = "if-present" /\ verified # "false"
Admitted(claims, policy) == (claims.email /\ PolicyAllows(claims.verified, policy)) \/ claims.sub

\* The code exchange or the verification of the id token fails, the identity is denied, the code
\* store is full; or there is a code.
CallbackEnds(f) ==
  /\ f \in returning
  /\ returning' = returning \ {f}
  /\ \/ UNCHANGED <<entries, handed>>
     \/ \E claims \in Claims, policy \in {"strict", "skip", "if-present"} :
          /\ Admitted(claims, policy)
          /\ entries' = [entries EXCEPT !["code"] = PutResult("code", f)]
          /\ handed' = IF Fits("code", f) THEN [handed EXCEPT ![f] = @ \cup {"code"}] ELSE handed
  /\ UNCHANGED <<checked, consented, grants>>

\* The library asks for the challenge first, in the same token request; a peek evicts what has expired.
Challenge(f) ==
  /\ "code" \in handed[f]
  /\ checked[f] < 2
  /\ IF Live("code", f)
     THEN checked' = [checked EXCEPT ![f] = @ + 1] /\ UNCHANGED entries
     ELSE entries' = [entries EXCEPT !["code"] = Consumed("code", f)] /\ UNCHANGED checked
  /\ UNCHANGED <<handed, returning, consented, grants>>

\* The code is spent whether or not client, redirect and resource match.
Redeem(f) ==
  /\ checked[f] > 0
  /\ checked' = [checked EXCEPT ![f] = @ - 1]
  /\ entries' = [entries EXCEPT !["code"] = Consumed("code", f)]
  /\ \/ Live("code", f) /\ grants' = [grants EXCEPT ![f] = @ + 1]
     \/ UNCHANGED grants
  /\ UNCHANGED <<handed, returning, consented>>

\* The memory part of a cleanup sweep, which runs whether or not the disk is well.
SweepStores ==
  /\ entries' = [s \in Store |-> Swept(s)]
  /\ UNCHANGED <<handed, returning, checked, consented, grants>>

AgedEntry(s, f) == IF Expired(s, f) THEN entries[s][f] ELSE entries[s][f] + 1
Older ==
  /\ entries' = [s \in Store |-> [f \in DOMAIN entries[s] |-> AgedEntry(s, f)]]
  /\ UNCHANGED <<handed, returning, checked, consented, grants>>

\* A restart forgets every flow that is under way.
ForgetFlows ==
  /\ entries' = [s \in Store |-> [f \in {} |-> 0]]
  /\ returning' = {}
  /\ checked' = [f \in Flow |-> 0]
  /\ UNCHANGED <<handed, consented, grants>>

SignInNext ==
  \/ \E f \in Flow : Authorize(f) \/ Consent(f) \/ Callback(f) \/ CallbackEnds(f) \/ Challenge(f) \/ Redeem(f)
  \/ SweepStores
  \/ Older
  \/ ForgetFlows

SignInSpec == SignInInit /\ [][SignInNext]_signInVars

----------------------------------------------------------------------------
\* A code yields tokens at most once, however often the client retries its token request and
\* whatever runs between the challenge and the exchange (provider.ts).
RedeemedOnce == \A f \in Flow : grants[f] <= 1

\* Tokens for a client at an unrecognized origin exist only if its user pressed Allow, at whatever
\* point tickets, states and codes were dropped, swept or presented again (provider.ts, routes.ts).
ConsentFirst == \A f \in Flow \ Recognized : grants[f] > 0 => f \in consented

\* No store grows past its cap, whichever of its entries have expired (ttl-store.ts).
StoresCapped == \A s \in Store : Cardinality(DOMAIN entries[s]) <= MaxEntries

\* The three together: what a client can get out of signing in, and what it costs the server.
SignInSafe == RedeemedOnce /\ ConsentFirst /\ StoresCapped

\* An entry that has not expired leaves its store only by its own flow's next request or a restart:
\* a full store turns the newcomer away and a sweep passes the entry over (ttl-store.ts).
OwnStep(s, f) == \/ s = "consent" /\ Consent(f)
                 \/ s = "request" /\ Callback(f)
                 \/ s = "code" /\ Redeem(f)
                 \/ ForgetFlows
InFlightKept == [][\A s \in Store, f \in Flow : Live(s, f) /\ f \notin DOMAIN entries'[s] => OwnStep(s, f)]_signInVars
====
