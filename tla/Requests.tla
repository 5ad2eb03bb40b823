---- MODULE Requests ----
(***************************************************************************)
(* PaprikaClient: several requests to Paprika at a time.  They share one   *)
(* token and one circuit breaker, recipe fetches a bulkhead.  A request is *)
(* one or more calls, one after the other; a call is a run of attempts     *)
(* under the breaker and, if the token was refused, a sign-in and a second *)
(* run.                                                                    *)
(***************************************************************************)
EXTENDS Naturals, FiniteSets

CONSTANTS
  Request,      \* requests under way at a time
  MaxRetries,   \* maxAttempts: retries of a call, and of a sign-in
  Chain,        \* calls of an upload or a deletion, 3 in the code
  Concurrency,  \* recipeFetchConcurrency
  BreakAfter,   \* ConsecutiveBreaker: failed runs in a row that open the circuit
  MaxTrouble    \* how often Paprika forgets its tokens, errs, or its answer is lost

ASSUME RequestsAssumption == /\ MaxRetries \in Nat
                             /\ Chain \in Nat \ {0}
                             /\ Concurrency \in Nat \ {0}
                             /\ BreakAfter \in Nat \ {0}
                             /\ MaxTrouble \in Nat

VARIABLES
  token,     \* the token that is sent, 0 for none
  minted,    \* tokens Paprika has issued: 1..minted
  honored,   \* the ones it takes
  circuit,   \* state: "closed", "open" or "half"; fails: failed runs in a row; ready: the cool-down is over
  asking,    \* the requests
  trouble,   \* what can still go wrong
  told       \* history only, per request: the last call Paprika carried out, the attempts of this call,
             \* and whether no token it could have used was forgotten meanwhile

requestVars == <<token, minted, honored, circuit, asking, trouble, told>>

\* Reads are one call; an upload (the recipe, the photo, the recipe again) and a hard delete (a read,
\* the save, the notification) are Chain calls in a row.
Purpose == {"fetch", "list", "chain"}
Length(what) == IF what = "chain" THEN Chain ELSE 1

Unasked == [what |-> "list", at |-> "idle", call |-> 1, tries |-> 0, again |-> FALSE, probe |-> FALSE,
            bearer |-> 0, answer |-> "none"]
Is(r, at) == asking[r].at = at
UnderWay == {r \in Request : asking[r].at \notin {"idle", "ended"}}
Goes(r, at) == asking' = [asking EXCEPT ![r].at = at]
Ends(r, how) == asking' = [asking EXCEPT ![r] = [@ EXCEPT !.at = "ended", !.answer = how, !.probe = FALSE]]
Mishap == trouble > 0 /\ trouble' = trouble - 1

----------------------------------------------------------------------------
\* A run of a call.

\* Recipe fetches wait for their turn; whatever becomes of one leaves the others alone.
Asked(r) == \E what \in Purpose :
  /\ Is(r, "idle")
  /\ asking' = [asking EXCEPT ![r] = [@ EXCEPT !.what = what, !.at = IF what = "fetch" THEN "queued" ELSE "begins"]]
  /\ told' = [told EXCEPT ![r].spared = ~\E s \in UnderWay : Is(s, "signed") /\ asking[s].bearer \notin honored]
  /\ UNCHANGED <<token, minted, honored, circuit, trouble>>
Fetching == {r \in UnderWay : asking[r].what = "fetch" /\ ~Is(r, "queued")}
Enters(r) ==
  /\ Is(r, "queued") /\ Cardinality(Fetching) < Concurrency
  /\ Goes(r, "begins")
  /\ UNCHANGED <<token, minted, honored, circuit, trouble, told>>

\* The breaker lets the run pass, makes it its probe, or turns it away; during a probe it waits.
Begins(r) ==
  /\ Is(r, "begins") /\ circuit.state # "half"
  /\ IF circuit.state = "open" /\ ~circuit.ready
     THEN Ends(r, "open") /\ UNCHANGED circuit
     ELSE /\ asking' = [asking EXCEPT ![r] = [@ EXCEPT !.at = "ready", !.probe = circuit.state = "open"]]
          /\ circuit' = [circuit EXCEPT !.state = IF @ = "open" THEN "half" ELSE @]
  /\ UNCHANGED <<token, minted, honored, trouble, told>>

\* Each attempt, the first or after a pause, carries the token of the moment.
Attempt(r) ==
  /\ Is(r, "ready")
  /\ asking' = [asking EXCEPT ![r] = [@ EXCEPT !.at = "sent", !.bearer = token]]
  /\ told' = [told EXCEPT ![r].attempts = @ + 1]
  /\ UNCHANGED <<token, minted, honored, circuit, trouble>>

\* Paprika carries it out or refuses it; an answer can be lost, or its body unreadable, which is not worth a
\* retry, after the call was carried out.  "absent" is an error in a 200, told from a result by its envelope.
Answers(r, how) == asking' = [asking EXCEPT ![r] = [@ EXCEPT !.at = "answered", !.answer = how]]
CarriedOut(r) == told' = [told EXCEPT ![r].done = asking[r].call]
Arrives(r) ==
  /\ Is(r, "sent")
  /\ \/ /\ asking[r].bearer \notin honored
        /\ Answers(r, "expired") /\ UNCHANGED <<trouble, told>>
     \/ /\ asking[r].bearer \in honored
        /\ Answers(r, "ok") /\ CarriedOut(r) /\ UNCHANGED trouble
     \/ /\ asking[r].bearer \in honored /\ Mishap
        /\ \E how \in {"transient", "refused"} : Answers(r, how)
        /\ CarriedOut(r)
     \/ /\ Mishap
        /\ \E how \in {"transient", "refused", "absent"} : Answers(r, how)
        /\ UNCHANGED told
  /\ UNCHANGED <<token, minted, honored, circuit>>

\* What the end of a run means to the breaker.  Only an exhausted run counts as failed; an error that is
\* not worth a retry, a refused token too, neither counts nor resets, but ends a probe well.
Closed(c, fails) == [c EXCEPT !.state = IF @ = "half" THEN "closed" ELSE @, !.fails = fails]
Breaks(r) == circuit.state # "open" /\ (asking[r].probe \/ circuit.fails + 1 >= BreakAfter)
RunSucceeds(r) == circuit' = IF asking[r].probe THEN Closed(circuit, 0) ELSE [circuit EXCEPT !.fails = 0]
RunErrs(r) == circuit' = IF asking[r].probe THEN Closed(circuit, circuit.fails) ELSE circuit
RunFails(r) == circuit' = IF Breaks(r) THEN [state |-> "open", fails |-> circuit.fails, ready |-> FALSE]
                          ELSE [circuit EXCEPT !.fails = IF @ < BreakAfter THEN @ + 1 ELSE @]

NextCall(r) ==
  IF asking[r].call = Length(asking[r].what) THEN Ends(r, "ok") /\ UNCHANGED told
  ELSE /\ asking' = [asking EXCEPT ![r] = [@ EXCEPT !.at = "begins", !.call = asking[r].call + 1, !.tries = 0,
                                             !.again = FALSE, !.probe = FALSE, !.answer = "none"]]
       /\ told' = [told EXCEPT ![r].attempts = 0]

WorthARetry(r) == asking[r].answer = "transient" /\ asking[r].tries < MaxRetries
Retried(r, at) == asking' = [asking EXCEPT ![r] = [@ EXCEPT !.at = at, !.tries = asking[r].tries + 1]]

\* A refused token is answered by one sign-in and a second run, if there was a token at all.
SecondRun(r) == asking[r].again
Replays(r) == asking' = [asking EXCEPT ![r] = [@ EXCEPT !.at = "signs", !.tries = 0, !.probe = FALSE]]
Settles(r) ==
  /\ Is(r, "answered")
  /\ CASE asking[r].answer = "ok" -> NextCall(r) /\ RunSucceeds(r)
       [] WorthARetry(r) -> Retried(r, "ready") /\ UNCHANGED <<circuit, told>>
       [] asking[r].answer = "transient" /\ ~WorthARetry(r) -> Ends(r, "failed") /\ RunFails(r) /\ UNCHANGED told
       [] asking[r].answer = "expired" ->
            /\ IF SecondRun(r) \/ token = 0 THEN Ends(r, "auth") ELSE Replays(r)
            /\ RunErrs(r) /\ UNCHANGED told
       [] OTHER -> Ends(r, asking[r].answer) /\ RunErrs(r) /\ UNCHANGED told
  /\ UNCHANGED <<token, minted, honored, trouble>>

----------------------------------------------------------------------------
\* Signing in again, outside the breaker.

SignsIn(r) ==
  /\ Is(r, "signs")
  /\ \/ /\ minted' = minted + 1 /\ honored' = honored \cup {minted'}
        /\ asking' = [asking EXCEPT ![r] = [@ EXCEPT !.at = "signed", !.answer = "ok", !.bearer = minted']]
        /\ UNCHANGED trouble
     \/ /\ Mishap /\ UNCHANGED <<minted, honored>>
        /\ \E how \in {"transient", "refused"} :
             asking' = [asking EXCEPT ![r] = [@ EXCEPT !.at = "signed", !.answer = how]]
  /\ UNCHANGED <<token, circuit, told>>

\* The newest answer to arrive is the token of all.
SignedIn(r) ==
  /\ Is(r, "signed")
  /\ IF asking[r].answer = "ok"
     THEN /\ token' = asking[r].bearer
          /\ asking' = [asking EXCEPT ![r] = [@ EXCEPT !.at = "begins", !.again = TRUE, !.tries = 0]]
     ELSE /\ IF WorthARetry(r) THEN Retried(r, "signs") ELSE Ends(r, "shut out")
          /\ UNCHANGED token
  /\ UNCHANGED <<minted, honored, circuit, trouble, told>>

----------------------------------------------------------------------------

\* Paprika forgets every token it has issued.
Forgets ==
  /\ Mishap
  /\ honored' = {}
  /\ told' = [r \in Request |-> [told[r] EXCEPT !.spared = @ /\ r \notin UnderWay]]
  /\ UNCHANGED <<token, minted, circuit, asking>>

CoolsDown ==
  /\ circuit.state = "open" /\ ~circuit.ready
  /\ circuit' = [circuit EXCEPT !.ready = TRUE]
  /\ UNCHANGED <<token, minted, honored, asking, trouble, told>>

\* The process has signed in when it started.
RequestsInit ==
  /\ token = 1 /\ minted = 1 /\ honored = {1}
  /\ circuit = [state |-> "closed", fails |-> 0, ready |-> FALSE]
  /\ asking = [r \in Request |-> Unasked]
  /\ trouble = MaxTrouble
  /\ told = [r \in Request |-> [done |-> 0, attempts |-> 0, spared |-> TRUE]]

RequestsNext ==
  \/ \E r \in Request : \/ Asked(r) \/ Enters(r) \/ Begins(r) \/ Attempt(r) \/ Arrives(r)
                        \/ Settles(r) \/ SignsIn(r) \/ SignedIn(r)
  \/ Forgets \/ CoolsDown

RequestsSpec == RequestsInit /\ [][RequestsNext]_requestVars

RequestsTypeOK ==
  /\ token \in 0..minted /\ honored \subseteq 1..minted
  /\ circuit.state \in {"closed", "open", "half"} /\ circuit.fails \in 0..BreakAfter
  /\ \A r \in Request : asking[r].tries \in 0..MaxRetries /\ asking[r].call \in 1..Length(asking[r].what)

\* A request is given up for its token only if one was forgotten while it was under way, or while a
\* sign-in was whose late answer it then used (the sign-in of others never costs a request its token);
\* what succeeded was carried out to its last call, what was ended early at most up to the call that
\* failed; no call is sent more often than the retries of two runs allow; no more recipes are fetched
\* at a time than configured; and while some request is under way one of them can go on: none waits
\* for a probe or a place that nobody holds (paprika/client.ts 278-320, 361-439, 742-855).
RequestsRight ==
  /\ \A r \in Request :
       /\ asking[r].answer = "auth" => ~told[r].spared
       /\ asking[r].answer = "ok" /\ Is(r, "ended") => told[r].done = Length(asking[r].what)
       /\ told[r].done \in {asking[r].call - 1, asking[r].call}
       /\ told[r].attempts <= 2 * (MaxRetries + 1)
  /\ Cardinality(Fetching) <= Concurrency
  /\ UnderWay # {} =>
       \E r \in UnderWay : CASE Is(r, "queued") -> Cardinality(Fetching) < Concurrency
                             [] Is(r, "begins") -> circuit.state # "half"
                             [] OTHER -> TRUE
====
