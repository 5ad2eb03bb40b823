---- MODULE Boot ----
(***************************************************************************)
(* From the start of the process to its end, over stdio: the modules are   *)
(* put in the order of their dependencies and built, the first cycle runs, *)
(* the hooks after it, and then the one session is served.  The client may *)
(* be gone at any time, before anybody listens for that too, and signals   *)
(* arrive; either way out goes through the flush of the telemetry.         *)
(***************************************************************************)
EXTENDS Naturals, Sequences, FiniteSets, SequencesExt

CONSTANTS
  Modules,     \* how many modules register, numbered as they do
  Graphs,      \* what each may declare to depend on, numbers beyond Modules being unknown
  MaxSignals

ASSUME BootAssumption == /\ Modules \in Nat /\ MaxSignals \in Nat
                         /\ Graphs \subseteq [1..Modules -> Seq(Nat \ {0})]

VARIABLES
  dependsOn,
  stage,      \* how far the start has come: "sort", "build", "sync", "hooks", "session", "handle", "up" or "failed"
  visiting,   \* the visits under way, innermost last, each with how many of its dependencies it has looked at
  order,      \* the modules that are sorted
  built, hooked,   \* those that are built, in their order, and those whose hooks have run
  client,     \* whether the client is there
  pipe,       \* what stdin tells: "unread", "read", "ended" or "closed"
  listening, trapped, shuttingDown,   \* whether stdin is listened to and signals are caught, and one was
  loop,       \* the sync loop: "none", "on" or "off"
  sessions,   \* how many ends of the session were recorded
  telemetry,  \* "on", "flushing" or "flushed"
  leaving,    \* exit codes that wait for the flush
  exit,       \* the code of the process: "none", "zero", "one" or "killed"
  signals     \* signals left

bootVars == <<dependsOn, stage, visiting, order, built, hooked, client, pipe, listening, trapped,
              shuttingDown, loop, sessions, telemetry, leaving, exit, signals>>

starting == <<dependsOn, stage, visiting, order, built, hooked>>
ending == <<shuttingDown, loop, sessions, telemetry, leaving, exit>>
Alive == exit = "none"

\* shutdownTelemetry: the flush runs once, whoever waits for it; it may be given up.
Leave(code) ==
  /\ telemetry' = IF telemetry = "on" THEN "flushing" ELSE telemetry
  /\ leaving' = leaving \cup {code}
  /\ UNCHANGED exit
Flushed == Alive /\ telemetry = "flushing" /\ telemetry' = "flushed"
           /\ UNCHANGED <<starting, client, pipe, listening, trapped, shuttingDown, loop, sessions, leaving, exit, signals>>
Exits == /\ Alive /\ telemetry = "flushed"
         /\ \E code \in leaving : exit' = code
         /\ UNCHANGED <<starting, client, pipe, listening, trapped, shuttingDown, loop, sessions, telemetry, leaving, signals>>

Fails ==
  /\ stage' = "failed"
  /\ Leave("one")
  /\ UNCHANGED <<shuttingDown, loop, sessions>>

----------------------------------------------------------------------------
\* topoSort: depth first, in the order of registration and of the declared dependencies.

OnStack == {v.m : v \in ToSet(visiting)}
Closes(dep) == dep \in OnStack

Visit ==
  /\ stage = "sort" /\ visiting = <<>>
  /\ LET rest == 1..Modules \ ToSet(order)
     IN IF rest = {} THEN stage' = "build" /\ UNCHANGED visiting
        ELSE visiting' = <<[m |-> CHOOSE m \in rest : \A k \in rest : m <= k, at |-> 0]>> /\ UNCHANGED stage
  /\ UNCHANGED <<dependsOn, order, built, hooked, client, pipe, listening, trapped, ending, signals>>

LooksAt(dep) ==
  /\ visiting' = Append([visiting EXCEPT ![Len(visiting)].at = @ + 1], [m |-> dep, at |-> 0])
  /\ UNCHANGED <<stage, ending>>

Depend ==
  /\ stage = "sort" /\ visiting # <<>>
  /\ LET top == Last(visiting)
         deps == dependsOn[top.m]
     IN IF top.at = Len(deps)
        THEN /\ visiting' = Front(visiting) /\ order' = Append(order, top.m)
             /\ UNCHANGED <<stage, ending>>
        ELSE LET dep == deps[top.at + 1]
             IN /\ CASE dep > Modules -> Fails /\ UNCHANGED visiting
                     [] dep \in ToSet(order) -> /\ visiting' = [visiting EXCEPT ![Len(visiting)].at = @ + 1]
                                                /\ UNCHANGED <<stage, ending>>
                     [] dep <= Modules /\ dep \notin ToSet(order) ->
                          IF Closes(dep) THEN Fails /\ UNCHANGED visiting ELSE LooksAt(dep)
                /\ UNCHANGED order
  /\ UNCHANGED <<dependsOn, built, hooked, client, pipe, listening, trapped, signals>>

----------------------------------------------------------------------------
\* buildKernel: a module that cannot be built, and a hook that throws, end the start; a cycle never does.

Build ==
  /\ stage = "build"
  /\ \/ /\ Len(built) < Len(order)
        /\ built' = Append(built, order[Len(built) + 1])
        /\ UNCHANGED <<stage, ending>>
     \/ Fails /\ UNCHANGED built
     \/ Len(built) = Len(order) /\ stage' = "sync" /\ UNCHANGED <<built, ending>>
  /\ UNCHANGED <<dependsOn, visiting, order, hooked, client, pipe, listening, trapped, signals>>

InitialCycle ==
  /\ stage = "sync"
  /\ stage' = "hooks"
  /\ UNCHANGED <<dependsOn, visiting, order, built, hooked, client, pipe, listening, trapped, ending, signals>>

OnIndexReady ==
  /\ stage = "hooks"
  /\ \/ /\ Len(hooked) < Len(built)
        /\ hooked' = Append(hooked, built[Len(hooked) + 1])
        /\ UNCHANGED <<stage, ending>>
     \/ Fails /\ UNCHANGED hooked
     \/ Len(hooked) = Len(built) /\ stage' = "session" /\ UNCHANGED <<hooked, ending>>
  /\ UNCHANGED <<dependsOn, visiting, order, built, client, pipe, listening, trapped, signals>>

----------------------------------------------------------------------------
\* startStdio: the tools are registered, the loop starts if it is enabled, and the transport begins to read.

Connect == \E l \in {"none", "on"} :
  /\ stage = "session" /\ pipe = "unread"
  /\ loop' = l
  /\ pipe' = "read"
  /\ UNCHANGED <<starting, client, listening, trapped, shuttingDown, sessions, telemetry, leaving, exit, signals>>

\* The latched end of the session.
endSession ==
  IF sessions > 0 THEN UNCHANGED <<sessions, loop>>
  ELSE sessions' = 1 /\ loop' = IF loop = "on" THEN "off" ELSE loop
onStdinClosed == endSession /\ Leave("zero") /\ UNCHANGED shuttingDown

\* What ended before the listeners were there is seen by looking.
EndedBefore == pipe \in {"ended", "closed"}
Listen ==
  /\ stage = "session" /\ pipe # "unread"
  /\ stage' = "handle"
  /\ listening' = TRUE
  /\ IF EndedBefore THEN onStdinClosed ELSE UNCHANGED ending
  /\ UNCHANGED <<dependsOn, visiting, order, built, hooked, client, pipe, trapped, signals>>

\* The handle is returned, and signals are caught from now on.
Trap ==
  /\ stage = "handle"
  /\ stage' = "up"
  /\ trapped' = TRUE
  /\ UNCHANGED <<dependsOn, visiting, order, built, hooked, client, pipe, listening, ending, signals>>

Started == Alive /\ leaving = {} /\ (Visit \/ Depend \/ Build \/ InitialCycle \/ OnIndexReady \/ Connect)
Served == Alive /\ (Listen \/ Trap)

----------------------------------------------------------------------------
\* The client goes; stdin, once it is read, ends and then closes.  Signals come at any time.

ClientGone ==
  /\ Alive /\ client
  /\ client' = FALSE
  /\ UNCHANGED <<starting, pipe, listening, trapped, ending, signals>>

StdinOver ==
  /\ Alive /\ ~client /\ pipe \in {"read", "ended"}
  /\ pipe' = IF pipe = "read" THEN "ended" ELSE "closed"
  /\ IF listening THEN onStdinClosed ELSE UNCHANGED ending
  /\ UNCHANGED <<starting, client, listening, trapped, signals>>

onSignal ==
  /\ Alive /\ signals > 0 /\ signals' = signals - 1
  /\ CASE ~trapped -> exit' = "killed" /\ UNCHANGED <<shuttingDown, loop, sessions, telemetry, leaving>>
       [] trapped /\ shuttingDown -> UNCHANGED ending
       [] trapped /\ ~shuttingDown -> shuttingDown' = TRUE /\ endSession /\ Leave("zero")
  /\ UNCHANGED <<starting, client, pipe, listening, trapped>>

----------------------------------------------------------------------------

BootInit ==
  /\ dependsOn \in Graphs
  /\ stage = "sort" /\ visiting = <<>> /\ order = <<>> /\ built = <<>> /\ hooked = <<>>
  /\ client = TRUE /\ pipe = "unread" /\ listening = FALSE /\ trapped = FALSE /\ shuttingDown = FALSE
  /\ loop = "none" /\ sessions = 0 /\ telemetry = "on" /\ leaving = {} /\ exit = "none"
  /\ signals = MaxSignals

BootNext == Started \/ Served \/ Flushed \/ Exits \/ ClientGone \/ StdinOver \/ onSignal

BootTypeOK ==
  /\ ToSet(order) \subseteq 1..Modules /\ Len(visiting) <= Modules + 1
  /\ telemetry \in {"on", "flushing", "flushed"} /\ exit \in {"none", "zero", "one", "killed"}

BootSpec == BootInit /\ [][BootNext]_bootVars

\* Whether the modules can be put in an order at all: each can come after those it depends on.
Respects(rank) == \A m \in 1..Modules : \A dep \in ToSet(dependsOn[m]) : dep \in 1..Modules /\ rank[dep] < rank[m]
Orderable == \E rank \in [1..Modules -> 1..Modules] : Respects(rank)

\* The start goes on past the sorting just when the dependencies can be ordered; a module is built
\* after all it depends on, and a hook runs when all are built; one end of the session is recorded,
\* however the client's going and signals meet, and it stops the loop; a client that went while the
\* start was not listening yet is noticed; and the process ends by itself only after the flush, with
\* zero only when there was a reason to go (kernel/registry.ts, transport/stdio.ts, index.ts).
BootRight ==
  /\ stage \notin {"sort", "failed"} => Orderable
  /\ stage = "failed" /\ Len(order) < Modules => ~Orderable
  /\ \A i \in DOMAIN built : ToSet(dependsOn[built[i]]) \subseteq ToSet(SubSeq(built, 1, i - 1))
  /\ hooked # <<>> => Len(built) = Modules
  /\ sessions <= 1
  /\ sessions = 1 => loop # "on"
  /\ listening /\ pipe \in {"ended", "closed"} => sessions = 1
  /\ exit \in {"zero", "one"} => telemetry = "flushed"
  /\ exit = "zero" => sessions = 1 /\ (~client \/ signals < MaxSignals)
====
