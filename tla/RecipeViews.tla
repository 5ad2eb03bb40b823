---- MODULE RecipeViews ----
(***************************************************************************)
(* The browser, a menu and the week planner open a recipe that was tapped. *)
(* It is read before it is shown and, where the screen is animated, shown  *)
(* a frame later; meanwhile the user moves on, and the host pushes         *)
(* something else.  The planner reads the weeks around it too.             *)
(***************************************************************************)
EXTENDS Naturals, Sequences, FiniteSets, TLC

CONSTANTS
  Row,       \* rows that can be opened, positive numbers
  LastWeek,  \* weeks are 0..LastWeek
  MaxMoves, MaxPushes   \* how often the user acts and the host pushes

Week == 0..LastWeek
NoWeek == LastWeek + 1

VARIABLES
  app,       \* which widget, and whether its screens are animated
  animated,
  loading,   \* the row whose read is awaited, 0 for none
  open,      \* the browser's row that is unfolded
  detail,    \* the recipe shown, 0 for none
  hero,      \* whose photo is shown with it
  jobs,      \* reads and calls under way
  frames,    \* screen changes that wait for the next frame
  navGen,    \* the browser's count of moves
  page,      \* the planner's week, focused day, cached weeks, and whether it waits for one
  moves,     \* user's moves and host's pushes left
  wish       \* history only: the recipe, week and day the user or the host asked for last

viewVars == <<app, animated, loading, open, detail, hero, jobs, frames, navGen, page, moves, wish>>

Job(what, of) == [what |-> what, of |-> of, live |-> TRUE, edge |-> 0, n |-> moves]
Under(what) == {j.of : j \in {i \in jobs : i.what = what}}
Turn(what) == moves[what] > 0 /\ moves' = [moves EXCEPT ![what] = @ - 1]

\* The pane is reused: a photo that was being loaded for what it showed before is dropped.
Shows(r, rest) ==
  /\ detail' = r
  /\ hero' = 0
  /\ jobs' = {IF j.what = "photo" THEN [j EXCEPT !.live = FALSE] ELSE j : j \in rest}
             \cup {Job("photo", q) : q \in {r} \ {0}}

\* At once, or with the next frame.
Swaps(r, rest) ==
  \/ ~animated /\ Shows(r, rest) /\ UNCHANGED frames
  \/ /\ animated
     /\ frames' = Append(frames, [to |-> r, gen |-> navGen'])
     /\ jobs' = rest
     /\ UNCHANGED <<detail, hero>>

\* The browser looks again whether the user has moved.
MutStillThere(f) == TRUE
StillThere(f) == app = "browser" /\ f.to # 0 => f.gen = navGen

\* For the history: what will be shown when the frames are done.
Coming == LET last == frames[Len(frames)] IN IF frames = <<>> \/ ~StillThere(last) THEN detail ELSE last.to

----------------------------------------------------------------------------
\* Opening a recipe.

\* What can be tapped: any row of the menu or the week, and the unfolded one of the browser.
Listed(r) == detail = 0 /\ CASE app = "browser" -> open = r
                             [] app = "planner" -> page.week \in Week
                             [] app = "menu" -> TRUE

OpenRecipe(r) ==
  /\ Listed(r) /\ loading = 0
  /\ Turn("user")
  /\ loading' = r
  /\ jobs' = jobs \cup {Job("read", r)}
  /\ wish' = [wish EXCEPT !.row = r]
  /\ UNCHANGED <<app, animated, open, detail, hero, frames, navGen, page>>

\* The user moves away: another row, a filter, another day, another week.
Leaves ==
  /\ loading' = 0
  /\ navGen' = IF app = "browser" THEN navGen + 1 ELSE navGen
  /\ wish' = [wish EXCEPT !.row = IF app = "planner" THEN Coming ELSE 0]

Refine ==
  /\ app = "browser" /\ detail = 0
  /\ Turn("user")
  /\ Leaves
  /\ open' \in Row \cup {0}
  /\ UNCHANGED <<app, animated, detail, hero, jobs, frames, page>>

\* The token is all that is compared; the read may have failed.
Awaited(r) == loading = r
RecipeRead(j) ==
  /\ j.what = "read"
  /\ IF ~Awaited(j.of)
     THEN jobs' = jobs \ {j} /\ UNCHANGED <<loading, detail, hero, frames, navGen, wish>>
     ELSE /\ loading' = 0
          /\ UNCHANGED navGen
          /\ \/ Swaps(j.of, jobs \ {j}) /\ UNCHANGED wish
             \/ /\ jobs' = jobs \ {j}
                /\ wish' = [wish EXCEPT !.row = Coming]
                /\ UNCHANGED <<detail, hero, frames>>
  /\ UNCHANGED <<app, animated, open, page, moves>>

\* A read opens the pane, a Back closes it.
Frame ==
  /\ frames # <<>>
  /\ frames' = Tail(frames)
  /\ IF StillThere(Head(frames)) THEN Shows(Head(frames).to, jobs) ELSE UNCHANGED <<detail, hero, jobs>>
  /\ UNCHANGED <<app, animated, loading, open, navGen, page, moves, wish>>

Back ==
  /\ detail # 0
  /\ Turn("user")
  /\ loading' = 0
  /\ navGen' = IF app = "browser" THEN navGen + 1 ELSE navGen
  /\ wish' = [wish EXCEPT !.row = 0]
  /\ Swaps(0, jobs)
  /\ UNCHANGED <<app, animated, open, page>>

\* A new result for the browser or the menu replaces everything at once.
ReceiveList ==
  /\ app \in {"browser", "menu"}
  /\ Turn("host")
  /\ loading' = 0 /\ open' = 0
  /\ navGen' = IF app = "browser" THEN navGen + 1 ELSE navGen
  /\ wish' = [wish EXCEPT !.row = 0]
  /\ Shows(0, jobs)
  /\ UNCHANGED <<app, animated, frames, page>>

\* What was asked for an earlier recipe is dropped.
Wanted(j) == j.live
PhotoLoaded(j) ==
  /\ j.what = "photo"
  /\ jobs' = jobs \ {j}
  /\ IF Wanted(j) THEN hero' \in {0, j.of} ELSE UNCHANGED hero
  /\ UNCHANGED <<app, animated, loading, open, detail, frames, navGen, page, moves, wish>>

----------------------------------------------------------------------------
\* The week planner.

Fetch(what, w, edge) == [Job(what, w) EXCEPT !.edge = edge]

\* A week that is applied is cached, and its neighbours are fetched.
Prefetches(w, cached) == {Fetch("prefetch", v, 0) : v \in {u \in Week \ (cached \cup Under("prefetch")) : u = w + 1 \/ w = u + 1}}
ApplyWeek(w, rest, busy) ==
  /\ page' = [page EXCEPT !.week = w, !.cache = @ \cup {w}, !.busy = busy]
  /\ jobs' = rest \cup Prefetches(w, page.cache \cup {w})

\* The host sends a week; the first one may begin with today, and is then read again in full.
ReceiveWeek == \E w \in Week :
  /\ app = "planner"
  /\ Turn("host")
  /\ wish' = [wish EXCEPT !.week = w]
  /\ \/ ApplyWeek(w, jobs, page.busy)
     \/ /\ page.week = NoWeek
        /\ page' = [page EXCEPT !.week = w, !.busy = TRUE]
        /\ jobs' = jobs \cup {Fetch("realign", w, 0)}
  /\ UNCHANGED <<app, animated, loading, open, detail, hero, frames, navGen>>

\* A day is picked: a week that is on its way then keeps its hands off the day.
SelectDay == \E d \in {1, 7} :
  /\ app = "planner" /\ detail = 0 /\ page.week \in Week
  /\ Turn("user")
  /\ loading' = 0
  /\ page' = [page EXCEPT !.day = d]
  /\ wish' = [wish EXCEPT !.day = d, !.row = Coming]
  /\ jobs' = {IF j.what = "nav" THEN [j EXCEPT !.live = FALSE] ELSE j : j \in jobs}
  /\ UNCHANGED <<app, animated, open, detail, hero, frames, navGen>>

\* A week is being read: no other page is turned meanwhile.
MutPaging == FALSE
Paging == page.busy

\* Another week, on the same day or on the edge that was swiped over; from the cache, and then read again.
Navigate == \E w \in Week, edge \in {0, 1, 7} :
  /\ app = "planner" /\ detail = 0 /\ page.week \in Week /\ ~Paging
  /\ \/ w = page.week + 1 /\ edge \in {0, 1}
     \/ page.week = w + 1 /\ edge \in {0, 7}
  /\ Turn("user")
  /\ loading' = 0
  /\ LET day == IF edge = 0 THEN page.day ELSE edge
     IN IF w \in page.cache
        THEN /\ page' = [page EXCEPT !.week = w, !.day = day]
             /\ wish' = [row |-> Coming, week |-> w, day |-> day]
             /\ jobs' = jobs \cup Prefetches(w, page.cache)
                             \cup {Fetch("reconcile", v, 0) : v \in {w} \ Under("reconcile")}
        ELSE /\ page' = [page EXCEPT !.busy = TRUE]
             /\ wish' = [wish EXCEPT !.row = Coming]
             /\ jobs' = jobs \cup {Fetch("nav", w, edge)}
  /\ UNCHANGED <<app, animated, open, detail, hero, frames, navGen>>

\* The week that was asked for, or the first one in full.
WeekRead(j) ==
  /\ j.what \in {"nav", "realign"}
  /\ \/ /\ jobs' = jobs \ {j}
        /\ page' = [page EXCEPT !.busy = FALSE]
        /\ UNCHANGED wish
     \/ LET day == IF j.what = "nav" /\ j.edge # 0 /\ j.live THEN j.edge ELSE page.day IN
        /\ page' = [page EXCEPT !.week = j.of, !.day = day, !.cache = @ \cup {j.of}, !.busy = FALSE]
        /\ jobs' = (jobs \ {j}) \cup Prefetches(j.of, page.cache \cup {j.of})
        /\ wish' = [wish EXCEPT !.week = j.of, !.day = IF j.live /\ j.edge # 0 THEN j.edge ELSE @]
  /\ UNCHANGED <<app, animated, loading, open, detail, hero, frames, navGen, moves>>

Prefetched(j) ==
  /\ j.what = "prefetch"
  /\ jobs' = jobs \ {j}
  /\ \/ page' = [page EXCEPT !.cache = @ \cup {j.of}]
     \/ UNCHANGED page
  /\ UNCHANGED <<app, animated, loading, open, detail, hero, frames, navGen, moves, wish>>

\* What was read again is shown only if the user is still there; if it could not be read it is not kept.
Reconcile(j) ==
  /\ j.what = "reconcile"
  /\ \/ page' = [page EXCEPT !.cache = @ \ {j.of}] /\ jobs' = jobs \ {j}
     \/ page.week = j.of /\ ApplyWeek(j.of, jobs \ {j}, page.busy)
     \/ page' = [page EXCEPT !.cache = @ \cup {j.of}] /\ jobs' = jobs \ {j}
  /\ UNCHANGED <<app, animated, loading, open, detail, hero, frames, navGen, moves, wish>>

----------------------------------------------------------------------------

RecipeViewsInit ==
  /\ app \in {"browser", "menu", "planner"}
  /\ animated \in IF app = "menu" THEN {FALSE} ELSE BOOLEAN
  /\ loading = 0 /\ open = 0 /\ detail = 0 /\ hero = 0
  /\ jobs = {} /\ frames = <<>> /\ navGen = 0
  /\ page = [week |-> NoWeek, day |-> 1, cache |-> {}, busy |-> FALSE]
  /\ moves = [user |-> MaxMoves, host |-> MaxPushes]
  /\ wish = [row |-> 0, week |-> NoWeek, day |-> 1]

RecipeViewsNext ==
  \/ \E r \in Row : OpenRecipe(r)
  \/ Refine \/ Frame \/ Back \/ ReceiveList
  \/ ReceiveWeek \/ SelectDay \/ Navigate
  \/ \E j \in jobs : \/ RecipeRead(j) \/ PhotoLoaded(j) \/ WeekRead(j)
                     \/ Prefetched(j) \/ Reconcile(j)

RecipeViewsTypeOK ==
  /\ {loading, open, detail, hero} \subseteq Row \cup {0}
  /\ page.week \in Week \cup {NoWeek} /\ page.cache \subseteq Week
  /\ Cardinality({j \in jobs : j.what \in {"nav", "realign"}}) = IF page.busy THEN 1 ELSE 0

\* No recipe opens that the user has not tapped or has left again, however late its read or its frame
\* (the planner opens it when the user leaves in that one frame); once nothing is under way the one
\* that was tapped last is shown; the photo beside it is its own; and neither a prefetch nor a re-read
\* of a cached week turns the planner's page or moves the day the user picked (App.svelte of
\* recipe-browser, menu and meal-week-planner; shared/RecipeDetail.svelte).
NeverHijacks ==
  /\ app # "planner" => \/ detail \in {0, wish.row}
                         \/ \E i \in DOMAIN frames : frames[i].to = 0
  /\ frames = <<>> /\ Under("read") = {} => detail = wish.row
  /\ hero \in {0, detail}
  /\ page.week = wish.week /\ page.day = wish.day
====
