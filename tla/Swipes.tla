---- MODULE Swipes ----
(***************************************************************************)
(* One finger on one row of a checklist, or on the planner's day pane: the *)
(* recognizer decides whether a drag is a swipe, the row acts on it once   *)
(* its slide is over, and the browser may make a click of the same touch.  *)
(* The row changes under the finger, and time is told in ticks of 100 ms.  *)
(***************************************************************************)
EXTENDS Integers

CONSTANTS
  Spot,        \* where a finger may be, in px from the left
  Height,      \* and from the top
  MaxTouches,  \* how often a finger is put down
  MaxTicks     \* how long it all takes

ASSUME SwipesAssumption == /\ Spot \subseteq Int /\ Height \subseteq Int
                           /\ MaxTouches \in Nat /\ MaxTicks \in Nat

\* In px and ms: swipe-gesture.ts, and the settings of the three widgets.
Slop == 8
FlickStale == 100
Tick == 100
SlideTime == 130
ExitTime == 200
Debounce == 300
ClickWindow == 500
Away == -1000   \* off the edge, by more than the row's width
Abs(x) == IF x < 0 THEN -x ELSE x
Sign(x) == IF x < 0 THEN -1 ELSE IF x > 0 THEN 1 ELSE 0
Setting ==
  [pantry  |-> [axis |-> "x", way |-> {-1}, arm |-> 80, flick |-> 40],
   grocery |-> [axis |-> "x", way |-> {1}, arm |-> 80, flick |-> 40],
   pager   |-> [axis |-> "auto", way |-> {-1, 1}, arm |-> 56, flick |-> 0]]

VARIABLES
  place,    \* whose row or pane it is
  clock,    \* ticks
  finger,   \* where it is
  g,        \* the gesture
  shift,    \* how far the row or pane is shown to the side
  due,      \* when the slide of a committed swipe is over, 0 when there is none
  quiet,    \* until when a click is swallowed
  click,    \* whether the touch may still become a click
  tapped,   \* when the row was last acted on, or left the pantry's list
  rowAt,    \* whether the row is busy and done
  astray,   \* history only: it came back before its element had gone, or was busy when its slide was over
  tally     \* touches left; history only: how often each touch acted, those that may, and the one that swiped

swipeVars == <<place, clock, finger, g, shift, due, quiet, click, tapped, rowAt, astray, tally>>

Now == clock * Tick
Touch == MaxTouches - tally.left   \* the current one, or the last
AtRest == [active |-> FALSE, engaged |-> FALSE, locked |-> FALSE, x0 |-> 0, y0 |-> 0, dx |-> 0, fast |-> 0, lastX |-> 0, lastT |-> 0]

\* The row follows the finger up to a limit, and not the other way; the pane with some resistance.
Resist(raw) == CASE place = "pantry" -> IF raw > 0 THEN 0 ELSE IF raw < -120 THEN -120 ELSE raw
                 [] place = "grocery" -> IF raw < 0 THEN 0 ELSE IF raw > 120 THEN 120 ELSE raw
                 [] place = "pager" -> (raw * 11) \div 20

\* A row that is being worked on, or is bought already, cannot be swiped.
Enabled == CASE place = "pantry" -> ~rowAt.busy
             [] place = "grocery" -> ~rowAt.done
             [] place = "pager" -> TRUE

\* A touch begins a gesture unless another one, or the slide of one, is under way.
Unclaimed == ~g.active /\ due = 0

\* A row that has left the pantry's list slides shut before its element goes; the bought one stays in its list.
Lasts(time) == place = "pantry" /\ rowAt.done => time <= tapped + ExitTime
Mounted == Lasts(Now)

Down == \E x \in Spot, y \in Height :
  /\ tally.left > 0
  /\ ~click /\ finger = <<>> /\ Mounted
  /\ finger' = [x |-> x, y |-> y]
  /\ IF place = "pager" \/ (Enabled /\ Unclaimed)
     THEN /\ g' = [AtRest EXCEPT !.active = TRUE, !.x0 = x, !.y0 = y, !.lastX = x, !.lastT = Now]
          /\ quiet' = 0 /\ due' = 0
     ELSE UNCHANGED <<g, quiet, due>>
  /\ tally' = [tally EXCEPT !.left = @ - 1]
  /\ UNCHANGED <<place, clock, shift, click, tapped, rowAt, astray>>

\* Up and down is left to the browser; a drag to the side is followed.
Decides(x, y) ==
  LET rawDx == x - g.x0
      rawDy == y - g.y0
  IN CASE g.engaged -> "follows"
       [] Setting[place].axis = "auto" /\ Abs(rawDx) < Slop /\ Abs(rawDy) < Slop -> "waits"
       [] Setting[place].axis = "auto" /\ Abs(rawDy) > Abs(rawDx) -> "scrolls"
       [] Setting[place].axis = "x" /\ Abs(rawDx) < Slop -> "waits"
       [] OTHER -> "follows"

\* Faster than 0.8 px a millisecond in a row, 0.35 in the pane.
Flicks(d, dt) == IF place = "pager" THEN Abs(d) * 20 > dt * 7 ELSE Abs(d) * 5 > dt * 4

Followed(x) ==
  LET dt == Now - g.lastT
      d == x - g.lastX
  IN [g EXCEPT !.engaged = TRUE, !.lastX = x, !.lastT = Now, !.dx = Resist(x - g.x0),
               !.fast = IF dt > 0 THEN IF Flicks(d, dt) THEN Sign(d) ELSE 0 ELSE @]

Move == \E x \in Spot, y \in Height :
  /\ finger # <<>> /\ finger # [x |-> x, y |-> y]
  /\ finger' = [x |-> x, y |-> y]
  /\ CASE ~g.active \/ g.locked -> UNCHANGED <<g, shift>>
       [] g.active /\ ~g.locked /\ ~Enabled -> g' = AtRest /\ shift' = 0
       [] g.active /\ ~g.locked /\ Enabled ->
            /\ g' = CASE Decides(x, y) = "follows" -> Followed(x)
                      [] Decides(x, y) = "scrolls" -> [g EXCEPT !.locked = TRUE]
                      [] Decides(x, y) = "waits" -> g
            /\ shift' = g'.dx
  /\ UNCHANGED <<place, clock, due, quiet, click, tapped, rowAt, astray, tally>>

\* Far enough, or a flick that has not come to rest.
Committed ==
  LET s == Setting[place] IN
  /\ g.engaged /\ Sign(g.dx) \in s.way
  /\ \/ Abs(g.dx) > s.arm
     \/ Now - g.lastT <= FlickStale /\ g.fast = Sign(g.dx) /\ Abs(g.dx) > s.flick

\* A swiped row slides first and acts then, the pantry's off the edge, where it is left for the list to take
\* it away; a pane turns the page at once, or springs back if there is none.
Lifted(commits) ==
  /\ finger # <<>> /\ finger' = <<>>
  /\ g' = AtRest
  /\ due' = IF g.active /\ commits /\ place # "pager" THEN Now + SlideTime ELSE due
  /\ shift' = IF ~g.active \/ (place = "pager" /\ ~g.engaged) THEN shift
              ELSE IF commits /\ place = "pantry" THEN Away ELSE 0
  /\ astray' = (astray /\ ~g.active)
  /\ UNCHANGED <<place, clock, tapped, rowAt>>
Up ==
  /\ Lifted(Enabled /\ Committed)
  /\ quiet' = IF place = "pantry" /\ g.engaged THEN Now + ClickWindow ELSE quiet
  /\ \E c \in IF place = "pager" THEN {FALSE} ELSE BOOLEAN : click' = c
  /\ \/ /\ place # "pager"
        /\ tally' = [tally EXCEPT !.may = IF (Enabled /\ Committed) \/ ~g.engaged THEN @ \cup {Touch} ELSE @,
                                 !.swiper = IF g.active /\ Enabled /\ Committed THEN Touch ELSE @]
     \/ /\ place = "pager"
        /\ \E turns \in IF g.active /\ Committed THEN {0, 1} ELSE {0} :
             tally' = [tally EXCEPT !.acts[Touch] = @ + turns, !.may = IF Committed THEN @ \cup {Touch} ELSE @]

\* The browser takes the gesture, or a second finger joins: never a commit.
Aborted == FALSE
Cancel ==
  /\ Lifted(Aborted)
  /\ UNCHANGED <<click, tally, quiet>>

----------------------------------------------------------------------------
\* What the row does, twice in a row never: it is locked, and the grocery list ignores a second tap.

Acts(touch) ==
  /\ place # "pager"
  /\ IF \/ rowAt.busy \/ ~Mounted
        \/ place = "grocery" /\ tapped # 0 /\ Now - tapped < Debounce
     THEN UNCHANGED <<tapped, rowAt, tally>>
     ELSE /\ tapped' = Now
          /\ rowAt' = [busy |-> TRUE, done |-> TRUE]
          /\ tally' = [tally EXCEPT !.acts[touch] = @ + 1]

\* The click that follows a drag is not one on the pantry's buttons.
Swallowed == quiet # 0 /\ ~(Now > quiet)
Click ==
  /\ click /\ click' = FALSE
  /\ quiet' = 0
  /\ IF Swallowed THEN UNCHANGED <<tapped, rowAt, tally>> ELSE Acts(Touch)
  /\ UNCHANGED <<place, clock, finger, g, shift, due, astray>>
NoClick ==
  /\ click /\ click' = FALSE
  /\ UNCHANGED <<place, clock, finger, g, shift, due, quiet, tapped, rowAt, astray, tally>>

\* The slide is over: whatever became of the row meanwhile.
SlideOver ==
  /\ due # 0 /\ Now >= due
  /\ due' = 0
  /\ Acts(tally.swiper)
  /\ astray' = (astray \/ rowAt.busy)
  /\ UNCHANGED <<place, clock, finger, g, shift, quiet, click>>

\* The row is another one under the finger: a row that is back in the pantry's list keeps its element, and
\* with it where it is shown, if that has not gone yet.
RowIs(busy, done) ==
  /\ rowAt' = [busy |-> busy, done |-> done]
  /\ tapped' = IF place = "pantry" /\ done /\ ~rowAt.done THEN Now ELSE tapped
  /\ astray' = (astray \/ (place = "pantry" /\ shift # 0 /\ rowAt.done /\ ~done /\ Mounted))
  /\ UNCHANGED <<place, clock, finger, g, shift, due, quiet, click>>

\* The call is answered, or the host sends the list again.
RowAnswered ==
  /\ rowAt.busy
  /\ \E done \in BOOLEAN : RowIs(FALSE, done)
  /\ tally' = IF place = "pantry" THEN [tally EXCEPT !.acts = [n \in DOMAIN @ |-> 0]] ELSE tally
Replaced ==
  /\ ~rowAt.busy
  /\ IF rowAt.done THEN place = "pantry" ELSE g.active \/ due # 0
  /\ RowIs(FALSE, ~rowAt.done)
  /\ UNCHANGED tally
\* The drawer's button, or the Undo of an earlier mark, which may come when the row is back already.
PutBack ==
  /\ place = "pantry" /\ ~rowAt.busy /\ tapped # 0
  /\ RowIs(TRUE, FALSE)
  /\ UNCHANGED tally

\* The browser makes the click at once, and its timers are on time.  The element of a row that has left goes.
Passes ==
  /\ clock < MaxTicks /\ ~click
  /\ due # 0 => Now < due
  /\ clock' = clock + 1
  /\ IF Lasts(Now + Tick)
     THEN UNCHANGED <<g, shift, due, quiet, astray>>
     ELSE g' = AtRest /\ shift' = 0 /\ due' = 0 /\ quiet' = 0 /\ astray' = FALSE
  /\ UNCHANGED <<place, finger, click, tapped, rowAt, tally>>

----------------------------------------------------------------------------

SwipesInit ==
  /\ place \in DOMAIN Setting
  /\ clock = 1 /\ finger = <<>> /\ g = AtRest /\ shift = 0 /\ due = 0 /\ quiet = 0 /\ click = FALSE /\ tapped = 0 /\ astray = FALSE
  /\ rowAt = [busy |-> FALSE, done |-> FALSE]
  /\ tally = [left |-> MaxTouches, acts |-> [n \in 1..MaxTouches |-> 0], may |-> {}, swiper |-> 0]

SwipesNext ==
  \/ Down \/ Move \/ Up \/ Cancel \/ Click \/ NoClick \/ SlideOver \/ Passes
  \/ place # "pager" /\ (RowAnswered \/ Replaced \/ PutBack)

SwipesSpec == SwipesInit /\ [][SwipesNext]_swipeVars

SwipesTypeOK ==
  /\ place # "pager" => g.dx \in -120..120 /\ shift \in -120..120 \cup (IF place = "pantry" THEN {Away} ELSE {})
  /\ due \in Nat /\ quiet \in Nat /\ tally.swiper \in 0..MaxTouches

\* A touch acts at most once, as a swipe or as a tap, however slide, click and answer are ordered (in
\* the pantry at most once while its call is under way); a drag that was given up does not act in the
\* pantry; a cancelled gesture turns no page (swipe-gesture.ts, swipe-action.ts, SlotPane.svelte).
\* A row or pane that no gesture moves is shown to the side in the pantry only, while its slide is under
\* way or until its element has gone with the row; a row that comes back before that, or that is busy when
\* its slide is over, may be left there, whatever guards the start of a swipe (App.svelte:630).
SwipesOnce ==
  /\ \A n \in 1..MaxTouches : tally.acts[n] <= 1
  /\ place # "grocery" => \A n \in 1..MaxTouches \ tally.may : tally.acts[n] = 0
  /\ ~g.active /\ shift # 0 => place = "pantry" /\ (due # 0 \/ rowAt.done \/ astray)
====
