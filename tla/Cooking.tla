---- MODULE Cooking ----
(***************************************************************************)
(* The cooking widget: the review of a recipe, the prep screen, one step   *)
(* at a time, and the screen that logs the meal.  A tap hands a change of  *)
(* screen to the animation, which makes it a frame later, on whatever is   *)
(* shown by then; meanwhile the user taps again, or the host sends another *)
(* recipe.                                                                 *)
(***************************************************************************)
EXTENDS Integers, Sequences, FiniteSets

CONSTANTS
  Steps,        \* of each recipe the phase of every step, "prep" or "cook"
  Ingredients,  \* how many ingredients each has
  TypeName,     \* meal types
  Shipped,        \* those that are offered until the catalog is read
  MaxChoices, MaxDishes   \* how often the user acts and the host sends a recipe

Dish == DOMAIN Steps

VARIABLES
  dish,      \* the recipe shown, 0 for none
  at,        \* mode, phase and position in the steps
  slides,    \* whether screens are animated
  pending,       \* changes of screen that wait for their frame
  marks,     \* what is checked off while cooking and on the prep screen, and struck in the review
  log,       \* what the last screen says of the log
  types,     \* the meal types offered, and the one picked
  cover,     \* whose photo is shown
  calls,     \* calls and reads under way
  chances,   \* touches and recipes left
  logged,    \* history only: the recipes a log was carried out for
  late       \* history only: whether a recipe came while an earlier one was being logged

cookingVars == <<dish, at, slides, pending, marks, log, types, cover, calls, chances, logged, late>>

\* The steps that the stepper pages through, by their place in the recipe.
CookSteps(d) == SelectSeq([i \in DOMAIN Steps[d] |-> i], LAMBDA i : Steps[d][i] = "cook")
CookCount == Len(CookSteps(dish))
PrepSteps == {i \in DOMAIN Steps[dish] : Steps[dish][i] = "prep"}

NoMarks == [checked |-> {}, removed |-> {}, prep |-> {}]
Fresh == [mode |-> "review", phase |-> "prep", pos |-> 0]
Touches == chances.user > 0 /\ chances' = [chances EXCEPT !.user = @ - 1]
Logging == {c \in calls : c.what = "log"}

----------------------------------------------------------------------------
\* The screens.

Ready == dish # 0
InReview == Ready /\ at.mode = "review"
OnPrep == Ready /\ at.mode = "cook" /\ at.phase = "prep"
OnDone == Ready /\ at.mode = "cook" /\ at.phase = "steps" /\ at.pos >= CookCount
OnStep == Ready /\ at.mode = "cook" /\ at.phase = "steps" /\ at.pos < CookCount
StepShown == CookSteps(dish)[at.pos + 1]

\* Back a step, or to the prep screen, going by the position of the moment.
StepBack(u, x) == IF x.pos = 0 THEN [x EXCEPT !.phase = "prep"] ELSE [x EXCEPT !.pos = @ - 1]

\* What a change of screen does when its frame comes; it sees the recipe that is shown by then.
Framed(u, x) ==
  CASE u.to \in {"review", "cook"} -> [x EXCEPT !.mode = u.to]
    [] u.to = "start" -> [mode |-> "cook", phase |-> "prep", pos |-> 0]
    [] u.to = "begin" -> [x EXCEPT !.phase = "steps", !.pos = 0]
    [] u.to = "prev" -> StepBack(u, x)
    [] u.to = "next" -> [x EXCEPT !.pos = @ + 1]
    [] u.to = "back" -> IF CookCount = 0 THEN [x EXCEPT !.phase = "prep"]
                        ELSE [x EXCEPT !.phase = "steps", !.pos = CookCount - 1]
    [] u.to = "made" -> LET there == {p \in 1..CookCount : CookSteps(dish)[p] = u.step}
                        IN IF u.phase = "prep" THEN [x EXCEPT !.phase = "prep"]
                           ELSE IF there = {} THEN x
                           ELSE [x EXCEPT !.phase = "steps", !.pos = (CHOOSE p \in there : TRUE) - 1]

Change(to) == [to |-> to, from |-> at.pos, step |-> 0, phase |-> "prep"]
nav(u) ==
  /\ Touches
  /\ IF slides THEN pending' = Append(pending, u) /\ UNCHANGED at ELSE at' = Framed(u, at) /\ UNCHANGED pending
  /\ UNCHANGED <<dish, slides, marks, log, types, cover, calls, logged, late>>

\* The two tabs, on every screen.
Tab == \/ Ready /\ at.mode # "review" /\ nav(Change("review"))
       \/ Ready /\ at.mode # "cook" /\ nav(Change("cook"))
StartCooking == InReview /\ nav(Change("start"))
BeginSteps == OnPrep /\ nav(Change("begin"))
Prev == OnStep /\ nav(Change("prev"))
NextStep == OnStep /\ nav(Change("next"))
BackToSteps == OnDone /\ log # "logged" /\ nav(Change("back"))
ReviewAgain == OnDone /\ log = "logged" /\ nav(Change("review"))

\* A chip of the step that is shown leads to the earlier step that makes it.
JumpToProducer == OnStep /\ \E i \in 1..(StepShown - 1) :
  nav([Change("made") EXCEPT !.step = i, !.phase = Steps[dish][i]])

CookingFrame ==
  /\ pending # <<>>
  /\ pending' = Tail(pending)
  /\ at' = Framed(Head(pending), at)
  /\ UNCHANGED <<dish, slides, marks, log, types, cover, calls, chances, logged, late>>

----------------------------------------------------------------------------
\* Marks: chips of the step shown, chips of every step in the review, and the prep screen's two lists.

Toggle(S, k) == IF k \in S THEN S \ {k} ELSE S \cup {k}
Marks(next) ==
  /\ Touches
  /\ marks' = next
  /\ UNCHANGED <<dish, at, slides, pending, log, types, cover, calls, logged, late>>
Chips(i) == {<<i, g>> : g \in 1..Ingredients[dish]}
ToggleChecked == OnStep /\ \E k \in Chips(StepShown) : Marks([marks EXCEPT !.checked = Toggle(@, k)])
ToggleRemoved == InReview /\ \E i \in DOMAIN Steps[dish] : \E k \in Chips(i) : Marks([marks EXCEPT !.removed = Toggle(@, k)])
PrepList == {<<"i", g>> : g \in 1..Ingredients[dish]} \cup {<<"s", i>> : i \in PrepSteps}
TogglePrep == OnPrep /\ \E k \in PrepList : Marks([marks EXCEPT !.prep = Toggle(@, k)])

----------------------------------------------------------------------------
\* A recipe from the host starts over; a result that is not one is ignored once a recipe is shown.
ReceiveDish == \E d \in Dish :
  /\ chances.host > 0 /\ chances' = [chances EXCEPT !.host = @ - 1]
  /\ dish' = d
  /\ at' = Fresh
  /\ marks' = NoMarks
  /\ log' = "idle"
  /\ cover' = 0
  /\ calls' = calls \cup {[what |-> "cover", of |-> d, n |-> 0], [what |-> "types", of |-> 0, n |-> 0]}
  /\ late' = (late \/ Logging # {})
  /\ UNCHANGED <<slides, pending, types, logged>>

\* The photo is shown if it is still the recipe's.
CoverLoaded(c) ==
  /\ c.what = "cover"
  /\ calls' = calls \ {c}
  /\ IF dish = c.of THEN cover' \in {0, c.of} ELSE UNCHANGED cover
  /\ UNCHANGED <<dish, at, slides, pending, marks, log, types, chances, logged, late>>

\* The catalog replaces the built-in names, and the type that was picked if it is not among them.
MealTypesLoaded(c) ==
  /\ c.what = "types"
  /\ calls' = calls \ {c}
  /\ \/ UNCHANGED types
     \/ \E names \in (SUBSET TypeName) \ {{}} :
          \E t \in IF types.picked \in names THEN {types.picked} ELSE names :
            types' = [offered |-> names, picked |-> t]
  /\ UNCHANGED <<dish, at, slides, pending, marks, log, cover, chances, logged, late>>

PickType == \E t \in types.offered \ {types.picked} :
  /\ OnDone /\ log # "logged"
  /\ Touches
  /\ types' = [types EXCEPT !.picked = t]
  /\ UNCHANGED <<dish, at, slides, pending, marks, log, cover, calls, logged, late>>

\* The answer is taken to be about the recipe that is shown.
LogToday ==
  /\ OnDone /\ log = "idle"
  /\ Touches
  /\ log' = "logging"
  /\ calls' = calls \cup {[what |-> "log", of |-> dish, n |-> chances.user]}
  /\ UNCHANGED <<dish, at, slides, pending, marks, types, cover, logged, late>>
Logged(c) ==
  /\ c.what = "log"
  /\ calls' = calls \ {c}
  /\ \/ log' = "idle" /\ UNCHANGED logged
     \/ log' = "logged" /\ logged' = logged \cup {c.of}
  /\ UNCHANGED <<dish, at, slides, pending, marks, types, cover, chances, late>>

----------------------------------------------------------------------------

CookingInit ==
  /\ dish = 0 /\ at = Fresh /\ slides \in BOOLEAN /\ pending = <<>> /\ marks = NoMarks
  /\ log = "idle" /\ types = [offered |-> Shipped, picked |-> CHOOSE t \in Shipped : TRUE]
  /\ cover = 0 /\ calls = {} /\ chances = [user |-> MaxChoices, host |-> MaxDishes]
  /\ logged = {} /\ late = FALSE

CookingNext ==
  \/ Tab \/ StartCooking \/ BeginSteps \/ Prev \/ NextStep \/ BackToSteps \/ ReviewAgain
  \/ JumpToProducer \/ CookingFrame \/ ToggleChecked \/ ToggleRemoved \/ TogglePrep
  \/ ReceiveDish \/ PickType \/ LogToday
  \/ \E c \in calls : CoverLoaded(c) \/ MealTypesLoaded(c) \/ Logged(c)

CookingTypeOK ==
  /\ dish \in Dish \cup {0} /\ cover \in Dish \cup {0} /\ logged \subseteq Dish
  /\ at.mode \in {"review", "cook"} /\ at.phase \in {"prep", "steps"} /\ log \in {"idle", "logging", "logged"}

\* However taps outrun the animation and recipes replace one another: no step before the first is
\* paged to; every mark is of something the recipe shown has; the meal type picked is one of those
\* offered; the photo is the recipe's; and the log is under way, or was carried out for this
\* recipe, when the screen says so (save where a recipe came while another was being logged:
\* the answer is taken for the new one; App.svelte of cooking).
InStep ==
  /\ at.pos >= 0
  /\ Ready => /\ marks.checked \subseteq UNION {Chips(CookSteps(dish)[p]) : p \in 1..CookCount}
              /\ marks.removed \subseteq UNION {Chips(i) : i \in DOMAIN Steps[dish]}
              /\ marks.prep \subseteq PrepList
  /\ types.picked \in types.offered
  /\ cover \in {0, dish}
  /\ log = "logging" => Logging # {}
  /\ log = "logged" => late \/ dish \in logged
====
