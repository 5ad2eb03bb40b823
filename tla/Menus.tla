---- MODULE Menus ----
(***************************************************************************)
(* The menu, meal and meal-planner tools.                                  *)
(***************************************************************************)
EXTENDS ToolCalls

CONSTANTS MaxDay, MenuName, Recipe

ASSUME MenusAssumption == MaxDay \in Nat

Day == 1..MaxDay

\* One client at a time: nothing keeps two apart (README).
Alone == \A c \in Caller : call[c] = Idle

ItemsOf(m) == {u \in Known("menuItem") : store.menuItem[u].menu = m}
DaysOf(m) == {store.menuItem[u].day : u \in ItemsOf(m)}
MenuNamed(n) == {m \in Known("menu") : store.menu[m].name = n}

----------------------------------------------------------------------------
\* Menus.

CreateMenu(c) == \E n \in MenuName, d \in Day :
  /\ Alone
  /\ MenuNamed(n) = {}
  /\ Enough("menu", {n})
  /\ Does(c, "menus", <<Put("menu", NewRows("menu", {n}, LAMBDA m : [name |-> m, days |-> d]))>>)

\* A rename to another menu's name and a span that would leave items outside are refused.
MutKeepsItems(m, d) == TRUE
KeepsItems(m, d) == \A e \in DaysOf(m) : e <= d
UpdateMenu(c) == \E m \in Known("menu"), n \in MenuName, d \in Day :
  /\ Alone
  /\ MenuNamed(n) \subseteq {m}
  /\ d # store.menu[m].days => KeepsItems(m, d)
  /\ Does(c, "menus", <<Put("menu", [u \in {m} |-> [name |-> n, days |-> d]])>>)

\* The items go first, and the menu only when they are gone.
Emptied(m) == IF ItemsOf(m) = {} THEN <<>> ELSE <<Drop("menuItem", ItemsOf(m))>>
Cascade(m) == Emptied(m) \o <<Drop("menu", {m})>>
DeleteMenu(c) == \E m \in Known("menu") : Alone /\ Asks(c, "menus", Cascade(m))

----------------------------------------------------------------------------
\* Menu items.

\* A day beyond the menu's span extends the menu first.
Extended(m, D) == IF \E d \in D : d > store.menu[m].days
                  THEN <<Put("menu", Changed("menu", {m}, LAMBDA x : [x EXCEPT !.days = CHOOSE d \in D : \A e \in D : e <= d]))>>
                  ELSE <<>>

\* The whole batch is refused for one unknown recipe; missing meal types are ensured after the extension.
AddMenuItems(c) == \E m \in Known("menu"), D \in (SUBSET Day) \ {{}}, r \in Recipe \cup {"none"}, picked \in BOOLEAN :
  /\ Alone
  /\ r \in Recipe => r \in Known("recipe")
  /\ Enough("menuItem", D)
  /\ Start(c, "menus", IF picked THEN "asks" ELSE "saves",
           Extended(m, D) \o <<Put("menuItem", NewRows("menuItem", D, LAMBDA d : [menu |-> m, day |-> d, recipe |-> r]))>>)

MoveMenuItem(c) == \E u \in Known("menuItem"), d \in Day :
  LET m == store.menuItem[u].menu IN
  /\ Alone
  /\ d # store.menuItem[u].day
  /\ Does(c, "menus", (IF m \in Known("menu") THEN Extended(m, {d}) ELSE <<>>)
                      \o <<Put("menuItem", Changed("menuItem", {u}, LAMBDA r : [r EXCEPT !.day = d]))>>)

UpdateMenuItem(c) == \E u \in Known("menuItem"), r \in Recipe \cap Known("recipe") :
  /\ Alone
  /\ Asks(c, "menus", <<Put("menuItem", Changed("menuItem", {u}, LAMBDA i : [i EXCEPT !.recipe = r]))>>)

DeleteMenuItem(c) == \E u \in Known("menuItem") : Alone /\ Does(c, "menus", <<Drop("menuItem", {u})>>)

----------------------------------------------------------------------------
\* Meals.

Planned(D, r) == Put("meal", NewRows("meal", D, LAMBDA d : [day |-> d, recipe |-> r]))

\* A new meal type is ensured once every item of the batch is known to be good.
PlanMeals(c) == \E D \in (SUBSET Day) \ {{}}, r \in Recipe \cup {"none"} :
  /\ Alone
  /\ r \in Recipe => r \in Known("recipe")
  /\ Enough("meal", D)
  /\ Asks(c, "meals", <<Planned(D, r)>>)

LogCookedMeal(c) == \E d \in Day, r \in Recipe \cap Known("recipe") :
  /\ Alone
  /\ Enough("meal", {d})
  /\ Asks(c, "meals", <<Planned({d}, r)>>)

\* Nothing is saved when nothing changes.
UpdateMeal(c) == \E u \in Known("meal"), r \in (Recipe \cap Known("recipe")) \cup {"none"} :
  /\ Alone
  /\ r # store.meal[u].recipe
  /\ Asks(c, "meals", <<Put("meal", Changed("meal", {u}, LAMBDA x : [x EXCEPT !.recipe = r]))>>)

RescheduleMeal(c) == \E u \in Known("meal"), d \in Day :
  /\ Alone
  /\ d # store.meal[u].day
  /\ Asks(c, "meals", <<Put("meal", Changed("meal", {u}, LAMBDA x : [x EXCEPT !.day = d]))>>)

DeleteMeal(c) == \E u \in Known("meal") : Alone /\ Asks(c, "meals", <<Drop("meal", {u})>>)

\* A copy of the menu's items; refused when one names a recipe that is not known.
Scheduled(m) == Put("meal", NewRows("meal", ItemsOf(m), LAMBDA u : [day |-> store.menuItem[u].day, recipe |-> store.menuItem[u].recipe]))
ScheduleMenu(c) == \E m \in Known("menu") :
  /\ Alone
  /\ ItemsOf(m) # {}
  /\ \A u \in ItemsOf(m) : store.menuItem[u].recipe \in Known("recipe") \cup {"none"}
  /\ Enough("meal", ItemsOf(m))
  /\ Does(c, "meals", <<Scheduled(m)>>)

----------------------------------------------------------------------------
MenusRemote == \E b \in {Drop("recipe", {r}) : r \in DOMAIN cloud.recipe} \cup {Drop("menu", {m}) : m \in DOMAIN cloud.menu} :
  Remote(b)

MenusInit == cloud = [Empty EXCEPT !.recipe = [r \in Recipe |-> [cats |-> {}]],
                                   !.menu = [m \in {1} |-> [name |-> CHOOSE n \in MenuName : TRUE, days |-> 1]]]

MenusNext ==
  \/ \E c \in Caller :
       \/ CreateMenu(c) \/ UpdateMenu(c) \/ DeleteMenu(c)
       \/ AddMenuItems(c) \/ MoveMenuItem(c) \/ UpdateMenuItem(c) \/ DeleteMenuItem(c)
       \/ PlanMeals(c) \/ LogCookedMeal(c) \/ UpdateMeal(c) \/ RescheduleMeal(c) \/ DeleteMeal(c) \/ ScheduleMenu(c)
       \/ Proceeds(c) \/ Stops(c) \/ Saves(c) \/ Commits(c)
  \/ \E k \in {"menu", "menuItem", "meal", "recipe"} : Syncs(k)
  \/ Restarts
  \/ MenusRemote

MenusSpec == MenusInit /\ ToolCallsInit(MaxCalls) /\ [][MenusNext]_toolVars

\* While the store has missed nothing, every menu item at Paprika belongs to a menu that is there and
\* to a day within its span, after any call that failed between its two saves as after one that did
\* not (menu-item-write.ts, menu-item-move.ts, update.ts, delete.ts).
MenusWhole == Undisturbed =>
  \A u \in DOMAIN cloud.menuItem : LET m == cloud.menuItem[u].menu
                                   IN m \in DOMAIN cloud.menu /\ cloud.menuItem[u].day <= cloud.menu[m].days
====
