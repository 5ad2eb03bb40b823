---- MODULE Shopping ----
(***************************************************************************)
(* The grocery and the pantry tools.                                       *)
(***************************************************************************)
EXTENDS ToolCalls

CONSTANTS Ingredient, ListName

VARIABLE wanted   \* what is on a list or in the pantry and no one has taken off

On(l) == {u \in Known("item") : store.item[u].list = l}
Unbought(l) == {store.item[u].ing : u \in {v \in On(l) : ~store.item[v].bought}}
ListNamed(n) == {l \in Known("list") : store.list[l].name = n}

----------------------------------------------------------------------------
\* Lists.

CreateList(c) == \E n \in ListName :
  /\ ListNamed(n) = {}
  /\ Enough("list", {n})
  /\ Does(c, "edits", <<Put("list", NewRows("list", {n}, LAMBDA m : [name |-> m, default |-> FALSE]))>>)

RenameList(c) == \E l \in Known("list"), n \in ListName :
  /\ store.list[l].name # n
  /\ ListNamed(n) = {}
  /\ Does(c, "edits", <<Put("list", Changed("list", {l}, LAMBDA r : [r EXCEPT !.name = n]))>>)

\* The items are not told.
DeleteList(c) == \E l \in Known("list") : Asks(c, "edits", <<Drop("list", {l})>>)

----------------------------------------------------------------------------
\* Items.

\* Items put in an aisle of the caller's choice, or in none, teach the catalog where they belong, before they are saved.
Lesson(I, filed) == LET taught == {u \in Known("memory") : store.memory[u].ing \in I}
                 new == I \ {store.memory[u].ing : u \in taught}
             IN Put("memory", [u \in taught |-> [store.memory[u] EXCEPT !.filed = filed]]
                              @@ NewRows("memory", new, LAMBDA i : [ing |-> i, filed |-> filed]))
Built(l, I) == Put("item", NewRows("item", I, LAMBDA i : [ing |-> i, list |-> l, bought |-> FALSE]))

buildGroceryItems(c) == \E l \in Known("list"), I \in SUBSET Ingredient, placed, filed \in BOOLEAN :
  LET new == I \ Unbought(l) IN
  /\ new # {}
  /\ Enough("item", new) /\ Enough("memory", new)
  /\ IF placed THEN Asks(c, "adds", <<Lesson(new, filed), Built(l, new)>>)
               ELSE Does(c, "adds", <<Built(l, new)>>)
AddItems(c) == buildGroceryItems(c)
\* The recipe may have to be picked, before the list is looked at; without a list it is the default one.
AddRecipe(c) == buildGroceryItems(c)

\* The item is read before its new aisle is ensured.
UpdateItem(c) == \E u \in Known("item") : Asks(c, "edits", <<Put("item", Changed("item", {u}, LAMBDA r : r))>>)

MarkPurchased(c) == \E u \in Known("item") :
  Does(c, "edits", <<Put("item", Changed("item", {u}, LAMBDA r : [r EXCEPT !.bought = TRUE]))>>)

DeleteItem(c) == \E u \in Known("item") : Does(c, "edits", <<Drop("item", {u})>>)

ClearPurchased(c) == \E l \in Known("list") :
  LET bought == {u \in On(l) : store.item[u].bought} IN
  /\ bought # {}
  /\ Asks(c, "edits", <<Drop("item", bought)>>)

ClearList(c) == \E l \in Known("list") :
  /\ On(l) # {}
  /\ Asks(c, "edits", <<Drop("item", On(l))>>)

\* What is moved is created in the pantry first.
Stocked(U) == Put("pantry", NewRows("pantry", U, LAMBDA u : [ing |-> store.item[u].ing, stocked |-> TRUE]))
MutMoved(U) == <<Drop("item", U), Stocked(U)>>
Moved(U) == <<Stocked(U), Drop("item", U)>>

MoveToPantry(c) == \E U \in SUBSET Known("item") \ {{}} :
  /\ Enough("pantry", U)
  /\ Asks(c, "moves", Moved(U))

----------------------------------------------------------------------------
\* The pantry.

AddPantry(c) == \E I \in SUBSET Ingredient, placed \in BOOLEAN :
  LET new == I \ {store.pantry[u].ing : u \in Known("pantry")} IN
  /\ new # {}
  /\ Enough("pantry", new)
  /\ Start(c, "adds", IF placed THEN "asks" ELSE "saves",
           <<Put("pantry", NewRows("pantry", new, LAMBDA i : [ing |-> i, stocked |-> TRUE]))>>)

UpdatePantry(c) == \E u \in Known("pantry"), i \in Ingredient, placed \in BOOLEAN :
  Start(c, "adds", IF placed THEN "asks" ELSE "saves",
        <<Put("pantry", Changed("pantry", {u}, LAMBDA r : [r EXCEPT !.ing = i]))>>)

MarkStock(c, stocked) == \E u \in Known("pantry") :
  Does(c, "edits", <<Put("pantry", Changed("pantry", {u}, LAMBDA r : [r EXCEPT !.stocked = stocked]))>>)
MarkOutOfStock(c) == MarkStock(c, FALSE)
Restock(c) == MarkStock(c, TRUE)

DeletePantry(c) == \E u \in Known("pantry") : Asks(c, "edits", <<Drop("pantry", {u})>>)

ClearOutOfStock(c) ==
  LET out == {u \in Known("pantry") : ~store.pantry[u].stocked} IN
  /\ out # {}
  /\ Asks(c, "edits", <<Drop("pantry", out)>>)

----------------------------------------------------------------------------
\* What is remembered of ingredients that are in no aisle is not taken over from Paprika.
ReconcileIngredients ==
  /\ store' = [store EXCEPT !.memory = [u \in {v \in DOMAIN cloud.memory : cloud.memory[v].filed} |-> cloud.memory[u]]]
  /\ UNCHANGED <<cloud, call, budget>>

----------------------------------------------------------------------------
\* What is wanted: history only, never read by an action.

Ings(rows) == {rows.item[u].ing : u \in DOMAIN rows.item} \cup {rows.pantry[u].ing : u \in DOMAIN rows.pantry}
\* What the rows that a batch replaces or deletes stand for.
Touched(rows, b) == IF b.kind \in {"item", "pantry"}
                    THEN {rows[b.kind][u].ing : u \in (b.drop \cup DOMAIN b.put) \cap DOMAIN rows[b.kind]} ELSE {}
Tracks(b, op) == wanted' = (IF op = "moves" THEN wanted ELSE wanted \ (Touched(cloud, b) \ Touched(cloud', b)))
                           \cup (IF op = "adds"
                                 THEN Touched(cloud', b) ELSE {})

ShoppingSaves(c) ==
  /\ Saves(c)
  /\ IF cloud' = cloud THEN UNCHANGED wanted ELSE Tracks(Head(call[c].batches), call[c].op)

ShoppingRemote ==
  \E b \in {Drop("item", {u}) : u \in DOMAIN cloud.item} \cup {Drop("pantry", {u}) : u \in DOMAIN cloud.pantry}
           \cup {Put("item", [v \in {u} |-> [cloud.item[v] EXCEPT !.bought = ~@]]) : u \in DOMAIN cloud.item}
           \cup {Drop("list", {u}) : u \in DOMAIN cloud.list} :
    Remote(b) /\ Tracks(b, "remote")

\* The default list, with something to buy.
ShoppingInit ==
  LET i == CHOOSE j \in Ingredient : TRUE
  IN /\ cloud = [Empty EXCEPT !.list = [u \in {1} |-> [name |-> CHOOSE n \in ListName : TRUE, default |-> TRUE]],
                              !.item = [u \in {1} |-> [ing |-> i, list |-> 1, bought |-> FALSE]]]
     /\ wanted = {i}

ShoppingNext ==
  \/ /\ \/ \E c \in Caller :
             \/ CreateList(c) \/ RenameList(c) \/ DeleteList(c)
             \/ AddItems(c) \/ AddRecipe(c) \/ UpdateItem(c) \/ MarkPurchased(c) \/ DeleteItem(c)
             \/ ClearPurchased(c) \/ ClearList(c) \/ MoveToPantry(c)
             \/ AddPantry(c) \/ UpdatePantry(c) \/ MarkOutOfStock(c) \/ Restock(c)
             \/ DeletePantry(c) \/ ClearOutOfStock(c)
             \/ Proceeds(c) \/ Stops(c) \/ Commits(c)
        \/ \E k \in {"list", "item", "pantry"} : Syncs(k)
        \/ ReconcileIngredients
        \/ Restarts
     /\ UNCHANGED wanted
  \/ \E c \in Caller : ShoppingSaves(c)
  \/ ShoppingRemote

ShoppingSpec == ShoppingInit /\ ToolCallsInit(MaxCalls) /\ [][ShoppingNext]_<<toolVars, wanted>>

\* What is on a list or in the pantry stays in one of the two until some call or device takes it off:
\* a move loses nothing, whichever of its four steps fails, is cut off by a restart or runs beside
\* another call on the same items (grocery-move.ts, pantry/module.ts).
NothingLost == wanted \subseteq Ings(cloud)
====
