---- MODULE MCTools ----
(***************************************************************************)
(* The start of the process, sign-in, the requests to Paprika, the vector  *)
(* index, the tools and the widgets share no state but the stores: a       *)
(* behaviour is about one of them, its focus, and the others stand still.  *)
(***************************************************************************)
EXTENDS SignIn, Shopping, Menus, Catalogs, RecipeTools, Checklists, RecipeViews, Cooking, Swipes, Drawer, Boot, Requests, VectorIndex, Layouts

CONSTANTS r1, r2   \* two recipes

VARIABLE focus

Focus == {"sign-in", "shopping", "menus", "aisle", "type", "categories", "photos", "checklists", "views", "cooking",
          "swipes", "drawer", "layouts", "boot", "requests", "vectors"}

screenVars == <<viewVars, cookingVars, swipeVars, drawerVars, layoutVars>>
processVars == <<bootVars, requestVars, vectorIndexVars>>
vars == <<focus, signInVars, toolVars, wanted, catalogVars, recipeToolVars, checklistVars, screenVars, processVars>>

MCSlot == [k \in Kind |-> CASE k \in {"aisle", "type", "category"} -> 1..3
                            [] k \in {"item", "menuItem", "photo"} -> 1..2
                            [] k = "recipe" -> {r1, r2}
                            [] OTHER -> {1}]
MCSteps == <<<<"prep", "cook", "cook">>, <<"prep">>>>
MCIngredients == <<1, 1>>
MCFilings == {<<1, 0, 1>>, <<2, 0, 2>>, <<1, 0, 2>>, <<2, 3, 2>>}   \* aisle 1 is called "Other"
MCVector == {<<1>>, <<1, 0>>, <<0, 1>>, <<1, 1>>, <<0, 0>>}
MCFile == <<1, 0, 1>>
MCRating == <<0, 1, 1>>
MCGraphs == {<<a, b, c>> : a \in {<<>>, <<2>>, <<3, 2>>}, b \in {<<>>, <<3>>, <<1>>, <<4>>}, c \in {<<>>, <<1>>, <<2>>}}
MCLifetime == [s \in Store |-> CASE s = "consent" -> 2 [] s = "request" -> 1 [] s = "code" -> 0]

Symmetry == Permutations(Caller)

Init ==
  /\ focus \in Focus
  /\ SignInInit /\ ChecklistsInit /\ RecipeViewsInit /\ CookingInit /\ SwipesInit /\ DrawerInit /\ LayoutsInit
  /\ BootInit /\ RequestsInit /\ VectorIndexInit
  /\ focus # "checklists" => widget = "pantry"
  /\ focus # "views" => app = "menu"
  /\ focus # "cooking" => slides
  /\ focus # "swipes" => place = "pager"
  /\ focus # "drawer" => asks /\ flies
  /\ focus # "layouts" => panel = "menu"
  /\ focus # "boot" => dependsOn = <<<<>>, <<>>, <<>>>>
  /\ CASE focus = "shopping" -> ShoppingInit
       [] focus = "menus" -> MenusInit
       [] focus \in {"aisle", "type"} -> CatalogsInit(focus)
       [] focus \in {"categories", "photos"} -> RecipeToolsInit(focus)
       [] OTHER -> cloud = Empty
  /\ focus # "shopping" => wanted = {}
  /\ focus \notin {"aisle", "type"} => 
       shielded = {} /\ disk = NoRows /\ buffer = NoRows /\ fetched = NotFetched /\ planned = NotFetched /\ undone = FALSE
  /\ focus \notin {"categories", "photos"} =>
       previews = <<>> /\ made = [t \in Token |-> "none"] /\ sent = [c \in Caller |-> 0] /\ attached = [t \in Token |-> 0]
  /\ ToolCallsInit(IF focus \in {"shopping", "menus", "categories", "type"} THEN 2 ELSE MaxCalls)

OnSignIn == /\ focus = "sign-in" /\ SignInNext
            /\ UNCHANGED <<focus, toolVars, wanted, catalogVars, recipeToolVars, checklistVars, screenVars, processVars>>
OnShopping == /\ focus = "shopping" /\ ShoppingNext
              /\ UNCHANGED <<focus, signInVars, catalogVars, recipeToolVars, checklistVars, screenVars, processVars>>
OnMenus == /\ focus = "menus" /\ MenusNext
           /\ UNCHANGED <<focus, signInVars, wanted, catalogVars, recipeToolVars, checklistVars, screenVars, processVars>>
OnCatalogs == /\ focus \in {"aisle", "type"} /\ CatalogsNext(focus)
              /\ UNCHANGED <<focus, signInVars, wanted, recipeToolVars, checklistVars, screenVars, processVars>>
OnRecipes == /\ \/ focus = "categories" /\ CategoriesNext
                \/ focus = "photos" /\ PhotosNext
             /\ UNCHANGED <<focus, signInVars, wanted, catalogVars, checklistVars, screenVars, processVars>>
OnChecklists == /\ focus = "checklists" /\ ChecklistsNext
                /\ UNCHANGED <<focus, signInVars, toolVars, wanted, catalogVars, recipeToolVars, screenVars, processVars>>
others == <<focus, signInVars, toolVars, wanted, catalogVars, recipeToolVars>>
OnViews == /\ focus = "views" /\ RecipeViewsNext
           /\ UNCHANGED <<others, checklistVars, cookingVars, swipeVars, drawerVars, layoutVars, processVars>>
OnCooking == /\ focus = "cooking" /\ CookingNext
             /\ UNCHANGED <<others, checklistVars, viewVars, swipeVars, drawerVars, layoutVars, processVars>>
OnSwipes == /\ focus = "swipes" /\ SwipesNext
            /\ UNCHANGED <<others, checklistVars, viewVars, cookingVars, drawerVars, layoutVars, processVars>>
OnDrawer == /\ focus = "drawer" /\ DrawerNext
            /\ UNCHANGED <<others, checklistVars, viewVars, cookingVars, swipeVars, layoutVars, processVars>>
OnLayouts == /\ focus = "layouts" /\ LayoutsNext
             /\ UNCHANGED <<others, checklistVars, viewVars, cookingVars, swipeVars, drawerVars, processVars>>
OnBoot == /\ focus = "boot" /\ BootNext
          /\ UNCHANGED <<others, checklistVars, screenVars, requestVars, vectorIndexVars>>
OnRequests == /\ focus = "requests" /\ RequestsNext
              /\ UNCHANGED <<others, checklistVars, screenVars, bootVars, vectorIndexVars>>
OnVectors == /\ focus = "vectors" /\ VectorIndexNext
             /\ UNCHANGED <<others, checklistVars, screenVars, bootVars, requestVars>>

Next == \/ OnSignIn \/ OnShopping \/ OnMenus \/ OnCatalogs \/ OnRecipes
        \/ OnChecklists \/ OnViews \/ OnCooking \/ OnSwipes \/ OnDrawer \/ OnLayouts
        \/ OnBoot \/ OnRequests \/ OnVectors

Spec == Init /\ [][Next]_vars

\* The properties of several modules are those of the focus: the others are in an initial state, which
\* each passes through when it is the focus itself.

\* Every variable keeps its type, what is held under a cap stays under it, and as many weeks are being
\* read as the planner that waits for one knows of.
ToolsTypeOK == /\ SignInTypeOK /\ ToolCallsTypeOK /\ CatalogsTypeOK
               /\ RecipeToolsTypeOK /\ ChecklistsTypeOK /\ RecipeViewsTypeOK
               /\ CookingTypeOK /\ SwipesTypeOK /\ DrawerTypeOK /\ LayoutsTypeOK
               /\ BootTypeOK /\ RequestsTypeOK /\ VectorIndexTypeOK

\* The two checklists: what their rows say agrees with the server, one touch acts on one once and
\* leaves none to the side but a row that is leaving or went astray, and the pantry's drawer and flying
\* rows fit the rows (the widgets' App.svelte, swipe-action.ts).
ChecklistsRight == CASE focus = "checklists" -> ListAgrees
                     [] focus = "swipes" -> SwipesOnce
                     [] focus = "drawer" -> DrawerRight
                     [] OTHER -> TRUE

\* What is shown: no late read, frame or push shows a recipe that was not asked for, or anything that
\* belongs to another one; what is drawn of the rows is all of them, once and in order, and no heading
\* of a checklist twice unless two kinds of rows share it (the widgets' App.svelte); and a search finds the nearest (features/json-vector-index.ts 324-368).
ScreensRight == CASE focus = "views" -> NeverHijacks
                  [] focus = "cooking" -> InStep
                  [] focus = "layouts" -> LaidOut
                  [] focus = "drawer" -> GroupedRight
                  [] focus = "vectors" -> SearchRight
                  [] OTHER -> TRUE

\* The process: it starts and ends its parts in order and once (src/index.ts, transport/stdio.ts,
\* kernel/registry.ts), its requests to Paprika get as far as they can (paprika/client.ts), and its vector
\* index is what was last written of it (features/json-vector-index.ts).
ProcessRight == CASE focus = "boot" -> BootRight
                  [] focus = "requests" -> RequestsRight
                  [] focus = "vectors" -> IndexKept
                  [] OTHER -> TRUE
====
