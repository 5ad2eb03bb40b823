---- MODULE RecipeTools ----
(***************************************************************************)
(* The recipe tools: the category tree and the recipes filed under it, and *)
(* photos, uploaded or generated.  A generated preview waits in memory     *)
(* under a token until it is attached.                                     *)
(***************************************************************************)
EXTENDS ToolCalls

CONSTANTS
  Token,         \* the previews generated
  NoToken,       \* an image from elsewhere
  MaxPreviews,   \* how many are held at a time
  PreviewTTL     \* for how many ticks

VARIABLES
  previews,   \* the buffer, oldest first: tokens and their ages
  made,       \* per token: the recipe its image was generated for
  sent,       \* per caller: requests of a photo upload that have been answered
  attached    \* per token: how many photos were made of it

recipeToolVars == <<previews, made, sent, attached>>

Top == 0
\* What stands for no parent is nobody's uid; the recipes are told apart from the other calls, and an image
\* from elsewhere from the previews; one preview at least is held.
ASSUME RecipeToolsAssumption == /\ Top \notin Slot["category"]
                                /\ Slot["recipe"] \cap {"none", "attach", "photo"} = {}
                                /\ NoToken \notin Token
                                /\ MaxPreviews \in Nat \ {0}

Dishes == Known("recipe")
Categories == Known("category")
NoCall == \A c \in Caller : call[c] = Idle

----------------------------------------------------------------------------
\* Categories.  One client at a time: nothing keeps two apart (README).

\* k is p or above it: whoever is above p is in every set that is closed towards the root.
ClosedUp(S) == \A k \in S : store.category[k].parent \in Categories => store.category[k].parent \in S
CreatesCycle(k, p) == p # Top /\ \A S \in SUBSET Categories : p \in S /\ ClosedUp(S) => k \in S

Filed(r) == [cats |-> r, trashed |-> FALSE]

CreateCategory(c) == \E p \in Categories \cup {Top} :
  /\ NoCall
  /\ Enough("category", {p})
  /\ Does(c, "category", <<Put("category", NewRows("category", {p}, LAMBDA q : [parent |-> q]))>>)

UpdateCategory(c) == \E k \in Categories, p \in Categories \cup {Top} :
  /\ NoCall
  /\ ~CreatesCycle(k, p)
  /\ Does(c, "category", <<Put("category", [u \in {k} |-> [parent |-> p]])>>)

\* A recipe in the trash counts: it can be restored.
RefersTo(r, k) == k \in store.recipe[r].cats
DeleteCategory(c) == \E k \in Categories :
  /\ NoCall
  /\ ~\E child \in Categories : store.category[child].parent = k
  /\ ~\E r \in Dishes : RefersTo(r, k)
  /\ Does(c, "category", <<Drop("category", {k})>>)

\* Recipes are filed under the categories that are known; what is not known is passed over.
CreateRecipe(c) == \E K \in SUBSET Categories, r \in Free("recipe") :
  /\ NoCall
  /\ Does(c, "recipe", <<Put("recipe", [u \in {r} |-> Filed(K)])>>)

\* References that none are known of are refused, also for a replacement.
Categorize(c) == \E r \in Dishes, K \in (SUBSET Categories) \ {{}}, mode \in {"add", "replace", "remove"} :
  LET old == store.recipe[r].cats
      new == CASE mode = "add" -> old \cup K [] mode = "replace" -> K [] mode = "remove" -> old \ K
  IN NoCall /\ Does(c, "recipe", <<Put("recipe", Changed("recipe", {r}, LAMBDA x : [x EXCEPT !.cats = new]))>>)

\* A flag, a rating, a move to the trash: the rest of the recipe as it was read.
Rewrites(c, r, trashed) ==
  NoCall /\ Does(c, "recipe", <<Put("recipe", Changed("recipe", {r}, LAMBDA x : [x EXCEPT !.trashed = trashed]))>>)
EditRecipe(c) == \E r \in Dishes : Rewrites(c, r, store.recipe[r].trashed)
TrashRecipe(c) == \E r \in Dishes : ~store.recipe[r].trashed /\ Rewrites(c, r, TRUE)

\* Whether a recipe is in the trash is Paprika's to say; if it is not, the store is put right.
InTrash == {r \in DOMAIN cloud.recipe : cloud.recipe[r].trashed}
RestoreRecipe(c) == \E r \in InTrash :
  NoCall /\ Does(c, "recipe", <<Put("recipe", [u \in {r} |-> [cloud.recipe[r] EXCEPT !.trashed = FALSE]])>>)
PurgeRecipe(c) == \E r \in InTrash : NoCall /\ Asks(c, "recipe", <<Drop("recipe", {r})>>)
Reconciles == \E r \in Slot["recipe"] \ InTrash :
  /\ NoCall /\ Spends("calls")
  /\ store' = [store EXCEPT !.recipe = [q \in (DOMAIN cloud.recipe \cap {r}) \cup (DOMAIN @ \ {r}) |->
                                          IF q = r THEN cloud.recipe[q] ELSE @[q]]]
  /\ UNCHANGED <<cloud, call>>

----------------------------------------------------------------------------
\* The preview buffer.

Waiting == {previews[i].token : i \in DOMAIN previews}
Place(t) == CHOOSE i \in DOMAIN previews : previews[i].token = t
Age(t) == previews[Place(t)].age
\* At the cap the oldest goes.
Pushed(s, e) == Append(IF Len(s) >= MaxPreviews THEN Tail(s) ELSE s, e)
MutTaken(t) == previews
Taken(t) == [i \in 1..(Len(previews) - 1) |-> previews[IF i < Place(t) THEN i ELSE i + 1]]

\* The uploaded image and the recipe as it was read; the recipe is posted before and after the photo.
Upload(r, t) == LET photo == Put("photo", NewRows("photo", {r}, LAMBDA x : [recipe |-> x, token |-> t]))
                    recipe == Put("recipe", [u \in {r} |-> store.recipe[r]])
                IN <<recipe, photo, recipe>>

\* The provider is asked for an image of r.
GeneratePhoto(c) == \E r \in Dishes :
  /\ Asks(c, r, <<>>)
  /\ UNCHANGED recipeToolVars

\* There is an image: it is kept as a preview, or attached at once if the recipe is still there.
GenerationEnds(c) ==
  /\ call[c].at = "asks" /\ call[c].op \in Slot["recipe"]
  /\ \E t \in Token :
       /\ made[t] = "none"
       /\ made' = [made EXCEPT ![t] = call[c].op]
       /\ \/ /\ previews' = Pushed(previews, [token |-> t, age |-> 0])
             /\ call' = [call EXCEPT ![c] = Idle]
          \/ /\ call[c].op \in Dishes
             /\ Enough("photo", {call[c].op})
             /\ call' = [call EXCEPT ![c] = [op |-> "attach", at |-> "asks", batches |-> Upload(call[c].op, t)]]
             /\ UNCHANGED previews
  /\ UNCHANGED <<cloud, store, budget, sent, attached>>
GenerationFails(c) ==
  /\ call[c].op \in Slot["recipe"]
  /\ Stops(c)
  /\ UNCHANGED recipeToolVars

\* From a link or from bytes.
UploadPhoto(c) == \E r \in Dishes :
  /\ Enough("photo", {r})
  /\ Asks(c, "attach", Upload(r, NoToken))
  /\ UNCHANGED recipeToolVars

\* From a preview: the token is taken at once, and put back only if it is for another recipe.
UploadPreview(c) == \E t \in Waiting, r \in Dishes :
  /\ Enough("photo", {r})
  /\ \/ Age(t) > PreviewTTL /\ previews' = Taken(t) /\ UNCHANGED toolVars
     \/ /\ Age(t) <= PreviewTTL /\ made[t] # r
        /\ previews' = Pushed(Taken(t), [token |-> t, age |-> Age(t)])
        /\ UNCHANGED toolVars
     \/ Age(t) <= PreviewTTL /\ made[t] = r /\ previews' = Taken(t) /\ Asks(c, "attach", Upload(r, t))
  /\ UNCHANGED <<made, sent, attached>>

\* The image cannot be fetched or decoded: a token that was taken is lost.
UploadStops(c) == call[c].op = "attach" /\ Stops(c) /\ UNCHANGED recipeToolVars
UploadProceeds(c) == call[c].op = "attach" /\ Proceeds(c) /\ UNCHANGED recipeToolVars

\* One of the three requests.
UploadSaves(c) ==
  LET b == call[c].batches[sent[c] + 1] IN
  /\ call[c].at = "saves" /\ call[c].op = "attach"
  /\ \/ /\ cloud' = Applied(cloud, b)
        /\ sent' = [sent EXCEPT ![c] = (@ + 1) % 3]
        /\ call' = IF sent[c] = 2 THEN [call EXCEPT ![c].at = "commits"] ELSE call
        /\ UNCHANGED budget
     \/ Spends("faults") /\ GivesUp(c) /\ sent' = [sent EXCEPT ![c] = 0] /\ UNCHANGED cloud
     \/ Spends("losses") /\ GivesUp(c) /\ sent' = [sent EXCEPT ![c] = 0] /\ cloud' = Applied(cloud, b)
  /\ attached' = IF b.kind = "photo" /\ cloud' # cloud
                 THEN [t \in Token |-> attached[t] + Cardinality({u \in DOMAIN b.put : b.put[u].token = t})]
                 ELSE attached
  /\ UNCHANGED <<store, previews, made>>

\* Recipe and photo are committed together.
UploadCommits(c) ==
  /\ call[c].at = "commits" /\ call[c].op = "attach"
  /\ GivesUp(c)
  /\ \/ store' = Applied(Applied(store, call[c].batches[1]), call[c].batches[2]) /\ UNCHANGED budget
     \/ Spends("losses") /\ UNCHANGED store
  /\ UNCHANGED cloud /\ UNCHANGED recipeToolVars

DeletePhoto(c) == \E u \in Known("photo") : Asks(c, "photo", <<Drop("photo", {u})>>) /\ UNCHANGED recipeToolVars

PreviewsAge ==
  /\ previews' = [i \in DOMAIN previews |-> [previews[i] EXCEPT !.age = IF @ > PreviewTTL THEN @ ELSE @ + 1]]
  /\ UNCHANGED <<toolVars, made, sent, attached>>

RecipeToolsRestart ==
  /\ Restarts
  /\ previews' = <<>>
  /\ sent' = [c \in Caller |-> 0]
  /\ UNCHANGED <<made, attached>>

----------------------------------------------------------------------------
\* Two ways to look at it: the tree, and the photos.

RecipeToolsInit(focus) ==
  /\ cloud = IF focus = "categories"
             THEN [Empty EXCEPT !.category = [k \in {1, 2} |-> [parent |-> k - 1]]]
             ELSE [Empty EXCEPT !.recipe = [r \in Slot["recipe"] |-> Filed({})]]
  /\ previews = <<>>
  /\ made = [t \in Token |-> "none"]
  /\ sent = [c \in Caller |-> 0]
  /\ attached = [t \in Token |-> 0]

CategoriesNext ==
  \/ \E c \in Caller :
       /\ \/ CreateCategory(c) \/ UpdateCategory(c) \/ DeleteCategory(c)
          \/ CreateRecipe(c) \/ Categorize(c) \/ EditRecipe(c)
          \/ TrashRecipe(c) \/ RestoreRecipe(c) \/ PurgeRecipe(c)
          \/ Proceeds(c) \/ Stops(c) \/ Saves(c) \/ Commits(c)
       /\ UNCHANGED recipeToolVars
  \/ \E k \in {"category", "recipe"} : Syncs(k) /\ UNCHANGED recipeToolVars
  \/ Reconciles /\ UNCHANGED recipeToolVars
  \/ RecipeToolsRestart
  \/ \E k \in DOMAIN cloud.category : Remote(Drop("category", {k})) /\ UNCHANGED recipeToolVars

CategoriesSpec == RecipeToolsInit("categories") /\ ToolCallsInit(MaxCalls) /\ [][CategoriesNext]_<<toolVars, recipeToolVars>>

PhotosNext ==
  \/ \E c \in Caller :
       \/ GeneratePhoto(c) \/ GenerationEnds(c) \/ GenerationFails(c)
       \/ UploadPhoto(c) \/ UploadPreview(c) \/ UploadStops(c) \/ UploadProceeds(c)
       \/ UploadSaves(c) \/ UploadCommits(c)
       \/ DeletePhoto(c)
       \/ /\ call[c].op = "photo"
          /\ Proceeds(c) \/ Stops(c) \/ Saves(c) \/ Commits(c)
          /\ UNCHANGED recipeToolVars
  \/ \E k \in {"recipe", "photo"} : Syncs(k) /\ UNCHANGED recipeToolVars
  \/ PreviewsAge
  \/ RecipeToolsRestart
  \/ \E r \in DOMAIN cloud.recipe : Remote(Drop("recipe", {r})) /\ UNCHANGED recipeToolVars

PhotosSpec == RecipeToolsInit("photos") /\ ToolCallsInit(MaxCalls) /\ [][PhotosNext]_<<toolVars, recipeToolVars>>

RecipeToolsTypeOK ==
  /\ Len(previews) <= MaxPreviews
  /\ \A i \in DOMAIN previews : previews[i].token \in Token /\ previews[i].age \in 0..(PreviewTTL + 1)
  /\ sent \in [Caller -> 0..2]
  /\ DOMAIN made = Token
  /\ attached \in [Token -> Nat]

\* While the store has missed nothing, the categories at Paprika form a tree and no recipe is filed
\* under one that is gone, a recipe that was trashed and may come back included, after any chain of
\* moves, deletions and failed calls (category-writes.ts, delete-category.ts, categorize.ts).
CategoriesWhole == Undisturbed =>
  LET rows == cloud.category IN
  /\ \A k \in DOMAIN rows : rows[k].parent \in DOMAIN rows \cup {Top}
  /\ \A S \in (SUBSET DOMAIN rows) \ {{}} : \E k \in S : rows[k].parent \notin S
  /\ \A r \in DOMAIN cloud.recipe : cloud.recipe[r].cats \subseteq DOMAIN rows

\* A generated preview becomes at most one photo, and of its own recipe only, however uploads overlap
\* and whichever of an upload's three requests fails or loses its answer (photo-writes.ts).
PreviewsOnce ==
  /\ \A t \in Token : attached[t] <= 1
  /\ \A u \in DOMAIN cloud.photo : cloud.photo[u].token \in Token => cloud.photo[u].recipe = made[cloud.photo[u].token]

\* Both: what the recipe tools keep whole at Paprika (domains/recipe).
RecipesWhole == CategoriesWhole /\ PreviewsOnce
====
