---- MODULE Tools_proofs ----
(***************************************************************************)
(* What the tools keep, one part after the other.                          *)
(*   The lists and the pantry: whatever is saved, refused, lost on its way *)
(*   or cut off by a restart, an ingredient that nobody took off is on a   *)
(*   list or in the pantry.                                                *)
(*   The catalogs: as long as nothing is lost and nobody else writes, no   *)
(*   two entries share a name or a position.                               *)
(*   Menus and categories: as long as nothing is lost and nobody else      *)
(*   writes, calls that come one at a time leave every item inside its     *)
(*   menu's days and every category and recipe under one that there is.    *)
(*   Photos: however uploads overlap and whatever fails, a preview becomes *)
(*   one photo at most, and of its own recipe.                             *)
(***************************************************************************)
EXTENDS Shopping, Menus, Catalogs, RecipeTools, FiniteSetTheorems, WellFoundedInduction, TLAPS

----------------------------------------------------------------------------
\* THE LISTS AND THE PANTRY. What a call still has to save.

Batches(c) == call[c].batches
One(bs) == Len(bs) = 1 /\ bs = <<bs[1]>>
Two(bs) == Len(bs) = 2 /\ bs = <<bs[1], bs[2]>>

\* The courses of the tools: an edit is one batch that stores or deletes; an addition may be preceded
\* by a lesson; a move stocks the pantry and then, as what is left of it, takes the items off.
Edit(op, bs) == /\ op = "edits" /\ One(bs)
                /\ bs[1].kind \in Kind
                /\ DOMAIN bs[1].put = {} \/ bs[1].drop = {}
Addition(op, bs) == /\ op = "adds" /\ One(bs)
                    /\ bs[1].kind \in {"item", "pantry"}
                    /\ bs[1].drop = {}
Taught(op, bs) == /\ op = "adds" /\ Two(bs)
                  /\ bs[1].kind = "memory" /\ bs[2].kind = "item"
                  /\ bs[1].drop = {} /\ bs[2].drop = {}
Move(op, bs) == /\ op = "moves" /\ Two(bs)
                /\ bs[1].kind = "pantry" /\ bs[2].kind = "item"
                /\ bs[1].drop = {} /\ DOMAIN bs[2].put = {}
Removal(op, at, bs) == /\ op = "moves" /\ One(bs) /\ at # "asks"
                       /\ bs[1].kind = "item" /\ DOMAIN bs[1].put = {}
Course(op, at, bs) ==
  /\ at \in {"asks", "saves", "commits"}
  /\ Edit(op, bs) \/ Addition(op, bs) \/ Taught(op, bs) \/ Move(op, bs) \/ Removal(op, at, bs)
Shape(c) == \/ call[c] = Idle
            \/ /\ call[c] = [op |-> call[c].op, at |-> call[c].at, batches |-> Batches(c)]
               /\ Course(call[c].op, call[c].at, Batches(c))

BatchOf(c, n, k) == n \in 1..Len(Batches(c)) /\ Batches(c)[n].kind = k
Mentions(c, k, u) == \E n \in {1, 2} : BatchOf(c, n, k) /\ u \in DOMAIN Batches(c)[n].put \cup Batches(c)[n].drop

\* Paprika, the store or a call under way says that item u is of ingredient i.
Says(u, i) ==
  \/ u \in DOMAIN cloud["item"] /\ cloud["item"][u].ing = i
  \/ u \in DOMAIN store["item"] /\ store["item"][u].ing = i
  \/ \E c \in Caller, n \in {1, 2} : BatchOf(c, n, "item") /\ u \in DOMAIN Batches(c)[n].put /\ Batches(c)[n].put[u].ing = i

\* An item's row has an ingredient, and that is said of it.
Tells(u, row) == "ing" \in DOMAIN row /\ Says(u, row.ing)

\* The items that a move, its ingredients in the pantry, is about to take off.
Stocking(c) == call[c].op = "moves" /\ Len(Batches(c)) = 2 /\ call[c].at # "commits"
Shed(c) == IF call[c].op = "moves" /\ ~Stocking(c) THEN Batches(c)[Len(Batches(c))].drop ELSE {}

\* A batch of new rows that has not been saved.
Minting(op, k) == (op = "moves" /\ k = "pantry") \/ (op = "adds" /\ k = "item")
Unposted(c, n) == ~(n = 1 /\ call[c].at = "commits")

----------------------------------------------------------------------------
\* The inductive invariant.

Typed == DOMAIN cloud = Kind /\ DOMAIN store = Kind /\ DOMAIN call = Caller
\* Each row of an item has an ingredient.
Telling ==
  /\ \A u \in DOMAIN cloud["item"] : "ing" \in DOMAIN cloud["item"][u]
  /\ \A u \in DOMAIN store["item"] : "ing" \in DOMAIN store["item"][u]
  /\ \A c \in Caller, n \in {1, 2} : BatchOf(c, n, "item") =>
       \A u \in DOMAIN Batches(c)[n].put : "ing" \in DOMAIN Batches(c)[n].put[u]
\* All say the same of an item.
OneName == \A u, i, j : Says(u, i) /\ Says(u, j) => i = j
\* The uids of new rows that are not saved yet are their call's alone.
Own(c) == \A n \in {1, 2}, k \in {"item", "pantry"} :
  BatchOf(c, n, k) /\ Minting(call[c].op, k) /\ Unposted(c, n) =>
    \A u \in DOMAIN Batches(c)[n].put : /\ u \notin DOMAIN cloud[k] /\ u \notin DOMAIN store[k]
                                        /\ \A d \in Caller \ {c} : ~Mentions(d, k, u)
\* A move stocks the ingredient of each item that it will take off.
Covers(c) == Stocking(c) => \A u, i : u \in Batches(c)[2].drop /\ Says(u, i) =>
               \E p \in DOMAIN Batches(c)[1].put : Batches(c)[1].put[p].ing = i
\* What is wanted is in the pantry, or on a list and not about to leave it.
Held(i) == \/ \E p \in DOMAIN cloud["pantry"] : cloud["pantry"][p].ing = i
           \/ \E u \in DOMAIN cloud["item"] : cloud["item"][u].ing = i /\ \A c \in Caller : u \notin Shed(c)
AllHeld == \A i \in wanted : Held(i)

Calls == \A c \in Caller : Shape(c) /\ Own(c) /\ Covers(c)
ShoppingInv == Typed /\ Telling /\ OneName /\ AllHeld /\ Calls

----------------------------------------------------------------------------
\* Lists of one and of two batches.

\* The head of a list of one batch is that batch.
LEMMA OneBatch == ASSUME NEW bs, One(bs) PROVE Len(bs) = 1 /\ Head(bs) = bs[1] /\ 1..Len(bs) = {1}
<1>1. PICK b : b = bs[1]
  OBVIOUS
<1>2. bs = <<b>>
  BY <1>1 DEF One
<1>3. Head(<<b>>) = b /\ Len(<<b>>) = 1 /\ 1..1 = {1}
  OBVIOUS
<1>4. QED
  BY <1>1, <1>2, <1>3

\* The head and the tail of a list of two batches.
LEMMA TwoBatches == ASSUME NEW bs, Two(bs)
                    PROVE /\ Len(bs) = 2 /\ Head(bs) = bs[1] /\ 1..Len(bs) = {1, 2}
                          /\ Tail(bs) = <<bs[2]>> /\ Tail(bs)[1] = bs[2] /\ One(Tail(bs))
<1>1. PICK b, d : b = bs[1] /\ d = bs[2]
  OBVIOUS
<1>2. bs = <<b, d>>
  BY <1>1 DEF Two
<1>3. Head(<<b, d>>) = b /\ Tail(<<b, d>>) = <<d>> /\ Len(<<b, d>>) = 2 /\ 1..2 = {1, 2} /\ Len(<<d>>) = 1 /\ <<d>>[1] = d
  OBVIOUS
<1>4. QED
  BY <1>1, <1>2, <1>3 DEF One

\* What a batch does to the rows it is applied to.
LEMMA AppliedRows ==
  ASSUME NEW rows, NEW b, DOMAIN rows = Kind, b.kind \in Kind
  PROVE /\ DOMAIN Applied(rows, b) = Kind
        /\ \A k \in Kind \ {b.kind} : Applied(rows, b)[k] = rows[k]
        /\ DOMAIN Applied(rows, b)[b.kind] = DOMAIN b.put \cup (DOMAIN rows[b.kind] \ b.drop)
        /\ \A u \in DOMAIN b.put : Applied(rows, b)[b.kind][u] = b.put[u]
        /\ \A u \in DOMAIN rows[b.kind] \ (b.drop \cup DOMAIN b.put) : Applied(rows, b)[b.kind][u] = rows[b.kind][u]
BY DEF Applied

----------------------------------------------------------------------------
\* Uids.

\* Each member of S gets a free uid of its own.
LEMMA MintedFree ==
  ASSUME NEW k, NEW S, Enough(k, S)
  PROVE /\ DOMAIN Minted(k, S) = S
        /\ \A x \in S : Minted(k, S)[x] \in Free(k)
        /\ \A x, y \in S : Minted(k, S)[x] = Minted(k, S)[y] => x = y
<1>1. Minted(k, S) \in Mints(k, S)
  BY DEF Enough, Minted
<1>2. QED
  BY <1>1 DEF Mints

\* A free uid is in no store and in no call's batches.
LEMMA FreeIsUnused ==
  ASSUME NEW k, NEW u \in Free(k)
  PROVE /\ u \notin DOMAIN cloud[k]
        /\ u \notin DOMAIN store[k]
        /\ \A c \in Caller : ~Mentions(c, k, u)
<1>1. u \in Slot[k] /\ u \notin DOMAIN cloud[k] /\ u \notin DOMAIN store[k] /\ u \notin Pending(k)
  BY DEF Free, Uids, Known
<1>2. \A c \in Caller : ~Mentions(c, k, u)
  BY <1>1 DEF Pending, Mentions, BatchOf, Batches
<1>3. QED
  BY <1>1, <1>2

----------------------------------------------------------------------------
\* A call starts.

\* What a tool may set out to save, as it reads the stores: the rows it stores have a free uid or the
\* uid of a stored one, which it leaves the ingredient of if it is an item; what it deletes is stored;
\* and a move stocks what it takes off.
Fits(op, at, bs) ==
  /\ Course(op, at, bs) /\ at # "commits"
  /\ op = "moves" => Move(op, bs)
  /\ \A n \in 1..Len(bs), k \in {"item", "pantry"} : bs[n].kind = k =>
       /\ bs[n].drop \subseteq DOMAIN store[k]
       /\ k = "item" => \A u \in DOMAIN bs[n].put : "ing" \in DOMAIN bs[n].put[u]
       /\ \A u \in DOMAIN bs[n].put :
            \/ u \in Free(k)
            \/ /\ ~Minting(op, k)
               /\ u \in DOMAIN store[k]
               /\ k = "item" => bs[n].put[u].ing = store["item"][u].ing
  /\ op = "moves" => \A u \in bs[2].drop :
       \E p \in DOMAIN bs[1].put : bs[1].put[p].ing = store["item"][u].ing

\* A call that fits starts: the invariant is kept.
LEMMA StartKeeps ==
  ASSUME ShoppingInv, NEW c \in Caller, NEW op, NEW at, NEW bs, Fits(op, at, bs),
         Start(c, op, at, bs), UNCHANGED wanted
  PROVE  ShoppingInv'
<1>1. /\ UNCHANGED <<cloud, store, wanted>> /\ call[c] = Idle /\ DOMAIN call' = Caller
      /\ \A d \in Caller \ {c} : call'[d] = call[d]
      /\ call'[c] = [op |-> op, at |-> at, batches |-> bs]
  BY DEF Start, ShoppingInv, Typed
<1>2. /\ Batches(c)' = bs /\ call'[c].op = op /\ call'[c].at = at
      /\ \A d \in Caller \ {c} : Batches(d)' = Batches(d)
      /\ Batches(c) = <<>> /\ call[c].op = "none"
  BY <1>1 DEF Batches, Idle
<1>3. Typed'
  BY <1>1 DEF ShoppingInv, Typed
<1>4. ASSUME NEW d \in Caller PROVE Shape(d)'
  <2>1. CASE d = c
    BY <1>1, <1>2, <2>1 DEF Fits, Shape
  <2>2. CASE d # c
    BY <1>1, <1>2, <2>2 DEF ShoppingInv, Calls, Shape, Idle
  <2>3. QED
    BY <2>1, <2>2
<1>5. ASSUME NEW u, NEW i, Says(u, i)', ~Says(u, i)
      PROVE  \E n \in 1..Len(bs) : bs[n].kind = "item" /\ u \in DOMAIN bs[n].put /\ bs[n].put[u].ing = i
  BY <1>1, <1>2, <1>5 DEF Says, BatchOf
<1>6. ASSUME NEW u, NEW i, Says(u, i)', ~Says(u, i) PROVE u \in Free("item")
  <2>1. PICK n \in 1..Len(bs) : bs[n].kind = "item" /\ u \in DOMAIN bs[n].put /\ bs[n].put[u].ing = i
    BY <1>5, <1>6
  <2>2. u \in Free("item") \/ (u \in DOMAIN store["item"] /\ bs[n].put[u].ing = store["item"][u].ing)
    BY <2>1 DEF Fits
  <2>3. QED
    BY <1>6, <2>1, <2>2 DEF Says
<1>7. OneName'
  <2>1. SUFFICES ASSUME NEW u, NEW i, NEW j, Says(u, i)', Says(u, j)' PROVE i = j
    BY DEF OneName
  <2>2. CASE u \in Free("item")
    <3>1. ~Says(u, i) /\ ~Says(u, j)
      BY <2>2, FreeIsUnused DEF Says, Mentions
    <3>2. PICK n \in 1..Len(bs) : bs[n].kind = "item" /\ u \in DOMAIN bs[n].put /\ bs[n].put[u].ing = i
      BY <1>5, <2>1, <3>1
    <3>3. PICK m \in 1..Len(bs) : bs[m].kind = "item" /\ u \in DOMAIN bs[m].put /\ bs[m].put[u].ing = j
      BY <1>5, <2>1, <3>1
    <3>4. n = m
      BY <3>2, <3>3, OneBatch, TwoBatches DEF Fits, Course, Edit, Addition, Taught, Move, Removal
    <3>5. QED
      BY <3>2, <3>3, <3>4
  <2>3. CASE u \notin Free("item")
    BY <1>6, <2>1, <2>3 DEF ShoppingInv, OneName
  <2>4. QED
    BY <2>2, <2>3
<1>8. ASSUME NEW d \in Caller, NEW u, u \in Shed(d)' PROVE u \in Shed(d)
  <2>1. CASE d = c
    <3>1. op = "moves" => Len(bs) = 2
      BY TwoBatches DEF Fits, Move
    <3>2. Shed(c)' = {}
      BY <1>2, <3>1 DEF Shed, Stocking, Fits
    <3>3. QED
      BY <1>8, <2>1, <3>2
  <2>2. CASE d # c
    BY <1>1, <1>2, <1>8, <2>2 DEF Shed, Stocking
  <2>3. QED
    BY <2>1, <2>2
<1>9. AllHeld'
  <2>1. SUFFICES ASSUME NEW i \in wanted PROVE Held(i)'
    BY <1>1 DEF AllHeld
  <2>2. Held(i)
    BY DEF ShoppingInv, AllHeld
  <2>3. QED
    BY <1>1, <1>8, <2>2 DEF Held
<1>10. ASSUME NEW k \in {"item", "pantry"}, NEW u, Mentions(c, k, u)'
       PROVE  u \in Free(k) \/ u \in DOMAIN store[k]
  BY <1>2, <1>10 DEF Mentions, BatchOf, Fits
<1>11. ASSUME NEW d \in Caller PROVE Own(d)'
  <2>1. SUFFICES ASSUME NEW n \in {1, 2}, NEW k \in {"item", "pantry"}, BatchOf(d, n, k)',
                        Minting(call'[d].op, k), Unposted(d, n)', NEW u \in (DOMAIN Batches(d)[n].put)'
                 PROVE  /\ u \notin DOMAIN cloud[k] /\ u \notin DOMAIN store[k]
                        /\ \A e \in Caller \ {d} : ~Mentions(e, k, u)'
    BY <1>1 DEF Own
  <2>2. CASE d = c
    <3>1. u \in Free(k)
      BY <1>2, <2>1, <2>2 DEF BatchOf, Fits
    <3>2. \A e \in Caller \ {c} : Mentions(e, k, u)' => Mentions(e, k, u)
      BY <1>1, <1>2 DEF Mentions, BatchOf
    <3>3. QED
      BY <2>2, <3>1, <3>2, FreeIsUnused
  <2>3. CASE d # c
    <3>1. BatchOf(d, n, k) /\ Minting(call[d].op, k) /\ Unposted(d, n) /\ u \in DOMAIN Batches(d)[n].put
      BY <1>1, <1>2, <2>1, <2>3 DEF BatchOf, Unposted
    <3>2. u \notin DOMAIN cloud[k] /\ u \notin DOMAIN store[k] /\ \A e \in Caller \ {d} : ~Mentions(e, k, u)
      BY <3>1 DEF ShoppingInv, Calls, Own
    <3>3. Mentions(d, k, u)
      BY <3>1 DEF Mentions
    <3>4. ~Mentions(c, k, u)'
      BY <1>10, <3>2, <3>3, FreeIsUnused
    <3>5. ASSUME NEW e \in Caller \ {d}, e # c PROVE ~Mentions(e, k, u)'
      BY <1>1, <1>2, <3>2, <3>5 DEF Mentions, BatchOf
    <3>6. QED
      BY <3>2, <3>4, <3>5
  <2>4. QED
    BY <2>2, <2>3
<1>12. ASSUME NEW d \in Caller PROVE Covers(d)'
  <2>1. SUFFICES ASSUME Stocking(d)', NEW u, NEW i, u \in Batches(d)[2].drop', Says(u, i)'
                 PROVE  \E p \in DOMAIN Batches(d)[1].put' : Batches(d)[1].put[p].ing' = i
    BY DEF Covers
  <2>2. CASE d = c
    <3>1. op = "moves" /\ u \in bs[2].drop
      BY <1>2, <2>1, <2>2 DEF Stocking
    <3>2. Move(op, bs) /\ 1..Len(bs) = {1, 2} /\ bs[1].kind = "pantry" /\ bs[2].kind = "item" /\ DOMAIN bs[2].put = {}
      BY <3>1, TwoBatches DEF Fits, Move
    <3>3. u \in DOMAIN store["item"]
      BY <3>1, <3>2 DEF Fits
    <3>4. Says(u, i)
      BY <1>5, <2>1, <3>2
    <3>5. Says(u, store["item"][u].ing)
      BY <3>3 DEF Says
    <3>6. i = store["item"][u].ing
      BY <3>4, <3>5 DEF ShoppingInv, OneName
    <3>7. QED
      BY <1>2, <2>2, <3>1, <3>6 DEF Fits
  <2>3. CASE d # c
    <3>1. Stocking(d) /\ u \in Batches(d)[2].drop /\ Batches(d)' = Batches(d)
      BY <1>1, <1>2, <2>1, <2>3 DEF Stocking
    <3>2. Move(call[d].op, Batches(d))
      <4>1. call[d] # Idle /\ call[d].op = "moves" /\ Len(Batches(d)) = 2
        BY <3>1 DEF Stocking, Idle
      <4>2. Course(call[d].op, call[d].at, Batches(d))
        BY <4>1 DEF ShoppingInv, Calls, Shape
      <4>3. QED
        BY <4>1, <4>2 DEF Course, Edit, Addition, Taught, Removal, One
    <3>3. Mentions(d, "item", u)
      BY <3>1, <3>2, TwoBatches DEF Mentions, BatchOf, Move
    <3>4. u \notin Free("item")
      BY <3>3, FreeIsUnused
    <3>5. Says(u, i)
      BY <1>6, <2>1, <3>4
    <3>6. \E p \in DOMAIN Batches(d)[1].put : Batches(d)[1].put[p].ing = i
      BY <3>1, <3>5 DEF ShoppingInv, Calls, Covers
    <3>7. QED
      BY <3>1, <3>6
  <2>4. QED
    BY <2>2, <2>3
<1>13. Telling'
  <2>1. ASSUME NEW d \in Caller, NEW n \in {1, 2}, BatchOf(d, n, "item")', NEW u \in (DOMAIN Batches(d)[n].put)'
        PROVE  "ing" \in DOMAIN Batches(d)'[n].put[u]
    BY <1>1, <1>2, <2>1 DEF BatchOf, Fits, ShoppingInv, Telling
  <2>2. QED
    BY <1>1, <2>1 DEF ShoppingInv, Telling
<1>14. QED
  BY <1>3, <1>4, <1>7, <1>9, <1>11, <1>12, <1>13 DEF ShoppingInv, Calls

----------------------------------------------------------------------------
\* A call goes on.

\* A call that is under way is in one of the courses.
LEMMA UnderWay ==
  ASSUME ShoppingInv, NEW c \in Caller, call[c] # Idle
  PROVE  /\ call[c] = [op |-> call[c].op, at |-> call[c].at, batches |-> Batches(c)]
         /\ Course(call[c].op, call[c].at, Batches(c))
BY DEF ShoppingInv, Calls, Shape

\* A move that still has to stock is a move of two batches.
LEMMA StockingIsMove ==
  ASSUME ShoppingInv, NEW c \in Caller, Stocking(c)
  PROVE  Move(call[c].op, Batches(c)) /\ call[c] # Idle
<1>1. call[c] # Idle
  BY DEF Stocking, Idle
<1>2. Course(call[c].op, call[c].at, Batches(c))
  BY <1>1, UnderWay
<1>3. call[c].op = "moves" /\ Len(Batches(c)) = 2
  BY DEF Stocking
<1>4. QED
  BY <1>1, <1>2, <1>3 DEF Course, Edit, Addition, Taught, Removal, One

\* What Paprika, the store and the calls hold of an item tells of it.
LEMMA AllTell ==
  ASSUME ShoppingInv
  PROVE  /\ \A u \in DOMAIN cloud["item"] : Tells(u, cloud["item"][u])
         /\ \A u \in DOMAIN store["item"] : Tells(u, store["item"][u])
         /\ \A c \in Caller, n \in {1, 2} : BatchOf(c, n, "item") =>
              \A u \in DOMAIN Batches(c)[n].put : Tells(u, Batches(c)[n].put[u])
BY DEF ShoppingInv, Telling, Tells, Says

\* The steps of a call: it ends, or is let through, or is saved, or has its next batch before it.
Onward(c) ==
  \/ call'[c] = Idle
  \/ call[c].at = "asks" /\ call'[c] = [call[c] EXCEPT !.at = "saves"]
  \/ call[c].at = "saves" /\ call'[c] = [call[c] EXCEPT !.at = "commits"]
  \/ /\ call[c].at = "commits" /\ Len(Batches(c)) = 2
     /\ call'[c] = [call[c] EXCEPT !.at = "saves", !.batches = Tail(Batches(c))]
\* A uid of c's first batch, once it is saved.
Posted(c, k, u) == /\ BatchOf(c, 1, k) /\ u \in DOMAIN Batches(c)[1].put
                   /\ (call[c].at = "saves" /\ call'[c].at # "saves") \/ call[c].at = "commits"

\* What c's call is after a step.
LEMMA OnwardCourse ==
  ASSUME ShoppingInv, NEW c \in Caller, call[c] # Idle, Onward(c)
  PROVE  /\ Shape(c)'
         /\ \/ Batches(c)' = <<>> /\ call'[c].op = "none"
            \/ Batches(c)' = Batches(c) /\ call'[c].op = call[c].op
               /\ \/ call[c].at = "asks" /\ call'[c].at = "saves"
                  \/ call[c].at = "saves" /\ call'[c].at = "commits"
            \/ /\ Two(Batches(c)) /\ Batches(c)' = Tail(Batches(c)) /\ call'[c].op = call[c].op
               /\ call[c].at = "commits" /\ call'[c].at = "saves"
               /\ Taught(call[c].op, Batches(c)) \/ Move(call[c].op, Batches(c))
<1>1. /\ call[c] = [op |-> call[c].op, at |-> call[c].at, batches |-> Batches(c)]
      /\ Course(call[c].op, call[c].at, Batches(c))
  BY UnderWay
<1>2. CASE call'[c] = Idle
  BY <1>2 DEF Idle, Batches, Shape
<1>3. CASE call[c].at = "asks" /\ call'[c] = [call[c] EXCEPT !.at = "saves"]
  <2>1. call'[c] = [op |-> call[c].op, at |-> "saves", batches |-> Batches(c)]
    BY <1>1, <1>3
  <2>2. QED
    BY <1>1, <1>3, <2>1 DEF Batches, Shape, Course, Removal
<1>4. CASE call[c].at = "saves" /\ call'[c] = [call[c] EXCEPT !.at = "commits"]
  <2>1. call'[c] = [op |-> call[c].op, at |-> "commits", batches |-> Batches(c)]
    BY <1>1, <1>4
  <2>2. QED
    BY <1>1, <1>4, <2>1 DEF Batches, Shape, Course, Removal
<1>5. CASE /\ call[c].at = "commits" /\ Len(Batches(c)) = 2
           /\ call'[c] = [call[c] EXCEPT !.at = "saves", !.batches = Tail(Batches(c))]
  <2>1. call'[c] = [op |-> call[c].op, at |-> "saves", batches |-> Tail(Batches(c))]
    BY <1>1, <1>5
  <2>2. Batches(c)' = Tail(Batches(c)) /\ call'[c].op = call[c].op /\ call'[c].at = "saves"
    BY <2>1 DEF Batches
  <2>3. Taught(call[c].op, Batches(c)) \/ Move(call[c].op, Batches(c))
    BY <1>1, <1>5 DEF Course, Edit, Addition, Removal, One
  <2>4. Two(Batches(c))
    BY <2>3 DEF Taught, Move
  <2>5. One(Tail(Batches(c))) /\ Tail(Batches(c))[1] = Batches(c)[2]
    BY <2>4, TwoBatches
  <2>6. Course(call[c].op, "saves", Tail(Batches(c)))
    BY <2>3, <2>5 DEF Course, Taught, Move, Addition, Removal
  <2>7. QED
    BY <1>5, <2>1, <2>2, <2>3, <2>4, <2>6 DEF Shape
<1>6. QED
  BY <1>2, <1>3, <1>4, <1>5 DEF Onward

\* A step of c's call that stores no uid but of the batch it saves, and says nothing new of an item,
\* keeps the invariant but for what is wanted.
LEMMA OnwardKeeps ==
  ASSUME ShoppingInv, NEW c \in Caller, call[c] # Idle, Onward(c),
         DOMAIN cloud' = Kind, DOMAIN store' = Kind, DOMAIN call' = Caller,
         \A d \in Caller \ {c} : call'[d] = call[d],
         \A k \in {"item", "pantry"} : \A u \in DOMAIN cloud'[k] \cup DOMAIN store'[k] :
           u \in DOMAIN cloud[k] \cup DOMAIN store[k] \/ Posted(c, k, u),
         \A u \in DOMAIN cloud'["item"] : Tells(u, cloud'["item"][u]),
         \A u \in DOMAIN store'["item"] : Tells(u, store'["item"][u])
  PROVE  Typed' /\ Telling' /\ OneName' /\ Calls'
<1>1. /\ \A d \in Caller \ {c} : Batches(d)' = Batches(d)
      /\ \/ Batches(c)' = <<>> /\ call'[c].op = "none"
         \/ Batches(c)' = Batches(c) /\ call'[c].op = call[c].op
            /\ \/ call[c].at = "asks" /\ call'[c].at = "saves"
               \/ call[c].at = "saves" /\ call'[c].at = "commits"
         \/ /\ Two(Batches(c)) /\ Batches(c)' = Tail(Batches(c)) /\ call'[c].op = call[c].op
            /\ call[c].at = "commits" /\ call'[c].at = "saves"
            /\ Taught(call[c].op, Batches(c)) \/ Move(call[c].op, Batches(c))
  BY OnwardCourse DEF Batches
<1>2. Typed'
  BY DEF Typed
<1>3. ASSUME NEW d \in Caller PROVE Shape(d)'
  <2>1. CASE d = c
    BY <2>1, OnwardCourse
  <2>2. CASE d # c
    BY <1>1, <2>2 DEF ShoppingInv, Calls, Shape, Idle
  <2>3. QED
    BY <2>1, <2>2
<1>4. ASSUME NEW d \in Caller, NEW n \in {1, 2}, NEW k, BatchOf(d, n, k)'
      PROVE  \E m \in {1, 2} : BatchOf(d, m, k) /\ Batches(d)[m] = Batches(d)'[n]
  <2>1. CASE d # c
    BY <1>1, <1>4, <2>1 DEF BatchOf
  <2>2. CASE d = c /\ Batches(c)' = <<>>
    BY <1>4, <2>2 DEF BatchOf
  <2>3. CASE d = c /\ Batches(c)' = Batches(c)
    BY <1>4, <2>3 DEF BatchOf
  <2>4. CASE d = c /\ Two(Batches(c)) /\ Batches(c)' = Tail(Batches(c))
    <3>1. n \in 1..Len(Tail(Batches(c))) /\ Tail(Batches(c))[n].kind = k
      BY <1>4, <2>4 DEF BatchOf
    <3>2. n = 1
      BY <2>4, <3>1, TwoBatches, OneBatch
    <3>3. BatchOf(c, 2, k) /\ Batches(c)[2] = Batches(c)'[1]
      BY <2>4, <3>1, <3>2, TwoBatches DEF BatchOf
    <3>4. QED
      BY <2>4, <3>2, <3>3
  <2>5. QED
    BY <1>1, <2>1, <2>2, <2>3, <2>4
<1>5. ASSUME NEW d \in Caller, NEW k, NEW u, Mentions(d, k, u)' PROVE Mentions(d, k, u)
  BY <1>4, <1>5 DEF Mentions
<1>6. ASSUME NEW u, NEW i, Says(u, i)' PROVE Says(u, i)
  <2>1. CASE \E d \in Caller, n \in {1, 2} :
               BatchOf(d, n, "item")' /\ u \in DOMAIN Batches(d)'[n].put /\ Batches(d)'[n].put[u].ing = i
    BY <1>4, <2>1 DEF Says
  <2>2. CASE u \in DOMAIN cloud'["item"] /\ cloud'["item"][u].ing = i
    BY <2>2 DEF Tells
  <2>3. CASE u \in DOMAIN store'["item"] /\ store'["item"][u].ing = i
    BY <2>3 DEF Tells
  <2>4. QED
    BY <1>6, <2>1, <2>2, <2>3 DEF Says
<1>7. OneName'
  BY <1>6 DEF ShoppingInv, OneName
<1>8. ASSUME NEW d \in Caller PROVE Own(d)'
  <2>1. SUFFICES ASSUME NEW n \in {1, 2}, NEW k \in {"item", "pantry"}, BatchOf(d, n, k)',
                        Minting(call'[d].op, k), Unposted(d, n)', NEW u \in (DOMAIN Batches(d)[n].put)'
                 PROVE  /\ u \notin DOMAIN cloud'[k] /\ u \notin DOMAIN store'[k]
                        /\ \A e \in Caller \ {d} : ~Mentions(e, k, u)'
    BY DEF Own
  <2>2. \E m \in {1, 2} : /\ BatchOf(d, m, k) /\ Minting(call[d].op, k) /\ Unposted(d, m)
                                       /\ u \in DOMAIN Batches(d)[m].put /\ ~Posted(c, k, u)
    <3>2. CASE d # c
      <4>1. BatchOf(d, n, k) /\ Minting(call[d].op, k) /\ Unposted(d, n) /\ u \in DOMAIN Batches(d)[n].put
        BY <1>1, <2>1, <3>2 DEF BatchOf, Unposted
      <4>2. ~Mentions(c, k, u)
        BY <3>2, <4>1 DEF ShoppingInv, Calls, Own
      <4>3. ~Posted(c, k, u)
        BY <4>2 DEF Posted, Mentions
      <4>4. QED
        BY <4>1, <4>3
    <3>3. CASE d = c /\ Batches(c)' = <<>> /\ call'[c].op = "none"
      BY <2>1, <3>3 DEF BatchOf
    <3>4. CASE d = c /\ Batches(c)' = Batches(c) /\ call'[c].op = call[c].op /\ call[c].at = "asks" /\ call'[c].at = "saves"
      BY <2>1, <3>4 DEF BatchOf, Unposted, Posted
    <3>5. CASE /\ d = c /\ Batches(c)' = Batches(c) /\ call'[c].op = call[c].op
               /\ call[c].at = "saves" /\ call'[c].at = "commits"
      <4>1. BatchOf(c, 2, k) /\ Minting(call[c].op, k) /\ Unposted(c, 2) /\ u \in DOMAIN Batches(c)[2].put /\ n = 2
        BY <2>1, <3>5 DEF BatchOf, Unposted
      <4>2. Course(call[c].op, call[c].at, Batches(c))
        BY UnderWay
      <4>3. Batches(c)[1].kind # k
        BY <4>1, <4>2, OneBatch DEF Course, Edit, Addition, Taught, Move, Removal, Minting, BatchOf
      <4>4. QED
        BY <3>5, <4>1, <4>3 DEF Posted, BatchOf
    <3>6. CASE /\ d = c /\ Two(Batches(c)) /\ Batches(c)' = Tail(Batches(c)) /\ call'[c].op = call[c].op
               /\ call[c].at = "commits" /\ call'[c].at = "saves"
               /\ Taught(call[c].op, Batches(c)) \/ Move(call[c].op, Batches(c))
      <4>1. n \in 1..Len(Tail(Batches(c))) /\ Tail(Batches(c))[n].kind = k
        BY <2>1, <3>6 DEF BatchOf
      <4>2. n = 1
        BY <3>6, <4>1, TwoBatches, OneBatch
      <4>3. BatchOf(c, 2, k) /\ Batches(c)[2] = Batches(c)'[1]
        BY <3>6, <4>1, <4>2, TwoBatches DEF BatchOf
      <4>4. Minting(call[c].op, k) /\ Unposted(c, 2) /\ u \in DOMAIN Batches(c)[2].put
        <5>1. u \in DOMAIN Batches(d)'[n].put
          BY <2>1
        <5>2. u \in DOMAIN Batches(c)'[1].put
          BY <3>6, <4>2, <5>1
        <5>3. u \in DOMAIN Batches(c)[2].put
          BY <4>3, <5>2
        <5>4. Minting(call[c].op, k)
          BY <2>1, <3>6
        <5>5. QED
          BY <5>3, <5>4 DEF Unposted
      <4>5. Batches(c)[1].kind # k
        BY <3>6, <4>3, <4>4 DEF Taught, Move, Minting, BatchOf
      <4>6. QED
        BY <3>6, <4>3, <4>4, <4>5 DEF Posted, BatchOf
    <3>7. QED
      BY <1>1, <3>2, <3>3, <3>4, <3>5, <3>6
  <2>3. PICK m \in {1, 2} : /\ BatchOf(d, m, k) /\ Minting(call[d].op, k) /\ Unposted(d, m)
                           /\ u \in DOMAIN Batches(d)[m].put /\ ~Posted(c, k, u)
    BY <2>2
  <2>4. u \notin DOMAIN cloud[k] /\ u \notin DOMAIN store[k] /\ \A e \in Caller \ {d} : ~Mentions(e, k, u)
    BY <2>3 DEF ShoppingInv, Calls, Own
  <2>5. QED
    BY <1>5, <2>3, <2>4
<1>9. ASSUME NEW d \in Caller PROVE Covers(d)'
  <2>1. SUFFICES ASSUME Stocking(d)' PROVE Stocking(d) /\ Batches(d)' = Batches(d)
    BY <1>6 DEF Covers, ShoppingInv, Calls
  <2>2. CASE d # c
    BY <1>1, <2>1, <2>2 DEF Stocking
  <2>3. CASE d = c /\ Batches(c)' = Tail(Batches(c)) /\ Two(Batches(c))
    <3>1. Len(Tail(Batches(c))) = 1
      BY <2>3, TwoBatches, OneBatch
    <3>2. PICK bs : bs = Batches(c)'
      OBVIOUS
    <3>3. Len(bs) = 2
      BY <2>1, <2>3, <3>2 DEF Stocking
    <3>4. Len(bs) = 1
      BY <2>3, <3>1, <3>2
    <3>5. QED
      BY <3>3, <3>4
  <2>4. CASE /\ d = c /\ Batches(c)' = Batches(c) /\ call'[c].op = call[c].op
             /\ call[c].at = "asks" /\ call'[c].at = "saves"
    BY <2>1, <2>4 DEF Stocking
  <2>5. CASE d = c /\ (call'[c].op = "none" \/ call'[c].at = "commits")
    BY <2>1, <2>5 DEF Stocking
  <2>6. QED
    BY <1>1, <2>2, <2>3, <2>4, <2>5
<1>10. Telling'
  <2>1. ASSUME NEW d \in Caller, NEW n \in {1, 2}, BatchOf(d, n, "item")', NEW u \in (DOMAIN Batches(d)[n].put)'
        PROVE  "ing" \in DOMAIN Batches(d)'[n].put[u]
    BY <1>4, <2>1 DEF ShoppingInv, Telling
  <2>2. QED
    BY <2>1 DEF Telling, Tells
<1>11. QED
  BY <1>2, <1>3, <1>7, <1>8, <1>9, <1>10 DEF Calls

\* The first batch of a call.
LEMMA FirstBatch ==
  ASSUME ShoppingInv, NEW c \in Caller, call[c] # Idle
  PROVE  /\ Head(Batches(c)) = Batches(c)[1] /\ Batches(c)[1].kind \in Kind
         /\ BatchOf(c, 1, Batches(c)[1].kind)
         /\ DOMAIN Batches(c)[1].put = {} \/ Batches(c)[1].drop = {}
         /\ Len(Batches(c)) \in {1, 2}
<1>1. Course(call[c].op, call[c].at, Batches(c))
  BY UnderWay
<1>2. \A k \in {"item", "pantry", "memory"} : k \in Kind
  BY DEF Kind
<1>3. One(Batches(c)) \/ Two(Batches(c))
  BY <1>1 DEF Course, Edit, Addition, Taught, Move, Removal
<1>4. Head(Batches(c)) = Batches(c)[1] /\ 1 \in 1..Len(Batches(c)) /\ Len(Batches(c)) \in {1, 2}
  BY <1>3, OneBatch, TwoBatches
<1>5. Batches(c)[1].kind \in Kind
  BY <1>1, <1>2 DEF Course, Edit, Addition, Taught, Move, Removal
<1>6. DOMAIN Batches(c)[1].put = {} \/ Batches(c)[1].drop = {}
  BY <1>1 DEF Course, Edit, Addition, Taught, Move, Removal
<1>7. QED
  BY <1>4, <1>5, <1>6 DEF BatchOf

\* What a move is about to take off, its batches name.
LEMMA ShedIsMentioned ==
  ASSUME ShoppingInv, NEW c \in Caller, NEW u \in Shed(c)
  PROVE  Mentions(c, "item", u)
<1>1. call[c].op = "moves" /\ u \in Batches(c)[Len(Batches(c))].drop
  BY DEF Shed
<1>2. call[c] # Idle
  BY <1>1 DEF Idle
<1>3. Move(call[c].op, Batches(c)) \/ Removal(call[c].op, call[c].at, Batches(c))
  BY <1>1, <1>2, UnderWay DEF Course, Edit, Addition, Taught
<1>4. CASE Move(call[c].op, Batches(c))
  BY <1>1, <1>4, TwoBatches DEF Move, Mentions, BatchOf
<1>5. CASE Removal(call[c].op, call[c].at, Batches(c))
  BY <1>1, <1>5, OneBatch DEF Removal, Mentions, BatchOf
<1>6. QED
  BY <1>3, <1>4, <1>5

\* A call takes off more items only once its move has stocked.
LEMMA OnwardShed ==
  ASSUME ShoppingInv, NEW c \in Caller, call[c] # Idle, Onward(c),
         \A d \in Caller \ {c} : call'[d] = call[d],
         ~Stocking(c) \/ call'[c].at # "commits",
         NEW d \in Caller, NEW u, u \in Shed(d)'
  PROVE  u \in Shed(d)
<1>1. CASE d # c
  BY <1>1 DEF Shed, Stocking, Batches
<1>2. CASE d = c
  <2>1. \/ Batches(c)' = <<>> /\ call'[c].op = "none"
        \/ Batches(c)' = Batches(c) /\ call'[c].op = call[c].op
           /\ \/ call[c].at = "asks" /\ call'[c].at = "saves"
              \/ call[c].at = "saves" /\ call'[c].at = "commits"
        \/ /\ Two(Batches(c)) /\ Batches(c)' = Tail(Batches(c)) /\ call'[c].op = call[c].op
           /\ call[c].at = "commits" /\ call'[c].at = "saves"
           /\ Taught(call[c].op, Batches(c)) \/ Move(call[c].op, Batches(c))
    BY OnwardCourse
  <2>2. /\ call'[c].op = "moves" /\ u \in Batches(c)'[Len(Batches(c)')].drop
        /\ ~(Len(Batches(c)') = 2 /\ call'[c].at # "commits")
    BY <1>2 DEF Shed, Stocking
  <2>3. CASE Batches(c)' = Batches(c) /\ call'[c].op = call[c].op
    BY <1>2, <2>1, <2>2, <2>3 DEF Shed, Stocking
  <2>4. CASE /\ Two(Batches(c)) /\ Batches(c)' = Tail(Batches(c)) /\ call'[c].op = call[c].op
             /\ call[c].at = "commits"
    <3>1. Len(Tail(Batches(c))) = 1 /\ Tail(Batches(c))[1] = Batches(c)[2] /\ Len(Batches(c)) = 2
      BY <2>4, TwoBatches, OneBatch
    <3>2. u \in Batches(c)[2].drop
      BY <2>2, <2>4, <3>1
    <3>3. QED
      BY <1>2, <2>2, <2>4, <3>1, <3>2 DEF Shed, Stocking
  <2>5. QED
    BY <2>1, <2>2, <2>3, <2>4
<1>3. QED
  BY <1>1, <1>2

\* What is held stays so while Paprika's rows stand and no move takes off more.
LEMMA StandingKept ==
  ASSUME ShoppingInv, UNCHANGED <<cloud, wanted>>,
         \A d \in Caller : \A u : u \in Shed(d)' => u \in Shed(d)
  PROVE  AllHeld'
BY DEF ShoppingInv, AllHeld, Held

\* The user confirms or picks.
LEMMA ProceedsKeeps == ASSUME ShoppingInv, NEW c \in Caller, Proceeds(c), UNCHANGED wanted PROVE ShoppingInv'
<1>1. /\ call[c] # Idle /\ call[c].at = "asks" /\ call'[c] = [call[c] EXCEPT !.at = "saves"]
      /\ DOMAIN call' = Caller /\ \A d \in Caller \ {c} : call'[d] = call[d]
      /\ UNCHANGED <<cloud, store, wanted>>
  BY DEF Proceeds, Idle, ShoppingInv, Typed
<1>2. Onward(c) /\ call'[c].at # "commits"
  <2>1. call[c] = [op |-> call[c].op, at |-> call[c].at, batches |-> Batches(c)]
    BY <1>1, UnderWay
  <2>2. call'[c] = [op |-> call[c].op, at |-> "saves", batches |-> Batches(c)]
    BY <1>1, <2>1
  <2>3. QED
    BY <1>1, <2>2 DEF Onward
<1>3. Typed' /\ Telling' /\ OneName' /\ Calls'
  BY <1>1, <1>2, AllTell, OnwardKeeps DEF ShoppingInv, Typed
<1>4. \A d \in Caller : \A u : u \in Shed(d)' => u \in Shed(d)
  BY <1>1, <1>2, OnwardShed
<1>5. QED
  BY <1>1, <1>3, <1>4, StandingKept DEF ShoppingInv

\* The user does not confirm.
LEMMA StopsKeeps == ASSUME ShoppingInv, NEW c \in Caller, Stops(c), UNCHANGED wanted PROVE ShoppingInv'
<1>1. /\ call[c] # Idle /\ call'[c] = Idle
      /\ DOMAIN call' = Caller /\ \A d \in Caller \ {c} : call'[d] = call[d]
      /\ UNCHANGED <<cloud, store, wanted>>
  BY DEF Stops, Idle, ShoppingInv, Typed
<1>2. Onward(c) /\ call'[c].at # "commits"
  BY <1>1 DEF Onward, Idle
<1>3. Typed' /\ Telling' /\ OneName' /\ Calls'
  BY <1>1, <1>2, AllTell, OnwardKeeps DEF ShoppingInv, Typed
<1>4. \A d \in Caller : \A u : u \in Shed(d)' => u \in Shed(d)
  BY <1>1, <1>2, OnwardShed
<1>5. QED
  BY <1>1, <1>3, <1>4, StandingKept DEF ShoppingInv

\* The batch is committed, or the call ends without it.
LEMMA CommitsKeeps == ASSUME ShoppingInv, NEW c \in Caller, Commits(c), UNCHANGED wanted PROVE ShoppingInv'
<1>1. /\ call[c] # Idle /\ call[c].at = "commits"
      /\ DOMAIN call' = Caller /\ \A d \in Caller \ {c} : call'[d] = call[d]
      /\ UNCHANGED <<cloud, wanted>>
      /\ store' = store \/ store' = Applied(store, Head(Batches(c)))
  BY DEF Commits, GoesOn, Idle, GivesUp, ShoppingInv, Typed, Batches
<1>2. Head(Batches(c)) = Batches(c)[1] /\ Batches(c)[1].kind \in Kind /\ Len(Batches(c)) \in {1, 2}
      /\ BatchOf(c, 1, Batches(c)[1].kind)
  BY <1>1, FirstBatch
<1>3. Onward(c) /\ call'[c].at # "commits"
  <2>1. CASE call' = [call EXCEPT ![c] = Idle]
    <3>1. call'[c] = Idle
      BY <2>1 DEF ShoppingInv, Typed
    <3>2. QED
      BY <3>1 DEF Onward, Idle
  <2>2. CASE call' = [call EXCEPT ![c] = IF Len(call[c].batches) = 1 THEN Idle
                                        ELSE [call[c] EXCEPT !.at = "saves", !.batches = Tail(@)]]
    <3>1. call[c] = [op |-> call[c].op, at |-> call[c].at, batches |-> Batches(c)]
      BY <1>1, UnderWay
    <3>2. call'[c] = IF Len(call[c].batches) = 1 THEN Idle
                     ELSE [call[c] EXCEPT !.at = "saves", !.batches = Tail(call[c].batches)]
      BY <2>2 DEF ShoppingInv, Typed
    <3>3. CASE Len(Batches(c)) = 1
      BY <3>2, <3>3 DEF Onward, Batches, Idle
    <3>4. CASE Len(Batches(c)) = 2
      <4>1. call'[c] = [call[c] EXCEPT !.at = "saves", !.batches = Tail(Batches(c))]
        BY <3>2, <3>4 DEF Batches
      <4>2. call'[c] = [op |-> call[c].op, at |-> "saves", batches |-> Tail(Batches(c))]
        BY <3>1, <4>1
      <4>3. QED
        BY <1>1, <3>4, <4>1, <4>2 DEF Onward
    <3>5. QED
      BY <1>2, <3>3, <3>4
  <2>3. QED
    BY <2>1, <2>2 DEF Commits, GoesOn, GivesUp
<1>4. /\ DOMAIN store' = Kind
      /\ \A k \in {"item", "pantry"} : \A u \in DOMAIN store'[k] : u \in DOMAIN store[k] \/ Posted(c, k, u)
      /\ \A u \in DOMAIN store'["item"] : Tells(u, store'["item"][u])
  <2>1. CASE store' = store
    BY <2>1, AllTell DEF ShoppingInv, Typed
  <2>2. CASE store' = Applied(store, Batches(c)[1])
    <3>1. PICK b, k : b = Batches(c)[1] /\ k = b.kind
      OBVIOUS
    <3>2. {"item", "pantry"} \subseteq Kind
      BY DEF Kind
    <3>3. /\ DOMAIN store' = Kind
          /\ \A j \in Kind \ {k} : store'[j] = store[j]
          /\ DOMAIN store'[k] = DOMAIN b.put \cup (DOMAIN store[k] \ b.drop)
          /\ \A u \in DOMAIN b.put : store'[k][u] = b.put[u]
          /\ \A u \in DOMAIN store[k] \ (b.drop \cup DOMAIN b.put) : store'[k][u] = store[k][u]
      BY <1>2, <2>2, <3>1, AppliedRows DEF ShoppingInv, Typed
    <3>4. \A u \in DOMAIN b.put : Posted(c, k, u)
      BY <1>1, <1>2, <3>1 DEF Posted
    <3>5. ASSUME k = "item", NEW u \in DOMAIN b.put PROVE Tells(u, b.put[u])
      BY <1>2, <3>1, <3>5, AllTell
    <3>6. \A u \in DOMAIN store["item"] : Tells(u, store["item"][u])
      BY AllTell
    <3>7. QED
      BY <3>2, <3>3, <3>4, <3>5, <3>6
  <2>3. QED
    BY <1>1, <1>2, <2>1, <2>2
<1>5. DOMAIN cloud' = Kind /\ \A u \in DOMAIN cloud'["item"] : Tells(u, cloud'["item"][u])
  BY <1>1, AllTell DEF ShoppingInv, Typed
<1>6. Typed' /\ Telling' /\ OneName' /\ Calls'
  BY <1>1, <1>3, <1>4, <1>5, OnwardKeeps
<1>7. \A d \in Caller : \A u : u \in Shed(d)' => u \in Shed(d)
  BY <1>1, <1>3, OnwardShed
<1>8. QED
  BY <1>1, <1>6, <1>7, StandingKept DEF ShoppingInv

----------------------------------------------------------------------------
\* A batch reaches Paprika.

\* What an edit or another device's change leaves of what is wanted is held: a row it does not touch
\* stays, an item it stores again keeps its ingredient, and what it adds is there.
LEMMA TrackedKept ==
  ASSUME ShoppingInv, NEW b, NEW op, op # "moves", b.kind \in Kind,
         cloud' = Applied(cloud, b), Tracks(b, op),
         \A d \in Caller : \A u : u \in Shed(d)' => u \in Shed(d),
         DOMAIN b.put = {} \/ b.drop = {},
         b.kind = "item" => \A u \in DOMAIN b.put : Says(u, b.put[u].ing),
         b.kind = "item" /\ op = "adds" => \A u \in DOMAIN b.put, d \in Caller : u \notin Shed(d)
  PROVE  AllHeld'
<1>1. /\ \A k \in Kind \ {b.kind} : cloud'[k] = cloud[k]
      /\ DOMAIN cloud'[b.kind] = DOMAIN b.put \cup (DOMAIN cloud[b.kind] \ b.drop)
      /\ \A u \in DOMAIN b.put : cloud'[b.kind][u] = b.put[u]
      /\ \A u \in DOMAIN cloud[b.kind] \ (b.drop \cup DOMAIN b.put) : cloud'[b.kind][u] = cloud[b.kind][u]
  BY AppliedRows DEF ShoppingInv, Typed
<1>2. {"item", "pantry"} \subseteq Kind
  BY DEF Kind
<1>3. wanted' = (wanted \ (Touched(cloud, b) \ Touched(cloud', b))) \cup (IF op = "adds" THEN Touched(cloud', b) ELSE {})
  BY DEF Tracks
<1>4. SUFFICES ASSUME NEW i \in wanted' PROVE Held(i)'
  BY DEF AllHeld
<1>5. CASE b.kind \notin {"item", "pantry"}
  <2>1. Touched(cloud, b) = {} /\ Touched(cloud', b) = {}
    BY <1>5 DEF Touched
  <2>2. i \in wanted
    BY <1>3, <2>1
  <2>3. Held(i)
    BY <2>2 DEF ShoppingInv, AllHeld
  <2>4. cloud'["item"] = cloud["item"] /\ cloud'["pantry"] = cloud["pantry"]
    BY <1>1, <1>2, <1>5
  <2>5. QED
    BY <2>3, <2>4 DEF Held
<1>6. CASE b.kind \in {"item", "pantry"}
  <2>1. \A rows : Touched(rows, b) = {rows[b.kind][u].ing : u \in (b.drop \cup DOMAIN b.put) \cap DOMAIN rows[b.kind]}
    BY <1>6 DEF Touched
  <2>2. ASSUME i \in Touched(cloud', b) PROVE \E u \in DOMAIN b.put : b.put[u].ing = i
    <3>1. PICK u \in (b.drop \cup DOMAIN b.put) \cap DOMAIN cloud'[b.kind] : cloud'[b.kind][u].ing = i
      BY <2>1, <2>2
    <3>2. u \in DOMAIN b.put
      BY <1>1, <3>1
    <3>3. QED
      BY <1>1, <3>1, <3>2
  <2>3. ASSUME b.kind = "pantry", i \in Touched(cloud', b) PROVE Held(i)'
    BY <1>1, <2>2, <2>3 DEF Held
  <2>4. ASSUME b.kind = "item", op = "adds", i \in Touched(cloud', b) PROVE Held(i)'
    <3>1. PICK u \in DOMAIN b.put : b.put[u].ing = i
      BY <2>2, <2>4
    <3>2. u \in DOMAIN cloud'["item"] /\ cloud'["item"][u].ing = i
      BY <1>1, <2>4, <3>1
    <3>3. \A d \in Caller : u \notin Shed(d)'
      BY <2>4
    <3>4. QED
      BY <3>2, <3>3 DEF Held
  <2>5. ASSUME i \in wanted, i \notin Touched(cloud, b) PROVE Held(i)'
    <3>1. Held(i)
      BY <2>5 DEF ShoppingInv, AllHeld
    <3>2. \A u \in DOMAIN cloud[b.kind] : cloud[b.kind][u].ing = i => u \notin b.drop \cup DOMAIN b.put
      BY <2>1, <2>5
    <3>3. \A k \in {"item", "pantry"} : \A u \in DOMAIN cloud[k] : cloud[k][u].ing = i =>
            u \in DOMAIN cloud'[k] /\ cloud'[k][u].ing = i
      BY <1>1, <1>2, <3>2
    <3>4. QED
      BY <3>1, <3>3 DEF Held
  <2>6. ASSUME i \in wanted, i \in Touched(cloud', b), b.kind = "item", op # "adds" PROVE Held(i)'
    <3>1. Held(i)
      BY <2>6 DEF ShoppingInv, AllHeld
    <3>2. CASE \E p \in DOMAIN cloud["pantry"] : cloud["pantry"][p].ing = i
      BY <1>1, <1>2, <2>6, <3>2 DEF Held
    <3>3. CASE \E u \in DOMAIN cloud["item"] : cloud["item"][u].ing = i /\ \A d \in Caller : u \notin Shed(d)
      <4>1. PICK u \in DOMAIN cloud["item"] : cloud["item"][u].ing = i /\ \A d \in Caller : u \notin Shed(d)
        BY <3>3
      <4>2. b.drop = {}
        BY <2>2, <2>6
      <4>3. u \in DOMAIN b.put => b.put[u].ing = i
        BY <2>6, <4>1 DEF Says, ShoppingInv, OneName
      <4>4. u \in DOMAIN cloud'["item"] /\ cloud'["item"][u].ing = i
        BY <1>1, <2>6, <4>1, <4>2, <4>3
      <4>5. \A d \in Caller : u \notin Shed(d)'
        BY <4>1
      <4>6. QED
        BY <4>4, <4>5 DEF Held
    <3>4. QED
      BY <3>1, <3>2, <3>3 DEF Held
  <2>7. QED
    BY <1>3, <1>6, <2>3, <2>4, <2>5, <2>6
<1>7. QED
  BY <1>5, <1>6

\* A move's first batch is in the pantry: what its items stand for is held there from then on.
LEMMA StockedKept ==
  ASSUME ShoppingInv, NEW c \in Caller, Stocking(c), call[c].at = "saves",
         cloud' = Applied(cloud, Batches(c)[1]), wanted' = wanted,
         Batches(c)' = Batches(c) \/ call'[c] = Idle,
         \A d \in Caller \ {c} : call'[d] = call[d]
  PROVE  AllHeld'
<1>1. PICK b : b = Batches(c)[1]
  OBVIOUS
<1>2. Move(call[c].op, Batches(c)) /\ call[c] # Idle /\ BatchOf(c, 1, "pantry")
  BY StockingIsMove, FirstBatch DEF Move
<1>3. b.kind = "pantry" /\ b.drop = {} /\ "pantry" \in Kind /\ "item" \in Kind
  BY <1>1, <1>2 DEF Move, Kind
<1>4. /\ cloud'["item"] = cloud["item"]
      /\ DOMAIN cloud'["pantry"] = DOMAIN b.put \cup DOMAIN cloud["pantry"]
      /\ \A p \in DOMAIN b.put : cloud'["pantry"][p] = b.put[p]
      /\ \A p \in DOMAIN cloud["pantry"] \ DOMAIN b.put : cloud'["pantry"][p] = cloud["pantry"][p]
  BY <1>1, <1>3, AppliedRows DEF ShoppingInv, Typed
<1>5. \A p \in DOMAIN b.put : p \notin DOMAIN cloud["pantry"]
  BY <1>1, <1>2 DEF ShoppingInv, Calls, Own, Minting, Unposted, Move
<1>6. SUFFICES ASSUME NEW i \in wanted PROVE Held(i)'
  BY DEF AllHeld
<1>7. Held(i)
  BY DEF ShoppingInv, AllHeld
<1>8. CASE \E p \in DOMAIN cloud["pantry"] : cloud["pantry"][p].ing = i
  BY <1>4, <1>5, <1>8 DEF Held
<1>9. CASE \E u \in DOMAIN cloud["item"] : cloud["item"][u].ing = i /\ \A d \in Caller : u \notin Shed(d)
  <2>1. PICK u \in DOMAIN cloud["item"] : cloud["item"][u].ing = i /\ \A d \in Caller : u \notin Shed(d)
    BY <1>9
  <2>2. \A d \in Caller \ {c} : u \notin Shed(d)'
    BY <2>1 DEF Shed, Stocking, Batches
  <2>3. CASE u \in Batches(c)[2].drop
    <3>1. \E p \in DOMAIN b.put : b.put[p].ing = i
      BY <1>1, <2>1, <2>3 DEF ShoppingInv, Calls, Covers, Says
    <3>2. QED
      BY <1>4, <3>1 DEF Held
  <2>4. CASE u \notin Batches(c)[2].drop
    <3>1. Len(Batches(c)) = 2
      BY DEF Stocking
    <3>2. u \notin Shed(c)'
      BY <2>4, <3>1 DEF Shed, Stocking, Idle
    <3>3. QED
      BY <1>4, <2>1, <2>2, <3>2 DEF Held
  <2>5. QED
    BY <2>3, <2>4
<1>10. QED
  BY <1>7, <1>8, <1>9 DEF Held

\* A move's last batch takes off items that nothing rests on any more.
LEMMA RemovedKept ==
  ASSUME ShoppingInv, NEW c \in Caller, call[c].op = "moves", ~Stocking(c), call[c].at = "saves",
         cloud' = Applied(cloud, Batches(c)[1]), wanted' = wanted,
         \A d \in Caller : \A u : u \in Shed(d)' => u \in Shed(d)
  PROVE  AllHeld'
<1>1. call[c] # Idle
  BY DEF Idle
<1>2. Removal(call[c].op, call[c].at, Batches(c))
  <2>1. Course(call[c].op, call[c].at, Batches(c))
    BY <1>1, UnderWay
  <2>2. ~Move(call[c].op, Batches(c))
    BY TwoBatches DEF Move, Stocking
  <2>3. QED
    BY <2>1, <2>2 DEF Course, Edit, Addition, Taught
<1>3. Batches(c)[1].drop = Shed(c) /\ Batches(c)[1].kind = "item" /\ DOMAIN Batches(c)[1].put = {}
  BY <1>2, OneBatch DEF Removal, Shed
<1>4. "item" \in Kind /\ "pantry" \in Kind
  BY DEF Kind
<1>5. /\ cloud'["pantry"] = cloud["pantry"]
      /\ \A u \in DOMAIN cloud["item"] \ Shed(c) : u \in DOMAIN cloud'["item"] /\ cloud'["item"][u] = cloud["item"][u]
  BY <1>3, <1>4, AppliedRows DEF ShoppingInv, Typed
<1>6. SUFFICES ASSUME NEW i \in wanted PROVE Held(i)'
  BY DEF AllHeld
<1>7. Held(i)
  BY DEF ShoppingInv, AllHeld
<1>8. QED
  BY <1>5, <1>7 DEF Held

\* A batch that is no move's leaves what is wanted held.
LEMMA SavedKept ==
  ASSUME ShoppingInv, NEW c \in Caller, call[c] # Idle, call[c].op # "moves", call[c].at = "saves",
         cloud' = Applied(cloud, Batches(c)[1]), Tracks(Batches(c)[1], call[c].op),
         \A d \in Caller : \A u : u \in Shed(d)' => u \in Shed(d)
  PROVE  AllHeld'
<1>1. PICK b, op : b = Batches(c)[1] /\ op = call[c].op
  OBVIOUS
<1>2. /\ b.kind \in Kind /\ BatchOf(c, 1, b.kind) /\ (DOMAIN b.put = {} \/ b.drop = {})
  BY <1>1, FirstBatch
<1>3. b.kind = "item" => \A u \in DOMAIN b.put : Says(u, b.put[u].ing)
  BY <1>1, <1>2, AllTell DEF Tells
<1>4. ASSUME b.kind = "item", op = "adds", NEW u \in DOMAIN b.put, NEW d \in Caller PROVE u \notin Shed(d)
  <2>1. CASE d = c
    BY <1>1, <1>4, <2>1 DEF Shed
  <2>2. CASE d # c
    <3>1. Addition(op, Batches(c))
      BY <1>1, <1>4, UnderWay DEF Course, Edit, Addition, Taught, Move, Removal
    <3>2. Unposted(c, 1) => ~Mentions(d, "item", u)
      BY <1>1, <1>2, <1>4, <2>2 DEF ShoppingInv, Calls, Own, Minting, Unposted
    <3>3. Unposted(c, 1)
      BY DEF Unposted
    <3>4. QED
      BY <3>2, <3>3, ShedIsMentioned
  <2>3. QED
    BY <2>1, <2>2
<1>5. Tracks(b, op) /\ cloud' = Applied(cloud, b) /\ op # "moves"
  BY <1>1
<1>6. QED
  BY <1>2, <1>3, <1>4, <1>5, TrackedKept

\* The batch is posted: it is there, or the call ends with it there or not.
LEMMA SavesKeeps == ASSUME ShoppingInv, NEW c \in Caller, ShoppingSaves(c) PROVE ShoppingInv'
<1>1. /\ call[c] # Idle /\ call[c].at = "saves" /\ UNCHANGED store
      /\ DOMAIN call' = Caller /\ \A d \in Caller \ {c} : call'[d] = call[d]
      /\ \/ cloud' = Applied(cloud, Head(Batches(c))) /\ call'[c] = [call[c] EXCEPT !.at = "commits"]
         \/ cloud' = Applied(cloud, Head(Batches(c))) /\ call'[c] = Idle
         \/ cloud' = cloud /\ call'[c] = Idle
      /\ IF cloud' = cloud THEN wanted' = wanted ELSE Tracks(Head(Batches(c)), call[c].op)
  BY DEF ShoppingSaves, Saves, Accepted, GivesUp, Idle, ShoppingInv, Typed, Batches
<1>2. /\ Head(Batches(c)) = Batches(c)[1] /\ Batches(c)[1].kind \in Kind
      /\ BatchOf(c, 1, Batches(c)[1].kind)
  BY <1>1, FirstBatch
<1>3. Onward(c)
  BY <1>1 DEF Onward
<1>4. call'[c] = Idle \/ (Batches(c)' = Batches(c) /\ call'[c].at = "commits" /\ call'[c].op = call[c].op)
  <2>1. call[c] = [op |-> call[c].op, at |-> call[c].at, batches |-> Batches(c)]
    BY <1>1, UnderWay
  <2>2. CASE call'[c] = [call[c] EXCEPT !.at = "commits"]
    <3>1. call'[c] = [op |-> call[c].op, at |-> "commits", batches |-> Batches(c)]
      BY <2>1, <2>2
    <3>2. QED
      BY <3>1 DEF Batches
  <2>3. QED
    BY <1>1, <2>2
<1>5. call'[c].at # "saves"
  BY <1>4 DEF Idle
<1>6. /\ DOMAIN cloud' = Kind
      /\ \A k \in {"item", "pantry"} : \A u \in DOMAIN cloud'[k] : u \in DOMAIN cloud[k] \/ Posted(c, k, u)
      /\ \A u \in DOMAIN cloud'["item"] : Tells(u, cloud'["item"][u])
  <2>1. CASE cloud' = cloud
    BY <2>1, AllTell DEF ShoppingInv, Typed
  <2>2. CASE cloud' = Applied(cloud, Batches(c)[1])
    <3>1. PICK b, k : b = Batches(c)[1] /\ k = b.kind
      OBVIOUS
    <3>2. {"item", "pantry"} \subseteq Kind
      BY DEF Kind
    <3>3. /\ DOMAIN cloud' = Kind
          /\ \A j \in Kind \ {k} : cloud'[j] = cloud[j]
          /\ DOMAIN cloud'[k] = DOMAIN b.put \cup (DOMAIN cloud[k] \ b.drop)
          /\ \A u \in DOMAIN b.put : cloud'[k][u] = b.put[u]
          /\ \A u \in DOMAIN cloud[k] \ (b.drop \cup DOMAIN b.put) : cloud'[k][u] = cloud[k][u]
      BY <1>2, <2>2, <3>1, AppliedRows DEF ShoppingInv, Typed
    <3>4. \A u \in DOMAIN b.put : Posted(c, k, u)
      BY <1>1, <1>2, <1>5, <3>1 DEF Posted
    <3>5. ASSUME k = "item", NEW u \in DOMAIN b.put PROVE Tells(u, b.put[u])
      BY <1>2, <3>1, <3>5, AllTell
    <3>6. \A u \in DOMAIN cloud["item"] : Tells(u, cloud["item"][u])
      BY AllTell
    <3>7. QED
      BY <3>2, <3>3, <3>4, <3>5, <3>6
  <2>3. QED
    BY <1>1, <1>2, <2>1, <2>2
<1>7. DOMAIN store' = Kind /\ \A u \in DOMAIN store'["item"] : Tells(u, store'["item"][u])
  BY <1>1, AllTell DEF ShoppingInv, Typed
<1>8. Typed' /\ Telling' /\ OneName' /\ Calls'
  BY <1>1, <1>3, <1>6, <1>7, OnwardKeeps
<1>9. ~Stocking(c) \/ call'[c] = Idle => \A d \in Caller : \A u : u \in Shed(d)' => u \in Shed(d)
  BY <1>1, <1>3, OnwardShed DEF Idle
<1>10. call[c].op = "moves" => wanted' = wanted
  BY <1>1 DEF Tracks
<1>11. AllHeld'
  <2>1. CASE cloud' = cloud /\ call'[c] = Idle
    BY <1>1, <1>9, <2>1, StandingKept
  <2>2. CASE cloud' = Applied(cloud, Batches(c)[1])
    <3>1. CASE Stocking(c)
      <4>1. wanted' = wanted
        BY <1>10, <3>1 DEF Stocking
      <4>2. QED
        BY <1>1, <1>4, <2>2, <3>1, <4>1, StockedKept
    <3>2. CASE call[c].op = "moves" /\ ~Stocking(c)
      BY <1>1, <1>9, <1>10, <2>2, <3>2, RemovedKept
    <3>3. CASE call[c].op # "moves"
      <4>1. \A d \in Caller : \A u : u \in Shed(d)' => u \in Shed(d)
        BY <1>9, <3>3 DEF Stocking
      <4>2. CASE cloud' = cloud
        BY <1>1, <4>1, <4>2, StandingKept
      <4>3. CASE cloud' # cloud
        <5>1. Tracks(Batches(c)[1], call[c].op)
          BY <1>1, <1>2, <4>3
        <5>2. QED
          BY <1>1, <2>2, <3>3, <4>1, <5>1, SavedKept
      <4>4. QED
        BY <4>2, <4>3
    <3>4. QED
      BY <3>1, <3>2, <3>3
  <2>3. QED
    BY <1>1, <1>2, <2>1, <2>2
<1>12. QED
  BY <1>8, <1>11 DEF ShoppingInv

----------------------------------------------------------------------------
\* Around the calls.

\* While the calls stand, rows that bring no uid and no name keep the invariant but for what is wanted.
LEMMA RowsKeep ==
  ASSUME ShoppingInv, UNCHANGED call, DOMAIN cloud' = Kind, DOMAIN store' = Kind,
         \A k \in {"item", "pantry"} : \A u \in DOMAIN cloud'[k] \cup DOMAIN store'[k] :
           u \in DOMAIN cloud[k] \cup DOMAIN store[k],
         \A u \in DOMAIN cloud'["item"] : Tells(u, cloud'["item"][u]),
         \A u \in DOMAIN store'["item"] : Tells(u, store'["item"][u])
  PROVE  /\ Typed' /\ Telling' /\ OneName' /\ Calls'
         /\ \A d \in Caller : \A u : u \in Shed(d)' => u \in Shed(d)
<1>1. \A c \in Caller : Batches(c)' = Batches(c)
  BY DEF Batches
<1>2. Typed'
  BY DEF ShoppingInv, Typed
<1>3. ASSUME NEW u, NEW i, Says(u, i)' PROVE Says(u, i)
  <2>1. CASE \E d \in Caller, n \in {1, 2} :
               BatchOf(d, n, "item")' /\ u \in DOMAIN Batches(d)'[n].put /\ Batches(d)'[n].put[u].ing = i
    BY <1>1, <2>1 DEF Says, BatchOf
  <2>2. CASE u \in DOMAIN cloud'["item"] /\ cloud'["item"][u].ing = i
    BY <2>2 DEF Tells
  <2>3. CASE u \in DOMAIN store'["item"] /\ store'["item"][u].ing = i
    BY <2>3 DEF Tells
  <2>4. QED
    BY <1>3, <2>1, <2>2, <2>3 DEF Says
<1>4. OneName'
  BY <1>3 DEF ShoppingInv, OneName
<1>5. ASSUME NEW c \in Caller PROVE Shape(c)'
  BY <1>1 DEF ShoppingInv, Calls, Shape, Idle
<1>6. ASSUME NEW c \in Caller PROVE Own(c)'
  <2>1. SUFFICES ASSUME NEW n \in {1, 2}, NEW k \in {"item", "pantry"}, BatchOf(c, n, k)',
                        Minting(call'[c].op, k), Unposted(c, n)', NEW u \in (DOMAIN Batches(c)[n].put)'
                 PROVE  /\ u \notin DOMAIN cloud'[k] /\ u \notin DOMAIN store'[k]
                        /\ \A e \in Caller \ {c} : ~Mentions(e, k, u)'
    BY DEF Own
  <2>2. BatchOf(c, n, k) /\ Minting(call[c].op, k) /\ Unposted(c, n) /\ u \in DOMAIN Batches(c)[n].put
    BY <1>1, <2>1 DEF BatchOf, Unposted
  <2>3. u \notin DOMAIN cloud[k] /\ u \notin DOMAIN store[k] /\ \A e \in Caller \ {c} : ~Mentions(e, k, u)
    BY <2>2 DEF ShoppingInv, Calls, Own
  <2>4. \A e \in Caller : Mentions(e, k, u)' => Mentions(e, k, u)
    BY <1>1 DEF Mentions, BatchOf
  <2>5. QED
    BY <2>3, <2>4
<1>7. ASSUME NEW c \in Caller PROVE Covers(c)'
  <2>1. Stocking(c)' = Stocking(c)
    BY <1>1 DEF Stocking
  <2>2. Covers(c) /\ (Batches(c)[2].drop)' = Batches(c)[2].drop /\ (Batches(c)[1].put)' = Batches(c)[1].put
    BY <1>1 DEF ShoppingInv, Calls
  <2>3. QED
    BY <1>3, <2>1, <2>2 DEF Covers
<1>8. ASSUME NEW d \in Caller, NEW u, u \in Shed(d)' PROVE u \in Shed(d)
  BY <1>1, <1>8 DEF Shed, Stocking
<1>9. Telling'
  <2>1. ASSUME NEW d \in Caller, NEW n \in {1, 2}, BatchOf(d, n, "item")', NEW u \in (DOMAIN Batches(d)[n].put)'
        PROVE  "ing" \in DOMAIN Batches(d)'[n].put[u]
    BY <1>1, <2>1 DEF ShoppingInv, Telling, BatchOf
  <2>2. QED
    BY <2>1 DEF Telling, Tells
<1>10. QED
  BY <1>2, <1>4, <1>5, <1>6, <1>7, <1>8, <1>9 DEF Calls

\* An entity is reconciled.
LEMMA SyncsKeeps == ASSUME ShoppingInv, NEW k \in Kind, Syncs(k), UNCHANGED wanted PROVE ShoppingInv'
<1>1. UNCHANGED <<cloud, call, wanted>> /\ DOMAIN store' = Kind
      /\ \A j \in Kind : store'[j] = store[j] \/ store'[j] = cloud[j]
  BY DEF Syncs, ShoppingInv, Typed
<1>2. {"item", "pantry"} \subseteq Kind
  BY DEF Kind
<1>3. /\ DOMAIN cloud' = Kind
      /\ \A j \in {"item", "pantry"} : \A u \in DOMAIN cloud'[j] \cup DOMAIN store'[j] : u \in DOMAIN cloud[j] \cup DOMAIN store[j]
      /\ \A u \in DOMAIN cloud'["item"] : Tells(u, cloud'["item"][u])
      /\ \A u \in DOMAIN store'["item"] : Tells(u, store'["item"][u])
  BY <1>1, <1>2, AllTell DEF ShoppingInv, Typed
<1>4. /\ Typed' /\ Telling' /\ OneName' /\ Calls'
      /\ \A d \in Caller : \A u : u \in Shed(d)' => u \in Shed(d)
  BY <1>1, <1>3, RowsKeep
<1>5. QED
  BY <1>1, <1>4, StandingKept DEF ShoppingInv

\* What is remembered of ingredients is reconciled.
LEMMA ReconcileIngredientsKeeps == ASSUME ShoppingInv, ReconcileIngredients, UNCHANGED wanted PROVE ShoppingInv'
<1>1. UNCHANGED <<cloud, call, wanted>> /\ DOMAIN store' = Kind
      /\ store'["item"] = store["item"] /\ store'["pantry"] = store["pantry"]
  <2>1. "item" \in Kind /\ "pantry" \in Kind
    BY DEF Kind
  <2>2. QED
    BY <2>1 DEF ReconcileIngredients, ShoppingInv, Typed
<1>2. /\ DOMAIN cloud' = Kind
      /\ \A j \in {"item", "pantry"} : \A u \in DOMAIN cloud'[j] \cup DOMAIN store'[j] : u \in DOMAIN cloud[j] \cup DOMAIN store[j]
      /\ \A u \in DOMAIN cloud'["item"] : Tells(u, cloud'["item"][u])
      /\ \A u \in DOMAIN store'["item"] : Tells(u, store'["item"][u])
  BY <1>1, AllTell DEF ShoppingInv, Typed
<1>3. /\ Typed' /\ Telling' /\ OneName' /\ Calls'
      /\ \A d \in Caller : \A u : u \in Shed(d)' => u \in Shed(d)
  BY <1>1, <1>2, RowsKeep
<1>4. QED
  BY <1>1, <1>3, StandingKept DEF ShoppingInv

\* The process restarts.
LEMMA RestartsKeeps == ASSUME ShoppingInv, Restarts, UNCHANGED wanted PROVE ShoppingInv'
<1>1. UNCHANGED <<cloud, store, wanted>> /\ DOMAIN call' = Caller
      /\ \A c \in Caller : call'[c] = Idle /\ Batches(c)' = <<>> /\ call'[c].op = "none"
  BY DEF Restarts, Batches, Idle
<1>2. \A u, i : Says(u, i)' => Says(u, i)
  BY <1>1 DEF Says, BatchOf
<1>3. Typed' /\ Telling' /\ OneName'
  BY <1>1, <1>2 DEF ShoppingInv, Typed, Telling, OneName, BatchOf
<1>4. Calls'
  BY <1>1 DEF Calls, Shape, Own, Covers, BatchOf, Stocking, Idle
<1>5. \A c \in Caller : Shed(c)' = {}
  BY <1>1 DEF Shed
<1>6. QED
  BY <1>1, <1>3, <1>4, <1>5, StandingKept DEF ShoppingInv

\* Another device takes a row off or buys an item.
LEMMA RemoteKeeps == ASSUME ShoppingInv, ShoppingRemote PROVE ShoppingInv'
<1>1. PICK b : /\ Remote(b) /\ Tracks(b, "remote")
               /\ \/ \E u \in DOMAIN cloud.item : b = Drop("item", {u})
                  \/ \E u \in DOMAIN cloud.pantry : b = Drop("pantry", {u})
                  \/ \E u \in DOMAIN cloud.item : b = Put("item", [v \in {u} |-> [cloud.item[v] EXCEPT !.bought = ~@]])
                  \/ \E u \in DOMAIN cloud.list : b = Drop("list", {u})
  BY DEF ShoppingRemote
<1>2. /\ b.kind \in Kind
      /\ DOMAIN b.put = {} \/ b.drop = {}
      /\ DOMAIN b.put \subseteq DOMAIN cloud[b.kind]
      /\ b.kind = "item" => \A u \in DOMAIN b.put : /\ b.put[u].ing = cloud["item"][u].ing
                                                   /\ "ing" \in DOMAIN b.put[u]
  <2>1. CASE \E k, D : k \in {"item", "pantry", "list"} /\ b = Drop(k, D)
    <3>1. PICK k, D : k \in {"item", "pantry", "list"} /\ b = Drop(k, D)
      BY <2>1
    <3>2. b.kind = k /\ b.put = NoRows /\ k \in Kind
      BY <3>1 DEF Drop, Batch, Kind
    <3>3. DOMAIN NoRows = {}
      BY DEF NoRows
    <3>4. QED
      BY <3>2, <3>3
  <2>2. CASE \E u \in DOMAIN cloud.item : b = Put("item", [v \in {u} |-> [cloud.item[v] EXCEPT !.bought = ~@]])
    <3>1. PICK u \in DOMAIN cloud.item : b = Put("item", [v \in {u} |-> [cloud.item[v] EXCEPT !.bought = ~@]])
      BY <2>2
    <3>2. /\ b.kind = "item" /\ b.drop = {} /\ "item" \in Kind
          /\ b.put = [v \in {u} |-> [cloud.item[v] EXCEPT !.bought = ~@]]
      BY <3>1 DEF Put, Batch, Kind
    <3>3. DOMAIN b.put = {u} /\ b.put[u] = [cloud.item[u] EXCEPT !.bought = ~@]
      BY <3>2
    <3>4. "ing" \in DOMAIN cloud.item[u]
      BY DEF ShoppingInv, Telling
    <3>5. DOMAIN b.put[u] = DOMAIN cloud.item[u] /\ b.put[u].ing = cloud.item[u].ing
      BY <3>3, <3>4
    <3>6. QED
      BY <3>2, <3>3, <3>4, <3>5
  <2>3. (\E k, D : k \in {"item", "pantry", "list"} /\ b = Drop(k, D))
        \/ \E u \in DOMAIN cloud.item : b = Put("item", [v \in {u} |-> [cloud.item[v] EXCEPT !.bought = ~@]])
    <3>1. ASSUME NEW k \in {"item", "pantry", "list"}, NEW u, b = Drop(k, {u})
          PROVE  \E j, D : j \in {"item", "pantry", "list"} /\ b = Drop(j, D)
      <4>1. PICK D : D = {u}
        OBVIOUS
      <4>2. QED
        BY <3>1, <4>1
    <3>2. QED
      BY <1>1, <3>1
  <2>4. QED
    BY <2>1, <2>2, <2>3
<1>3. cloud' = Applied(cloud, b) /\ UNCHANGED <<store, call>>
  BY <1>1 DEF Remote
<1>4. {"item", "pantry"} \subseteq Kind
  BY DEF Kind
<1>5. /\ DOMAIN cloud' = Kind
      /\ \A j \in Kind \ {b.kind} : cloud'[j] = cloud[j]
      /\ DOMAIN cloud'[b.kind] = DOMAIN b.put \cup (DOMAIN cloud[b.kind] \ b.drop)
      /\ \A u \in DOMAIN b.put : cloud'[b.kind][u] = b.put[u]
      /\ \A u \in DOMAIN cloud[b.kind] \ (b.drop \cup DOMAIN b.put) : cloud'[b.kind][u] = cloud[b.kind][u]
  BY <1>2, <1>3, AppliedRows DEF ShoppingInv, Typed
<1>6. /\ DOMAIN store' = Kind
      /\ \A j \in {"item", "pantry"} : \A u \in DOMAIN cloud'[j] \cup DOMAIN store'[j] : u \in DOMAIN cloud[j] \cup DOMAIN store[j]
  BY <1>2, <1>3, <1>4, <1>5 DEF ShoppingInv, Typed
<1>7. \A u \in DOMAIN cloud'["item"] : /\ u \in DOMAIN cloud["item"] /\ cloud'["item"][u].ing = cloud["item"][u].ing
                                       /\ "ing" \in DOMAIN cloud'["item"][u]
  BY <1>2, <1>4, <1>5 DEF ShoppingInv, Telling
<1>8. /\ \A u \in DOMAIN cloud'["item"] : Tells(u, cloud'["item"][u])
      /\ \A u \in DOMAIN store'["item"] : Tells(u, store'["item"][u])
  BY <1>3, <1>7, AllTell DEF Tells
<1>9. /\ Typed' /\ Telling' /\ OneName' /\ Calls'
      /\ \A d \in Caller : \A u : u \in Shed(d)' => u \in Shed(d)
  BY <1>3, <1>5, <1>6, <1>8, RowsKeep
<1>10. b.kind = "item" => \A u \in DOMAIN b.put : Says(u, b.put[u].ing)
  BY <1>2 DEF Says
<1>11. PICK op : op = "remote"
  OBVIOUS
<1>12. AllHeld'
  <2>1. Tracks(b, op) /\ op # "moves" /\ op # "adds"
    BY <1>1, <1>11
  <2>2. QED
    BY <1>2, <1>3, <1>9, <1>10, <2>1, TrackedKept
<1>13. QED
  BY <1>9, <1>12 DEF ShoppingInv

----------------------------------------------------------------------------
\* What the tools set out to save fits.

\* An edit of stored rows, or a deletion of some, fits, if it leaves items their ingredients.
LEMMA EditFits ==
  ASSUME NEW at \in {"asks", "saves"}, NEW b, b.kind \in Kind, DOMAIN b.put = {} \/ b.drop = {},
         b.kind \in {"item", "pantry"} => b.drop \cup DOMAIN b.put \subseteq DOMAIN store[b.kind],
         b.kind = "item" => \A u \in DOMAIN b.put : "ing" \in DOMAIN b.put[u] /\ b.put[u].ing = store["item"][u].ing
  PROVE  Fits("edits", at, <<b>>)
<1>1. One(<<b>>) /\ <<b>>[1] = b /\ 1..Len(<<b>>) = {1}
  <2>1. Len(<<b>>) = 1 /\ <<b>>[1] = b /\ 1..1 = {1}
    OBVIOUS
  <2>2. QED
    BY <2>1 DEF One
<1>2. Edit("edits", <<b>>)
  BY <1>1 DEF Edit
<1>3. QED
  BY <1>1, <1>2 DEF Fits, Course, Minting

\* Deleting stored rows fits.
LEMMA DropFits ==
  ASSUME NEW at \in {"asks", "saves"}, NEW k \in Kind, NEW D, k \in {"item", "pantry"} => D \subseteq DOMAIN store[k]
  PROVE  Fits("edits", at, <<Drop(k, D)>>)
<1>1. PICK b : b = Drop(k, D)
  OBVIOUS
<1>2. b.kind = k /\ b.put = NoRows /\ b.drop = D /\ DOMAIN NoRows = {}
  BY <1>1 DEF Drop, Batch, NoRows
<1>3. Fits("edits", at, <<b>>)
  BY <1>2, EditFits
<1>4. QED
  BY <1>1, <1>3

\* Storing a list's row fits.
LEMMA ListFits == ASSUME NEW put PROVE Fits("edits", "saves", <<Put("list", put)>>)
<1>1. PICK b : b = Put("list", put)
  OBVIOUS
<1>2. b.kind = "list" /\ b.drop = {} /\ "list" \in Kind
  BY <1>1 DEF Put, Batch, Kind
<1>3. Fits("edits", "saves", <<b>>)
  BY <1>2, EditFits
<1>4. QED
  BY <1>1, <1>3

\* Storing an item again with its ingredient fits.
LEMMA ItemFits ==
  ASSUME NEW at \in {"asks", "saves"}, NEW u \in DOMAIN store["item"], NEW put, DOMAIN put = {u},
         "ing" \in DOMAIN put[u], put[u].ing = store["item"][u].ing
  PROVE  Fits("edits", at, <<Put("item", put)>>)
<1>1. PICK b : b = Put("item", put)
  OBVIOUS
<1>2. b.kind = "item" /\ b.drop = {} /\ b.put = put /\ "item" \in Kind
  BY <1>1 DEF Put, Batch, Kind
<1>3. Fits("edits", at, <<b>>)
  BY <1>2, EditFits
<1>4. QED
  BY <1>1, <1>3

\* Storing a pantry row again fits, whatever it says.
LEMMA PantryFits ==
  ASSUME NEW at \in {"asks", "saves"}, NEW u \in DOMAIN store["pantry"], NEW put, DOMAIN put = {u}
  PROVE  Fits("edits", at, <<Put("pantry", put)>>) /\ Fits("adds", at, <<Put("pantry", put)>>)
<1>1. PICK b : b = Put("pantry", put)
  OBVIOUS
<1>2. b.kind = "pantry" /\ b.drop = {} /\ b.put = put /\ "pantry" \in Kind
  BY <1>1 DEF Put, Batch, Kind
<1>3. Fits("edits", at, <<b>>)
  BY <1>2, EditFits
<1>4. One(<<b>>) /\ <<b>>[1] = b /\ 1..Len(<<b>>) = {1}
  <2>1. Len(<<b>>) = 1 /\ <<b>>[1] = b /\ 1..1 = {1}
    OBVIOUS
  <2>2. QED
    BY <2>1 DEF One
<1>5. Addition("adds", <<b>>)
  BY <1>2, <1>4 DEF Addition
<1>6. Fits("adds", at, <<b>>)
  BY <1>2, <1>4, <1>5 DEF Fits, Course, Minting
<1>7. QED
  BY <1>1, <1>3, <1>6

\* Adding rows with free uids to the pantry fits.
LEMMA AddedPantryFits ==
  ASSUME NEW at \in {"asks", "saves"}, NEW put, \A u \in DOMAIN put : u \in Free("pantry")
  PROVE  Fits("adds", at, <<Put("pantry", put)>>)
<1>1. PICK b : b = Put("pantry", put)
  OBVIOUS
<1>2. b.kind = "pantry" /\ b.drop = {} /\ b.put = put
  BY <1>1 DEF Put, Batch
<1>3. One(<<b>>) /\ <<b>>[1] = b /\ 1..Len(<<b>>) = {1}
  <2>1. Len(<<b>>) = 1 /\ <<b>>[1] = b /\ 1..1 = {1}
    OBVIOUS
  <2>2. QED
    BY <2>1 DEF One
<1>4. Addition("adds", <<b>>)
  BY <1>2, <1>3 DEF Addition
<1>5. Fits("adds", at, <<b>>)
  BY <1>2, <1>3, <1>4 DEF Fits, Course
<1>6. QED
  BY <1>1, <1>5

\* What is built for a list has free uids and ingredients.
LEMMA BuiltRows ==
  ASSUME NEW l, NEW I, Enough("item", I)
  PROVE  /\ Built(l, I).kind = "item" /\ Built(l, I).drop = {}
         /\ \A u \in DOMAIN Built(l, I).put : u \in Free("item") /\ "ing" \in DOMAIN Built(l, I).put[u]
<1>1. PICK put : put = NewRows("item", I, LAMBDA i : [ing |-> i, list |-> l, bought |-> FALSE])
  OBVIOUS
<1>2. Built(l, I).kind = "item" /\ Built(l, I).drop = {} /\ Built(l, I).put = put
  BY <1>1 DEF Built, Put, Batch
<1>3. PICK uid : uid = Minted("item", I)
  OBVIOUS
<1>4. put = [u \in {uid[x] : x \in I} |-> [ing |-> CHOOSE x \in I : uid[x] = u, list |-> l, bought |-> FALSE]]
  BY <1>1, <1>3 DEF NewRows
<1>5. ASSUME NEW u \in DOMAIN put PROVE u \in Free("item") /\ "ing" \in DOMAIN put[u]
  <2>1. PICK x \in I : u = uid[x]
    BY <1>4
  <2>2. u \in Free("item")
    BY <1>3, <2>1, MintedFree
  <2>3. QED
    BY <1>4, <2>2
<1>6. QED
  BY <1>2, <1>5

\* Building items fits, with a lesson before them or without.
LEMMA BuiltFits ==
  ASSUME NEW l, NEW I, Enough("item", I), NEW filed
  PROVE  /\ Fits("adds", "saves", <<Built(l, I)>>)
         /\ Fits("adds", "asks", <<Lesson(I, filed), Built(l, I)>>)
<1>1. PICK a, b : a = Lesson(I, filed) /\ b = Built(l, I)
  OBVIOUS
<1>2. a.kind = "memory" /\ a.drop = {}
  BY <1>1 DEF Lesson, Put, Batch
<1>3. b.kind = "item" /\ b.drop = {} /\ \A u \in DOMAIN b.put : u \in Free("item") /\ "ing" \in DOMAIN b.put[u]
  BY <1>1, BuiltRows
<1>4. One(<<b>>) /\ <<b>>[1] = b /\ 1..Len(<<b>>) = {1}
  <2>1. Len(<<b>>) = 1 /\ <<b>>[1] = b /\ 1..1 = {1}
    OBVIOUS
  <2>2. QED
    BY <2>1 DEF One
<1>5. Two(<<a, b>>) /\ <<a, b>>[1] = a /\ <<a, b>>[2] = b /\ 1..Len(<<a, b>>) = {1, 2}
  <2>1. Len(<<a, b>>) = 2 /\ <<a, b>>[1] = a /\ <<a, b>>[2] = b /\ 1..2 = {1, 2}
    OBVIOUS
  <2>2. QED
    BY <2>1 DEF Two
<1>6. Addition("adds", <<b>>) /\ Taught("adds", <<a, b>>)
  BY <1>2, <1>3, <1>4, <1>5 DEF Addition, Taught
<1>7. Fits("adds", "saves", <<b>>)
  BY <1>3, <1>4, <1>6 DEF Fits, Course
<1>8. Fits("adds", "asks", <<a, b>>)
  BY <1>2, <1>3, <1>5, <1>6 DEF Fits, Course
<1>9. QED
  BY <1>1, <1>7, <1>8

\* A move of stored items fits: it stocks each one's ingredient.
LEMMA MovedFits ==
  ASSUME NEW U, U \subseteq DOMAIN store["item"], Enough("pantry", U)
  PROVE  Fits("moves", "asks", Moved(U))
<1>1. PICK a, b : a = Stocked(U) /\ b = Drop("item", U)
  OBVIOUS
<1>2. PICK put : put = NewRows("pantry", U, LAMBDA u : [ing |-> store.item[u].ing, stocked |-> TRUE])
  OBVIOUS
<1>3. PICK uid : uid = Minted("pantry", U)
  OBVIOUS
<1>4. put = [p \in {uid[x] : x \in U} |-> [ing |-> store.item[CHOOSE x \in U : uid[x] = p].ing, stocked |-> TRUE]]
  BY <1>2, <1>3 DEF NewRows
<1>5. /\ a.kind = "pantry" /\ a.drop = {} /\ a.put = put
      /\ b.kind = "item" /\ b.drop = U /\ b.put = NoRows /\ DOMAIN NoRows = {}
  BY <1>1, <1>2 DEF Stocked, Put, Drop, Batch, NoRows
<1>6. ASSUME NEW p \in DOMAIN put PROVE p \in Free("pantry")
  <2>1. PICK x \in U : p = uid[x]
    BY <1>4
  <2>2. QED
    BY <1>3, <2>1, MintedFree
<1>7. ASSUME NEW u \in U PROVE \E p \in DOMAIN put : put[p].ing = store["item"][u].ing
  <2>1. PICK p : p = uid[u]
    OBVIOUS
  <2>2. p \in DOMAIN put
    BY <1>4, <2>1
  <2>3. \A x \in U : uid[x] = p => x = u
    BY <1>3, <2>1, MintedFree
  <2>4. (CHOOSE x \in U : uid[x] = p) = u
    BY <2>1, <2>3
  <2>5. put[p].ing = store["item"][u].ing
    BY <1>4, <2>2, <2>4
  <2>6. QED
    BY <2>2, <2>5
<1>8. Two(<<a, b>>) /\ <<a, b>>[1] = a /\ <<a, b>>[2] = b /\ 1..Len(<<a, b>>) = {1, 2}
  <2>1. Len(<<a, b>>) = 2 /\ <<a, b>>[1] = a /\ <<a, b>>[2] = b /\ 1..2 = {1, 2}
    OBVIOUS
  <2>2. QED
    BY <2>1 DEF Two
<1>9. Move("moves", <<a, b>>)
  BY <1>5, <1>8 DEF Move
<1>10. Fits("moves", "asks", <<a, b>>)
  BY <1>5, <1>6, <1>7, <1>8, <1>9 DEF Fits, Course
<1>11. QED
  BY <1>1, <1>10 DEF Moved

----------------------------------------------------------------------------
\* The tools.

\* The tools of the lists keep the invariant.
LEMMA ListToolsKeep ==
  ASSUME ShoppingInv, NEW c \in Caller, CreateList(c) \/ RenameList(c) \/ DeleteList(c), UNCHANGED wanted
  PROVE  ShoppingInv'
<1>1. CASE CreateList(c) \/ RenameList(c)
  <2>1. PICK put : Does(c, "edits", <<Put("list", put)>>)
    BY <1>1 DEF CreateList, RenameList
  <2>2. Start(c, "edits", "saves", <<Put("list", put)>>)
    BY <2>1 DEF Does
  <2>3. QED
    BY <2>2, ListFits, StartKeeps
<1>2. CASE DeleteList(c)
  <2>1. PICK l : Start(c, "edits", "asks", <<Drop("list", {l})>>)
    BY <1>2 DEF DeleteList, Asks
  <2>2. "list" \in Kind
    BY DEF Kind
  <2>3. Fits("edits", "asks", <<Drop("list", {l})>>)
    BY <2>2, DropFits
  <2>4. QED
    BY <2>1, <2>3, StartKeeps
<1>3. QED
  BY <1>1, <1>2

\* The tools that add items keep the invariant.
LEMMA AddingKeeps ==
  ASSUME ShoppingInv, NEW c \in Caller, AddItems(c) \/ AddRecipe(c), UNCHANGED wanted
  PROVE  ShoppingInv'
<1>1. PICK l, I, filed : /\ Enough("item", I)
                         /\ \/ Start(c, "adds", "saves", <<Built(l, I)>>)
                            \/ Start(c, "adds", "asks", <<Lesson(I, filed), Built(l, I)>>)
  <2>1. buildGroceryItems(c)
    BY DEF AddItems, AddRecipe
  <2>2. PICK l \in Known("list"), I \in SUBSET Ingredient, placed \in BOOLEAN, filed \in BOOLEAN :
          LET new == I \ Unbought(l) IN
          /\ Enough("item", new)
          /\ IF placed THEN Asks(c, "adds", <<Lesson(new, filed), Built(l, new)>>)
                       ELSE Does(c, "adds", <<Built(l, new)>>)
    BY <2>1 DEF buildGroceryItems
  <2>3. PICK new : new = I \ Unbought(l)
    OBVIOUS
  <2>4. /\ Enough("item", new)
        /\ IF placed THEN Asks(c, "adds", <<Lesson(new, filed), Built(l, new)>>)
                     ELSE Does(c, "adds", <<Built(l, new)>>)
    BY <2>2, <2>3
  <2>5. QED
    BY <2>4 DEF Does, Asks
<1>2. CASE Start(c, "adds", "saves", <<Built(l, I)>>)
  <2>1. PICK bs : bs = <<Built(l, I)>>
    OBVIOUS
  <2>2. Fits("adds", "saves", bs) /\ Start(c, "adds", "saves", bs)
    BY <1>1, <1>2, <2>1, BuiltFits
  <2>3. QED
    BY <2>2, StartKeeps
<1>3. CASE Start(c, "adds", "asks", <<Lesson(I, filed), Built(l, I)>>)
  <2>1. PICK bs : bs = <<Lesson(I, filed), Built(l, I)>>
    OBVIOUS
  <2>2. Fits("adds", "asks", bs) /\ Start(c, "adds", "asks", bs)
    BY <1>1, <1>3, <2>1, BuiltFits
  <2>3. QED
    BY <2>2, StartKeeps
<1>4. QED
  BY <1>1, <1>2, <1>3

\* The tools that change items or take them off keep the invariant.
LEMMA ItemToolsKeep ==
  ASSUME ShoppingInv, NEW c \in Caller, UNCHANGED wanted,
         UpdateItem(c) \/ MarkPurchased(c) \/ DeleteItem(c) \/ ClearPurchased(c) \/ ClearList(c)
  PROVE  ShoppingInv'
<1>1. CASE UpdateItem(c) \/ MarkPurchased(c)
  <2>1. PICK u, at, put :
          /\ u \in DOMAIN store["item"] /\ at \in {"asks", "saves"}
          /\ Start(c, "edits", at, <<Put("item", put)>>)
          /\ DOMAIN put = {u} /\ DOMAIN put[u] = DOMAIN store["item"][u]
          /\ "ing" \in DOMAIN store["item"][u] => put[u].ing = store["item"][u].ing
    <3>1. CASE UpdateItem(c)
      <4>1. PICK u \in DOMAIN store["item"] : Asks(c, "edits", <<Put("item", Changed("item", {u}, LAMBDA r : r))>>)
        BY <3>1 DEF UpdateItem, Known
      <4>2. PICK put : put = Changed("item", {u}, LAMBDA r : r)
        OBVIOUS
      <4>3. DOMAIN put = {u} /\ put[u] = store["item"][u]
        BY <4>2 DEF Changed
      <4>4. Start(c, "edits", "asks", <<Put("item", put)>>)
        BY <4>1, <4>2 DEF Asks
      <4>5. QED
        BY <4>3, <4>4
    <3>2. CASE MarkPurchased(c)
      <4>1. PICK u \in DOMAIN store["item"] :
              Does(c, "edits", <<Put("item", Changed("item", {u}, LAMBDA r : [r EXCEPT !.bought = TRUE]))>>)
        BY <3>2 DEF MarkPurchased, Known
      <4>2. PICK put : put = Changed("item", {u}, LAMBDA r : [r EXCEPT !.bought = TRUE])
        OBVIOUS
      <4>3. DOMAIN put = {u} /\ put[u] = [store["item"][u] EXCEPT !.bought = TRUE]
        BY <4>2 DEF Changed
      <4>4. Start(c, "edits", "saves", <<Put("item", put)>>)
        BY <4>1, <4>2 DEF Does
      <4>5. QED
        BY <4>3, <4>4
    <3>3. QED
      BY <1>1, <3>1, <3>2
  <2>2. "ing" \in DOMAIN store["item"][u]
    BY <2>1 DEF ShoppingInv, Telling
  <2>3. Fits("edits", at, <<Put("item", put)>>)
    BY <2>1, <2>2, ItemFits
  <2>4. PICK bs : bs = <<Put("item", put)>>
    OBVIOUS
  <2>5. QED
    BY <2>1, <2>3, <2>4, StartKeeps
<1>2. CASE DeleteItem(c) \/ ClearPurchased(c) \/ ClearList(c)
  <2>1. PICK D, at : /\ D \subseteq DOMAIN store["item"] /\ at \in {"asks", "saves"}
                     /\ Start(c, "edits", at, <<Drop("item", D)>>)
    <3>1. CASE DeleteItem(c)
      <4>1. PICK u \in DOMAIN store["item"] : Start(c, "edits", "saves", <<Drop("item", {u})>>)
        BY <3>1 DEF DeleteItem, Known, Does
      <4>2. {u} \subseteq DOMAIN store["item"]
        OBVIOUS
      <4>3. QED
        BY <4>1, <4>2
    <3>2. CASE ClearPurchased(c)
      <4>1. PICK l, D : D = {u \in On(l) : store.item[u].bought} /\ Start(c, "edits", "asks", <<Drop("item", D)>>)
        BY <3>2 DEF ClearPurchased, Asks
      <4>2. D \subseteq DOMAIN store["item"]
        BY <4>1 DEF On, Known
      <4>3. QED
        BY <4>1, <4>2
    <3>3. CASE ClearList(c)
      <4>1. PICK l, D : D = On(l) /\ Start(c, "edits", "asks", <<Drop("item", D)>>)
        BY <3>3 DEF ClearList, Asks
      <4>2. D \subseteq DOMAIN store["item"]
        BY <4>1 DEF On, Known
      <4>3. QED
        BY <4>1, <4>2
    <3>4. QED
      BY <1>2, <3>1, <3>2, <3>3
  <2>2. "item" \in Kind
    BY DEF Kind
  <2>3. Fits("edits", at, <<Drop("item", D)>>)
    BY <2>1, <2>2, DropFits
  <2>4. QED
    BY <2>1, <2>3, StartKeeps
<1>3. QED
  BY <1>1, <1>2

\* A move to the pantry keeps the invariant.
LEMMA MovingKeeps ==
  ASSUME ShoppingInv, NEW c \in Caller, MoveToPantry(c), UNCHANGED wanted
  PROVE  ShoppingInv'
<1>1. PICK U : U \subseteq DOMAIN store["item"] /\ Enough("pantry", U) /\ Start(c, "moves", "asks", Moved(U))
  BY DEF MoveToPantry, Asks, Known
<1>2. PICK bs : bs = Moved(U)
  OBVIOUS
<1>3. Fits("moves", "asks", bs) /\ Start(c, "moves", "asks", bs)
  BY <1>1, <1>2, MovedFits
<1>4. QED
  BY <1>3, StartKeeps

\* The tools of the pantry keep the invariant.
LEMMA PantryToolsKeep ==
  ASSUME ShoppingInv, NEW c \in Caller, UNCHANGED wanted,
         AddPantry(c) \/ UpdatePantry(c) \/ MarkOutOfStock(c) \/ Restock(c) \/ DeletePantry(c) \/ ClearOutOfStock(c)
  PROVE  ShoppingInv'
<1>1. CASE AddPantry(c)
  <2>1. PICK I \in SUBSET Ingredient, placed \in BOOLEAN :
          LET new == I \ {store.pantry[u].ing : u \in Known("pantry")} IN
          /\ Enough("pantry", new)
          /\ Start(c, "adds", IF placed THEN "asks" ELSE "saves",
                   <<Put("pantry", NewRows("pantry", new, LAMBDA i : [ing |-> i, stocked |-> TRUE]))>>)
    BY <1>1 DEF AddPantry
  <2>2. PICK new, at : /\ new = I \ {store.pantry[u].ing : u \in Known("pantry")}
                       /\ at = IF placed THEN "asks" ELSE "saves"
    OBVIOUS
  <2>3. PICK put : put = NewRows("pantry", new, LAMBDA i : [ing |-> i, stocked |-> TRUE])
    OBVIOUS
  <2>4. Enough("pantry", new) /\ Start(c, "adds", at, <<Put("pantry", put)>>) /\ at \in {"asks", "saves"}
    BY <2>1, <2>2, <2>3
  <2>5. PICK uid : uid = Minted("pantry", new)
    OBVIOUS
  <2>6. put = [u \in {uid[x] : x \in new} |-> [ing |-> CHOOSE x \in new : uid[x] = u, stocked |-> TRUE]]
    BY <2>3, <2>5 DEF NewRows
  <2>7. \A u \in DOMAIN put : u \in Free("pantry")
    BY <2>4, <2>5, <2>6, MintedFree
  <2>8. Fits("adds", at, <<Put("pantry", put)>>)
    BY <2>4, <2>7, AddedPantryFits
  <2>9. QED
    BY <2>4, <2>8, StartKeeps
<1>2. CASE UpdatePantry(c)
  <2>1. PICK u \in DOMAIN store["pantry"], i \in Ingredient, placed \in BOOLEAN :
          Start(c, "adds", IF placed THEN "asks" ELSE "saves",
                <<Put("pantry", Changed("pantry", {u}, LAMBDA r : [r EXCEPT !.ing = i]))>>)
    BY <1>2 DEF UpdatePantry, Known
  <2>2. PICK put, at : /\ put = Changed("pantry", {u}, LAMBDA r : [r EXCEPT !.ing = i])
                       /\ at = IF placed THEN "asks" ELSE "saves"
    OBVIOUS
  <2>3. DOMAIN put = {u} /\ at \in {"asks", "saves"} /\ Start(c, "adds", at, <<Put("pantry", put)>>)
    BY <2>1, <2>2 DEF Changed
  <2>4. Fits("adds", at, <<Put("pantry", put)>>)
    BY <2>3, PantryFits
  <2>5. QED
    BY <2>3, <2>4, StartKeeps
<1>3. CASE MarkOutOfStock(c) \/ Restock(c)
  <2>1. PICK stocked \in BOOLEAN : MarkStock(c, stocked)
    BY <1>3 DEF MarkOutOfStock, Restock
  <2>2. PICK u \in DOMAIN store["pantry"] :
          Does(c, "edits", <<Put("pantry", Changed("pantry", {u}, LAMBDA r : [r EXCEPT !.stocked = stocked]))>>)
    BY <2>1 DEF MarkStock, Known
  <2>3. PICK put : put = Changed("pantry", {u}, LAMBDA r : [r EXCEPT !.stocked = stocked])
    OBVIOUS
  <2>4. DOMAIN put = {u} /\ Start(c, "edits", "saves", <<Put("pantry", put)>>)
    BY <2>2, <2>3 DEF Changed, Does
  <2>5. Fits("edits", "saves", <<Put("pantry", put)>>)
    BY <2>4, PantryFits
  <2>6. QED
    BY <2>4, <2>5, StartKeeps
<1>4. CASE DeletePantry(c) \/ ClearOutOfStock(c)
  <2>1. PICK D : D \subseteq DOMAIN store["pantry"] /\ Start(c, "edits", "asks", <<Drop("pantry", D)>>)
    BY <1>4 DEF DeletePantry, ClearOutOfStock, Known, Asks
  <2>2. "pantry" \in Kind
    BY DEF Kind
  <2>3. Fits("edits", "asks", <<Drop("pantry", D)>>)
    BY <2>1, <2>2, DropFits
  <2>4. QED
    BY <2>1, <2>3, StartKeeps
<1>5. QED
  BY <1>1, <1>2, <1>3, <1>4

----------------------------------------------------------------------------
\* The invariant holds.

\* At first there is one item, and it is wanted.
LEMMA ShoppingStarts == ASSUME NEW calls, ShoppingInit, ToolCallsInit(calls) PROVE ShoppingInv
<1>1. PICK i : /\ cloud = [Empty EXCEPT !.list = [u \in {1} |-> [name |-> CHOOSE n \in ListName : TRUE, default |-> TRUE]],
                                        !.item = [u \in {1} |-> [ing |-> i, list |-> 1, bought |-> FALSE]]]
               /\ wanted = {i}
  BY DEF ShoppingInit
<1>2. "item" \in Kind /\ "pantry" \in Kind /\ "list" \in Kind
  BY DEF Kind
<1>3. DOMAIN cloud = Kind /\ cloud["item"] = [u \in {1} |-> [ing |-> i, list |-> 1, bought |-> FALSE]]
  BY <1>1, <1>2 DEF Empty
<1>4. /\ store = cloud /\ DOMAIN call = Caller
      /\ \A c \in Caller : call[c] = Idle /\ Batches(c) = <<>> /\ call[c].op = "none"
  BY DEF ToolCallsInit, Batches, Idle
<1>5. \A k : \A c \in Caller, n \in {1, 2} : ~BatchOf(c, n, k)
  BY <1>4 DEF BatchOf
<1>6. Typed /\ Telling
  BY <1>3, <1>4, <1>5 DEF Typed, Telling
<1>7. OneName
  BY <1>3, <1>4, <1>5 DEF OneName, Says
<1>8. Calls
  BY <1>4, <1>5 DEF Calls, Shape, Own, Covers, Stocking
<1>9. \A c \in Caller : Shed(c) = {}
  BY <1>4 DEF Shed
<1>10. Held(i)
  <2>1. 1 \in DOMAIN cloud["item"] /\ cloud["item"][1].ing = i
    BY <1>3
  <2>2. QED
    BY <1>9, <2>1 DEF Held
<1>11. QED
  BY <1>1, <1>6, <1>7, <1>8, <1>10 DEF ShoppingInv, AllHeld

\* Every step keeps it.
LEMMA ShoppingSteps == ASSUME ShoppingInv, [ShoppingNext]_<<toolVars, wanted>> PROVE ShoppingInv'
<1>1. CASE ShoppingNext
  <2>1. ASSUME NEW c \in Caller, UNCHANGED wanted,
               \/ CreateList(c) \/ RenameList(c) \/ DeleteList(c)
               \/ AddItems(c) \/ AddRecipe(c) \/ UpdateItem(c) \/ MarkPurchased(c) \/ DeleteItem(c)
               \/ ClearPurchased(c) \/ ClearList(c) \/ MoveToPantry(c)
               \/ AddPantry(c) \/ UpdatePantry(c) \/ MarkOutOfStock(c) \/ Restock(c)
               \/ DeletePantry(c) \/ ClearOutOfStock(c)
               \/ Proceeds(c) \/ Stops(c) \/ Commits(c)
        PROVE  ShoppingInv'
    BY <2>1, ListToolsKeep, AddingKeeps, ItemToolsKeep, MovingKeeps, PantryToolsKeep,
       ProceedsKeeps, StopsKeeps, CommitsKeeps
  <2>2. ASSUME NEW k \in {"list", "item", "pantry"}, Syncs(k), UNCHANGED wanted PROVE ShoppingInv'
    <3>1. k \in Kind
      BY DEF Kind
    <3>2. QED
      BY <2>2, <3>1, SyncsKeeps
  <2>3. QED
    BY <1>1, <2>1, <2>2, ReconcileIngredientsKeeps, RestartsKeeps, SavesKeeps, RemoteKeeps DEF ShoppingNext
<1>2. CASE UNCHANGED <<toolVars, wanted>>
  <2>1. UNCHANGED <<cloud, store, call, wanted>>
    BY <1>2 DEF toolVars
  <2>2. /\ Typed' /\ Telling' /\ OneName' /\ Calls'
        /\ \A d \in Caller : \A u : u \in Shed(d)' => u \in Shed(d)
    BY <2>1, AllTell, RowsKeep DEF ShoppingInv, Typed
  <2>3. QED
    BY <2>1, <2>2, StandingKept DEF ShoppingInv
<1>3. QED
  BY <1>1, <1>2

\* What is wanted and held is on a list or in the pantry.
LEMMA HeldIsThere == ASSUME ShoppingInv PROVE NothingLost
BY DEF ShoppingInv, AllHeld, Held, NothingLost, Ings

\* The invariant of the grocery and pantry tools.
THEOREM ShoppingInvariant == ShoppingSpec => []ShoppingInv
<1>1. ShoppingInit /\ ToolCallsInit(MaxCalls) => ShoppingInv
  BY ShoppingStarts
<1>2. ShoppingInv /\ [ShoppingNext]_<<toolVars, wanted>> => ShoppingInv'
  BY ShoppingSteps
<1>3. QED
  BY <1>1, <1>2, PTL DEF ShoppingSpec

\* Nothing on a list or in the pantry is lost unless a call or another device takes it off: not by a
\* move that fails, loses an answer, or is cut off by a restart between its four steps, beside any number
\* of other calls on the same items, in any order (grocery-move.ts, pantry/module.ts).
THEOREM NothingLostHolds == ShoppingSpec => []NothingLost
<1>1. ShoppingInv => NothingLost
  BY HeldIsThere
<1>2. QED
  BY <1>1, ShoppingInvariant, PTL

----------------------------------------------------------------------------
\* THE CATALOGS. Finite sets.

\* A finite set that is not empty, of numbers, has a greatest one: of the sets of what is greater than a
\* member, a smallest is empty.
LEMMA Greatest ==
  ASSUME NEW S, IsFiniteSet(S), S # {}, S \subseteq Nat
  PROVE  \E m \in S : \A n \in S : n <= m
<1> DEFINE Above(m) == {n \in S : n > m}
           T == {Above(m) : m \in S}
<1>1. T \subseteq FiniteSubsetsOf(S) /\ T # {}
  <2>1. \A m \in S : IsFiniteSet(Above(m))
    BY FS_Subset
  <2>2. QED
    BY <2>1 DEF FiniteSubsetsOf
<1>2. \E U \in T : \A V \in T : <<V, U>> \notin StrictSubsetOrdering(S)
  <2>1. IsWellFoundedOn(StrictSubsetOrdering(S), FiniteSubsetsOf(S))
    BY FS_StrictSubsetOrderingWellFounded
  <2>2. QED
    BY <1>1, <2>1, WFMin
<1>3. PICK m \in S : \A n \in S : <<Above(n), Above(m)>> \notin StrictSubsetOrdering(S)
  BY <1>2
<1>4. ASSUME NEW n \in S, n > m PROVE FALSE
  <2>1. Above(n) \subseteq Above(m) /\ n \notin Above(n) /\ n \in Above(m)
    <3>1. \A x \in S : x \in Nat
      OBVIOUS
    <3>2. m \in Nat /\ n \in Nat /\ n > m /\ ~(n > n)
      BY <1>4, <3>1
    <3>3. ASSUME NEW x \in S, x > n PROVE x > m
      BY <3>1, <3>2, <3>3
    <3>4. QED
      BY <3>2, <3>3
  <2>2. <<Above(n), Above(m)>> \in StrictSubsetOrdering(S)
    BY <2>1 DEF StrictSubsetOrdering
  <2>3. QED
    BY <1>3, <2>2
<1>5. QED
  BY <1>4

----------------------------------------------------------------------------
\* The order of a catalog.

\* The rows of a catalog.
CatalogRow == [name : CatalogName, pos : Nat, builtin : BOOLEAN]
Table(rows, k) == /\ rows = [u \in DOMAIN rows |-> rows[u]]
                  /\ DOMAIN rows \subseteq Slot[k]
                  /\ \A u \in DOMAIN rows : rows[u] \in CatalogRow
Apart(rows) == \A u, v \in DOMAIN rows : u # v => rows[u].name # rows[v].name /\ rows[u].pos # rows[v].pos

\* A row's rank is less than the number of rows, and no two rows of different positions share it.
LEMMA Ranks ==
  ASSUME NEW rows, IsFiniteSet(DOMAIN rows), \A u \in DOMAIN rows : u \in Nat /\ rows[u].pos \in Nat,
         NEW v \in DOMAIN rows
  PROVE  /\ RankIn(rows, v) \in Nat /\ RankIn(rows, v) < Cardinality(DOMAIN rows)
         /\ \A w \in DOMAIN rows : rows[v].pos < rows[w].pos => RankIn(rows, v) < RankIn(rows, w)
<1> DEFINE Less(w) == {x \in DOMAIN rows : Before(rows, x, w)}
<1>1. \A w \in DOMAIN rows : IsFiniteSet(Less(w)) /\ Cardinality(Less(w)) \in Nat
  BY FS_Subset, FS_CardinalityType
<1>2. \A w \in DOMAIN rows : w \notin Less(w)
  BY DEF Before
<1>3. Cardinality(Less(v)) < Cardinality(DOMAIN rows)
  <2>1. Less(v) \subseteq DOMAIN rows /\ Less(v) # DOMAIN rows
    BY <1>2
  <2>2. Cardinality(Less(v)) <= Cardinality(DOMAIN rows) /\ Cardinality(Less(v)) # Cardinality(DOMAIN rows)
    BY <2>1, FS_Subset
  <2>3. QED
    BY <1>1, <2>2, FS_CardinalityType
<1>4. ASSUME NEW w \in DOMAIN rows, rows[v].pos < rows[w].pos PROVE Cardinality(Less(v)) < Cardinality(Less(w))
  <2>1. Less(v) \subseteq Less(w)
    BY <1>4 DEF Before
  <2>2. v \in Less(w) /\ v \notin Less(v)
    BY <1>2, <1>4 DEF Before
  <2>3. Cardinality(Less(v)) <= Cardinality(Less(w)) /\ Cardinality(Less(v)) # Cardinality(Less(w))
    BY <1>1, <2>1, <2>2, FS_Subset
  <2>4. QED
    BY <1>1, <2>3
<1>5. QED
  BY <1>1, <1>3, <1>4 DEF RankIn

\* new has the rows of old, but for their positions and the name of one.
Rearranged(new, old, u, name) ==
  /\ DOMAIN new = DOMAIN old /\ new[u].name = name
  /\ \A v \in DOMAIN old \ {u} : new[v].name = old[v].name
  /\ (\A v, w \in DOMAIN old : v # w => old[v].pos # old[w].pos)
       => \A v, w \in DOMAIN old : v # w => new[v].pos # new[w].pos

\* Moving an entry leaves the others' rows but for their positions, and all positions apart if they were.
LEMMA RepositionedApart ==
  ASSUME NEW k \in {"aisle", "type"}, NEW rows, Table(rows, k), NEW u \in DOMAIN rows, NEW row \in CatalogRow, NEW place \in Nat,
         NEW new, new = Repositioned(rows, u, row, place)
  PROVE  Table(new, k) /\ Rearranged(new, rows, u, row.name)
<1>1. PICK others : others = [v \in DOMAIN rows \ {u} |-> rows[v]]
  OBVIOUS
<1>2. PICK index : index = IF place < Cardinality(DOMAIN others) THEN place ELSE Cardinality(DOMAIN others)
  OBVIOUS
<1>3. IsFiniteSet(DOMAIN others) /\ DOMAIN others = DOMAIN rows \ {u} /\ \A v \in DOMAIN others : others[v] = rows[v]
  <2>1. IsFiniteSet(Slot[k])
    BY CatalogsAssumption
  <2>2. DOMAIN others = DOMAIN rows \ {u} /\ \A v \in DOMAIN others : others[v] = rows[v]
    BY <1>1
  <2>3. DOMAIN others \subseteq Slot[k]
    BY <2>2 DEF Table
  <2>4. QED
    BY <2>1, <2>2, <2>3, FS_Subset
<1>4. \A v \in DOMAIN others : v \in Nat /\ others[v].pos \in Nat
  BY <1>3, CatalogsAssumption DEF Table, CatalogRow
<1>5. \A v \in DOMAIN others : /\ RankIn(others, v) \in Nat
                               /\ \A w \in DOMAIN others : others[v].pos < others[w].pos => RankIn(others, v) < RankIn(others, w)
  BY <1>3, <1>4, Ranks
<1>6. index \in Nat
  BY <1>2, <1>3, FS_CardinalityType
<1>7. /\ DOMAIN new = DOMAIN rows /\ new = [v \in DOMAIN rows |-> new[v]]
      /\ new[u] = [row EXCEPT !.pos = index]
      /\ \A v \in DOMAIN rows \ {u} :
           new[v] = [rows[v] EXCEPT !.pos = RankIn(others, v) + IF RankIn(others, v) < index THEN 0 ELSE 1]
  BY <1>1, <1>2 DEF Repositioned
<1>8. /\ new[u] \in CatalogRow /\ new[u].name = row.name /\ new[u].pos = index
      /\ \A v \in DOMAIN rows \ {u} :
           /\ new[v] \in CatalogRow /\ new[v].name = rows[v].name
           /\ new[v].pos = RankIn(others, v) + IF RankIn(others, v) < index THEN 0 ELSE 1
  <2>1. new[u] \in CatalogRow /\ new[u].name = row.name /\ new[u].pos = index
    BY <1>6, <1>7 DEF CatalogRow
  <2>2. ASSUME NEW v \in DOMAIN rows \ {u}
        PROVE  /\ new[v] \in CatalogRow /\ new[v].name = rows[v].name
               /\ new[v].pos = RankIn(others, v) + IF RankIn(others, v) < index THEN 0 ELSE 1
    <3>1. rows[v] \in CatalogRow /\ RankIn(others, v) \in Nat
      BY <1>3, <1>5 DEF Table
    <3>2. PICK p \in Nat : p = RankIn(others, v) + IF RankIn(others, v) < index THEN 0 ELSE 1
      BY <3>1
    <3>3. new[v] = [rows[v] EXCEPT !.pos = p]
      BY <1>7, <3>2
    <3>4. QED
      BY <3>1, <3>2, <3>3 DEF CatalogRow
  <2>3. QED
    BY <2>1, <2>2
<1>9. Table(new, k)
  BY <1>7, <1>8 DEF Table
<1>10. ASSUME \A v, w \in DOMAIN rows : v # w => rows[v].pos # rows[w].pos, NEW v \in DOMAIN rows, NEW w \in DOMAIN rows, v # w
       PROVE  new[v].pos # new[w].pos
  <2>1. CASE v # u /\ w # u
    <3>1. PICK a \in Nat, b \in Nat : a = RankIn(others, v) /\ b = RankIn(others, w)
      BY <1>3, <1>5, <2>1
    <3>2. a < b \/ b < a
      <4>1. others[v].pos < others[w].pos \/ others[w].pos < others[v].pos
        BY <1>3, <1>4, <1>10, <2>1
      <4>2. QED
        BY <1>3, <1>5, <2>1, <3>1, <4>1
    <3>3. new[v].pos = (a + IF a < index THEN 0 ELSE 1) /\ new[w].pos = (b + IF b < index THEN 0 ELSE 1)
      BY <1>8, <2>1, <3>1
    <3>4. QED
      BY <1>6, <3>1, <3>2, <3>3
  <2>2. CASE v = u
    <3>1. PICK b \in Nat : b = RankIn(others, w)
      BY <1>3, <1>5, <1>10, <2>2
    <3>2. new[v].pos = index /\ new[w].pos = (b + IF b < index THEN 0 ELSE 1)
      BY <1>8, <1>10, <2>2, <3>1
    <3>3. QED
      BY <1>6, <3>1, <3>2
  <2>3. CASE w = u
    <3>1. PICK b \in Nat : b = RankIn(others, v)
      BY <1>3, <1>5, <1>10, <2>3
    <3>2. new[w].pos = index /\ new[v].pos = (b + IF b < index THEN 0 ELSE 1)
      BY <1>8, <1>10, <2>3, <3>1
    <3>3. QED
      BY <1>6, <3>1, <3>2
  <2>4. QED
    BY <2>1, <2>2, <2>3
<1>11. QED
  BY <1>7, <1>8, <1>9, <1>10 DEF Rearranged

----------------------------------------------------------------------------
\* The inductive invariant of a catalog.

Inside(c) == call[c].at \in {"saves", "commits"}
Op == CatalogName \cup {"update", "delete"}

\* What a call past the lock saves: rows, or the deletion of one.
Change(b, k) == /\ b.kind = k
                /\ Table(b.put, k)
                /\ DOMAIN b.put = {} \/ b.drop = {}
CatalogCourse(op, at, bs, k) ==
  \/ at = "asks" /\ op \in CatalogName
  \/ /\ at = "asks" /\ op = "delete"
     /\ One(bs) /\ Change(bs[1], k) /\ DOMAIN bs[1].put = {}
  \/ at \in {"saves", "commits"} /\ op \in Op /\ One(bs) /\ Change(bs[1], k)
CatalogCall(c, k) == \/ call[c] = Idle
                     \/ /\ call[c] = [op |-> call[c].op, at |-> call[c].at, batches |-> Batches(c)]
                        /\ CatalogCourse(call[c].op, call[c].at, Batches(c), k)

Counted == /\ budget.losses \in Nat /\ budget.losses <= MaxLosses
           /\ budget.remote \in Nat /\ budget.remote <= MaxRemote
           /\ budget = [calls |-> budget.calls, faults |-> budget.faults, losses |-> budget.losses, remote |-> budget.remote]
CatalogTyped(k) == /\ DOMAIN cloud = Kind /\ DOMAIN store = Kind /\ DOMAIN call = Caller
                   /\ cloud = [l \in Kind |-> cloud[l]] /\ store = [l \in Kind |-> store[l]]
                   /\ Table(cloud[k], k) /\ Table(store[k], k)
                   /\ Table(disk, k) /\ Table(buffer, k)
                   /\ (fetched # NotFetched => Table(fetched, k)) /\ (planned # NotFetched => Table(planned, k))
                   /\ undone \in BOOLEAN
                   /\ \A l \in {"aisle", "type"} \ {k} : DOMAIN cloud[l] = {}
                   /\ Counted
                   /\ \A c \in Caller : CatalogCall(c, k)

\* At most one call is past the lock.
OneInside == \A c, d \in Caller : Inside(c) /\ Inside(d) => c = d

\* Rows whose commit is under way.
Landing(u) == \E c \in Caller : call[c].at = "commits" /\ u \in DOMAIN Batches(c)[1].put \cup Batches(c)[1].drop
Agree(k, u) == /\ u \in DOMAIN store[k] <=> u \in DOMAIN cloud[k]
               /\ u \in DOMAIN cloud[k] => store[k][u] = cloud[k][u]
Over(rows, b) == [u \in DOMAIN b.put \cup (DOMAIN rows \ b.drop) |-> IF u \in DOMAIN b.put THEN b.put[u] ELSE rows[u]]

\* A call that has saved finds its rows at Paprika; what it is about to save leaves names and positions apart.
Landed(c, k) == LET b == Batches(c)[1] IN
  /\ \A u \in DOMAIN b.put : u \in DOMAIN cloud[k] /\ cloud[k][u] = b.put[u]
  /\ \A u \in b.drop : u \notin DOMAIN cloud[k]
\* A list, and what is made of it, has what Paprika has, but for what is marked and what a commit is to bring.
Fresh(rows, k) == rows # NotFetched =>
  \A u \in DOMAIN cloud[k] : u \in shielded \/ Landing(u) \/ (u \in DOMAIN rows /\ rows[u] = cloud[k][u])
Sound(k) == /\ Apart(cloud[k])
            /\ \A c \in Caller : (call[c].at = "saves" => Apart(Over(cloud[k], Batches(c)[1])))
                                 /\ (call[c].at = "commits" => Landed(c, k))
            /\ \A u : Landing(u) \/ Agree(k, u)
            /\ Fresh(fetched, k) /\ Fresh(planned, k)
CatalogInv(k) == CatalogTyped(k) /\ OneInside /\ (Undisturbed /\ ~undone => Sound(k))

----------------------------------------------------------------------------
\* The steps of a call.

Calm == Undisturbed /\ ~undone

\* What is spent stays within its bound; a loss and an edit elsewhere end the calm.
LEMMA SpendsCounted ==
  ASSUME Counted, NEW what \in {"calls", "faults", "losses", "remote"}, Spends(what)
  PROVE  /\ Counted'
         /\ Undisturbed' => Undisturbed
         /\ what \in {"losses", "remote"} => ~Undisturbed'
<1>1. MaxLosses \in Nat /\ MaxRemote \in Nat
  BY ToolCallsAssumption
<1>2. budget[what] > 0 /\ budget' = [budget EXCEPT ![what] = @ - 1]
  BY DEF Spends
<1>3. CASE what = "calls"
  <2>1. budget'.losses = budget.losses /\ budget'.remote = budget.remote
    BY <1>2, <1>3 DEF Counted
  <2>2. Counted'
    BY <1>2, <1>3, <2>1 DEF Counted
  <2>3. QED
    BY <1>3, <2>1, <2>2 DEF Undisturbed
<1>4. CASE what = "faults"
  <2>1. budget'.losses = budget.losses /\ budget'.remote = budget.remote
    BY <1>2, <1>4 DEF Counted
  <2>2. Counted'
    BY <1>2, <1>4, <2>1 DEF Counted
  <2>3. QED
    BY <1>4, <2>1, <2>2 DEF Undisturbed
<1>5. CASE what = "losses"
  <2>1. budget'.losses = budget.losses - 1 /\ budget'.remote = budget.remote /\ budget.losses > 0
    BY <1>2, <1>5 DEF Counted
  <2>2. Counted'
    <3>1. budget'.losses \in Nat /\ budget'.losses <= MaxLosses
      BY <1>1, <2>1 DEF Counted
    <3>2. budget' = [calls |-> budget'.calls, faults |-> budget'.faults, losses |-> budget'.losses, remote |-> budget'.remote]
      BY <1>2, <1>5 DEF Counted
    <3>3. QED
      BY <2>1, <3>1, <3>2 DEF Counted
  <2>3. budget'.losses # MaxLosses
    BY <1>1, <2>1 DEF Counted
  <2>4. QED
    BY <1>5, <2>2, <2>3 DEF Undisturbed
<1>6. CASE what = "remote"
  <2>1. budget'.remote = budget.remote - 1 /\ budget'.losses = budget.losses /\ budget.remote > 0
    BY <1>2, <1>6 DEF Counted
  <2>2. Counted'
    <3>1. budget'.remote \in Nat /\ budget'.remote <= MaxRemote
      BY <1>1, <2>1 DEF Counted
    <3>2. budget' = [calls |-> budget'.calls, faults |-> budget'.faults, losses |-> budget'.losses, remote |-> budget'.remote]
      BY <1>2, <1>6 DEF Counted
    <3>3. QED
      BY <2>1, <3>1, <3>2 DEF Counted
  <2>3. budget'.remote # MaxRemote
    BY <1>1, <2>1 DEF Counted
  <2>4. QED
    BY <1>6, <2>2, <2>3 DEF Undisturbed
<1>7. QED
  BY <1>3, <1>4, <1>5, <1>6

\* While nobody is past the lock and all is calm, store and Paprika are the same.
LEMMA QuietSame ==
  ASSUME NEW k \in {"aisle", "type"}, CatalogInv(k), ~Locked, Calm
  PROVE  store[k] = cloud[k] /\ Apart(cloud[k])
<1>1. Sound(k)
  BY DEF CatalogInv, Calm
<1>2. \A u : ~Landing(u)
  BY DEF Locked, Landing
<1>3. \A u : Agree(k, u)
  BY <1>1, <1>2 DEF Sound
<1>4. /\ store[k] = [u \in DOMAIN store[k] |-> store[k][u]]
      /\ cloud[k] = [u \in DOMAIN cloud[k] |-> cloud[k][u]]
  BY DEF CatalogInv, CatalogTyped, Table
<1>5. DOMAIN store[k] = DOMAIN cloud[k]
  BY <1>3 DEF Agree
<1>6. \A u \in DOMAIN cloud[k] : store[k][u] = cloud[k][u]
  BY <1>3 DEF Agree
<1>7. QED
  BY <1>1, <1>4, <1>5, <1>6 DEF Sound

\* A call that is not past the lock begins to wait, or ends.
LEMMA OutsideKeeps ==
  ASSUME NEW k \in {"aisle", "type"}, CatalogInv(k), NEW c \in Caller, ~Inside(c), NEW new,
         call' = [call EXCEPT ![c] = new], CatalogCall(c, k)', ~Inside(c)',
         Counted', Undisturbed' => Undisturbed,
         UNCHANGED <<cloud, store, shielded, disk, buffer, fetched, planned, undone>>
  PROVE  CatalogInv(k)'
<1>1. DOMAIN call' = Caller /\ \A d \in Caller \ {c} : call'[d] = call[d]
  BY DEF CatalogInv, CatalogTyped
<1>2. \A d \in Caller \ {c} : Batches(d)' = Batches(d) /\ (CatalogCall(d, k)' <=> CatalogCall(d, k)) /\ (Inside(d)' <=> Inside(d))
  BY <1>1 DEF Batches, CatalogCall, Inside, Idle
<1>3. CatalogTyped(k)'
  BY <1>1, <1>2 DEF CatalogInv, CatalogTyped
<1>4. OneInside'
  BY <1>2 DEF CatalogInv, OneInside
<1>5. \A u : Landing(u)' <=> Landing(u)
  BY <1>1, <1>2 DEF Landing, Inside
<1>6. ASSUME Undisturbed', ~undone' PROVE Sound(k)'
  <2>1. Sound(k)
    BY <1>6 DEF CatalogInv
  <2>2. \A u : Agree(k, u)' <=> Agree(k, u)
    BY DEF Agree
  <2>3. ASSUME NEW d \in Caller
        PROVE  /\ call'[d].at = "saves" => Apart(Over(cloud[k], Batches(d)'[1]))
               /\ call'[d].at = "commits" => Landed(d, k)'
    <3>1. CASE d = c
      BY <3>1 DEF Inside
    <3>2. CASE d # c
      BY <1>1, <1>2, <2>1, <3>2 DEF Sound, Landed
    <3>3. QED
      BY <3>1, <3>2
  <2>4. QED
    BY <1>5, <2>1, <2>2, <2>3 DEF Sound, Fresh
<1>7. QED
  BY <1>3, <1>4, <1>6 DEF CatalogInv

\* A call gets past the lock with something to save that leaves the catalog whole.
LEMMA InsideKeeps ==
  ASSUME NEW k \in {"aisle", "type"}, CatalogInv(k), NEW c \in Caller, ~Locked, NEW op \in Op, NEW b,
         call' = [call EXCEPT ![c] = [op |-> op, at |-> "saves", batches |-> <<b>>]],
         Change(b, k), Calm => Apart(Over(cloud[k], b)),
         Counted', Undisturbed' => Undisturbed,
         UNCHANGED <<cloud, store, shielded, disk, buffer, fetched, planned, undone>>
  PROVE  CatalogInv(k)'
<1>1. DOMAIN call' = Caller /\ call'[c] = [op |-> op, at |-> "saves", batches |-> <<b>>] /\ \A d \in Caller \ {c} : call'[d] = call[d]
  BY DEF CatalogInv, CatalogTyped
<1>2. \A d \in Caller \ {c} : Batches(d)' = Batches(d) /\ (CatalogCall(d, k)' <=> CatalogCall(d, k)) /\ (Inside(d)' <=> Inside(d))
  BY <1>1 DEF Batches, CatalogCall, Inside, Idle
<1>3. Batches(c)' = <<b>> /\ One(<<b>>) /\ <<b>>[1] = b
  BY <1>1 DEF Batches, One
<1>4. \A d \in Caller : ~Inside(d)
  BY DEF Locked, Inside
<1>5. CatalogCall(c, k)'
  BY <1>1, <1>3 DEF CatalogCall, CatalogCourse, Inside
<1>6. CatalogTyped(k)'
  BY <1>1, <1>2, <1>5 DEF CatalogInv, CatalogTyped
<1>7. OneInside'
  BY <1>2, <1>4 DEF OneInside
<1>8. \A u : ~Landing(u) /\ ~Landing(u)'
  BY <1>1, <1>2, <1>4 DEF Landing, Inside
<1>9. ASSUME Undisturbed', ~undone' PROVE Sound(k)'
  <2>1. Sound(k) /\ Calm
    BY <1>9 DEF CatalogInv, Calm
  <2>2. \A u : Agree(k, u)' <=> Agree(k, u)
    BY DEF Agree
  <2>3. ASSUME NEW d \in Caller
        PROVE  /\ call'[d].at = "saves" => Apart(Over(cloud[k], Batches(d)'[1]))
               /\ call'[d].at = "commits" => Landed(d, k)'
    <3>1. CASE d = c
      BY <1>1, <1>3, <2>1, <3>1
    <3>2. CASE d # c
      BY <1>1, <1>4, <3>2 DEF Inside
    <3>3. QED
      BY <3>1, <3>2
  <2>4. QED
    BY <1>8, <2>1, <2>2, <2>3 DEF Sound, Fresh
<1>10. QED
  BY <1>6, <1>7, <1>9 DEF CatalogInv

\* A table stays one with a batch over it.
LEMMA OverTable ==
  ASSUME NEW k, NEW rows, Table(rows, k), NEW b, Table(b.put, k) PROVE Table(Over(rows, b), k)
BY DEF Over, Table

\* A save reaches Paprika, fails, or loses its answer.
LEMMA CatalogSavesKeeps ==
  ASSUME NEW k \in {"aisle", "type"}, CatalogInv(k), NEW c \in Caller, Saves(c), UNCHANGED catalogVars
  PROVE  CatalogInv(k)'
<1>1. PICK b : b = Batches(c)[1]
  OBVIOUS
<1>2. call[c].at = "saves" /\ Inside(c)
  BY DEF Saves, Inside
<1>3. One(Batches(c)) /\ Change(b, k) /\ call[c].op \in Op /\ Head(call[c].batches) = b
  <2>1. CatalogCall(c, k)
    BY DEF CatalogInv, CatalogTyped
  <2>2. One(Batches(c)) /\ Change(b, k) /\ call[c].op \in Op
    BY <1>1, <1>2, <2>1 DEF CatalogCall, CatalogCourse, Idle
  <2>3. QED
    BY <1>1, <2>2, OneBatch DEF Batches
<1>4. UNCHANGED <<store, shielded, disk, buffer, fetched, planned, undone>>
  BY DEF Saves, catalogVars
<1>5. ASSUME NEW d \in Caller, d # c PROVE ~Inside(d)
  BY <1>2, <1>5 DEF CatalogInv, OneInside
<1>6. DOMAIN cloud = Kind /\ k \in Kind /\ DOMAIN call = Caller /\ b.kind = k
  BY <1>3 DEF CatalogInv, CatalogTyped, Kind, Change
<1>7. /\ DOMAIN Applied(cloud, b) = Kind
      /\ Applied(cloud, b) = [l \in Kind |-> Applied(cloud, b)[l]]
      /\ Applied(cloud, b)[k] = Over(cloud[k], b)
      /\ \A l \in {"aisle", "type"} \ {k} : DOMAIN Applied(cloud, b)[l] = {}
  <2>1. \A l \in {"aisle", "type"} \ {k} : l \in Kind /\ DOMAIN cloud[l] = {}
    BY DEF CatalogInv, CatalogTyped, Kind
  <2>2. QED
    BY <1>6, <2>1 DEF Applied, Over, CatalogInv, CatalogTyped
<1>8. Table(Over(cloud[k], b), k)
  BY <1>3, OverTable DEF Change, CatalogInv, CatalogTyped
<1>9. \A u : ~Landing(u)
  BY <1>2, <1>5 DEF Landing, Inside
<1>10. CASE Accepted(c) /\ call' = [call EXCEPT ![c].at = "commits"] /\ UNCHANGED budget
  <2>1. cloud' = Applied(cloud, b)
    BY <1>3, <1>10 DEF Accepted
  <2>2. /\ DOMAIN call' = Caller /\ call'[c] = [call[c] EXCEPT !.at = "commits"]
        /\ \A d \in Caller \ {c} : call'[d] = call[d]
    BY <1>6, <1>10
  <2>3. /\ Batches(c)' = Batches(c) /\ call'[c].op = call[c].op /\ call'[c].at = "commits"
        /\ \A d \in Caller \ {c} : Batches(d)' = Batches(d)
    <3>1. call[c] = [op |-> call[c].op, at |-> call[c].at, batches |-> Batches(c)]
      BY <1>2 DEF Idle, Inside, CatalogInv, CatalogTyped, CatalogCall
    <3>2. QED
      BY <2>2, <3>1 DEF Batches
  <2>4. CatalogTyped(k)'
    <3>1. ASSUME NEW d \in Caller PROVE CatalogCall(d, k)'
      <4>1. CASE d = c
        <5>1. CatalogCourse(call[c].op, "commits", Batches(c), k)
          BY <1>1, <1>3 DEF CatalogCourse
        <5>2. call'[c] = [op |-> call[c].op, at |-> "commits", batches |-> Batches(c)]
          <6>1. call[c] = [op |-> call[c].op, at |-> call[c].at, batches |-> Batches(c)]
            BY <1>2 DEF Idle, Inside, CatalogInv, CatalogTyped, CatalogCall
          <6>2. QED
            BY <2>2, <6>1
        <5>3. QED
          BY <2>3, <4>1, <5>1, <5>2 DEF CatalogCall
      <4>2. CASE d # c
        BY <2>2, <2>3, <4>2 DEF CatalogInv, CatalogTyped, CatalogCall
      <4>3. QED
        BY <4>1, <4>2
    <3>2. Counted'
      BY <1>10 DEF CatalogInv, CatalogTyped, Counted
    <3>3. /\ DOMAIN cloud' = Kind /\ cloud' = [l \in Kind |-> cloud'[l]] /\ Table(cloud'[k], k)
          /\ \A l \in {"aisle", "type"} \ {k} : DOMAIN cloud'[l] = {}
      BY <1>7, <1>8, <2>1
    <3>4. QED
      BY <1>4, <2>2, <3>1, <3>2, <3>3 DEF CatalogInv, CatalogTyped
  <2>5. OneInside'
    BY <1>2, <1>5, <2>2 DEF OneInside, Inside
  <2>6. \A u : Landing(u)' <=> u \in DOMAIN b.put \cup b.drop
    BY <1>1, <1>5, <2>2, <2>3 DEF Landing, Inside
  <2>7. ASSUME Undisturbed', ~undone' PROVE Sound(k)'
    <3>1. Sound(k)
      BY <1>4, <1>10, <2>7 DEF CatalogInv, Undisturbed
    <3>2. cloud'[k] = Over(cloud[k], b)
      BY <1>7, <2>1
    <3>3. Apart(cloud'[k])
      BY <1>1, <1>2, <3>1, <3>2 DEF Sound
    <3>4. ASSUME NEW u, u \notin DOMAIN b.put, u \notin b.drop
          PROVE  /\ u \in DOMAIN cloud'[k] <=> u \in DOMAIN cloud[k]
                 /\ u \in DOMAIN cloud[k] => cloud'[k][u] = cloud[k][u]
      BY <3>2, <3>4 DEF Over
    <3>5. \A u : Landing(u)' \/ Agree(k, u)'
      BY <1>4, <1>9, <2>6, <3>1, <3>4 DEF Sound, Agree
    <3>6. Fresh(fetched, k)' /\ Fresh(planned, k)'
      BY <1>4, <1>9, <2>6, <3>1, <3>4 DEF Sound, Fresh
    <3>7. ASSUME NEW d \in Caller
          PROVE  call'[d].at # "saves" /\ (call'[d].at = "commits" => Landed(d, k)')
      <4>1. CASE d = c
        <5>1. \A u \in DOMAIN b.put : u \in DOMAIN cloud'[k] /\ cloud'[k][u] = b.put[u]
          BY <3>2 DEF Over
        <5>2. \A u \in b.drop : u \notin DOMAIN cloud'[k]
          BY <1>3, <3>2 DEF Over, Change
        <5>3. QED
          BY <1>1, <2>3, <4>1, <5>1, <5>2 DEF Landed
      <4>2. CASE d # c
        BY <1>5, <2>2, <4>2 DEF Inside
      <4>3. QED
        BY <4>1, <4>2
    <3>8. QED
      BY <3>3, <3>5, <3>6, <3>7 DEF Sound
  <2>8. QED
    BY <2>4, <2>5, <2>7 DEF CatalogInv
<1>11. CASE Spends("faults") /\ GivesUp(c) /\ UNCHANGED cloud
  <2>1. call' = [call EXCEPT ![c] = Idle] /\ Counted' /\ (Undisturbed' => Undisturbed)
    BY <1>11, SpendsCounted DEF GivesUp, CatalogInv, CatalogTyped
  <2>2. DOMAIN call' = Caller /\ call'[c] = Idle /\ \A d \in Caller \ {c} : call'[d] = call[d] /\ Batches(d)' = Batches(d)
    BY <1>6, <2>1 DEF Batches
  <2>3. CatalogTyped(k)'
    <3>1. \A d \in Caller : CatalogCall(d, k)'
      BY <2>2 DEF CatalogInv, CatalogTyped, CatalogCall, Inside, Idle
    <3>2. QED
      BY <1>4, <1>11, <2>1, <2>2, <3>1 DEF CatalogInv, CatalogTyped
  <2>4. \A d \in Caller : ~Inside(d)'
    BY <1>5, <2>2 DEF Inside, Idle
  <2>5. OneInside' /\ \A u : ~Landing(u)'
    BY <2>4 DEF OneInside, Landing, Inside
  <2>6. ASSUME Undisturbed', ~undone' PROVE Sound(k)'
    <3>1. Sound(k)
      BY <1>4, <2>1, <2>6 DEF CatalogInv
    <3>2. \A u : Agree(k, u)' <=> Agree(k, u)
      BY <1>4, <1>11 DEF Agree
    <3>3. QED
      BY <1>4, <1>9, <1>11, <2>4, <3>1, <3>2 DEF Sound, Inside, Fresh
  <2>7. QED
    BY <2>3, <2>5, <2>6 DEF CatalogInv
<1>12. CASE Spends("losses") /\ GivesUp(c) /\ Accepted(c)
  <2>1. call' = [call EXCEPT ![c] = Idle] /\ Counted' /\ ~Undisturbed' /\ cloud' = Applied(cloud, b)
    BY <1>3, <1>12, SpendsCounted DEF GivesUp, Accepted, CatalogInv, CatalogTyped
  <2>2. DOMAIN call' = Caller /\ call'[c] = Idle /\ \A d \in Caller \ {c} : call'[d] = call[d] /\ Batches(d)' = Batches(d)
    BY <1>6, <2>1 DEF Batches
  <2>3. CatalogTyped(k)'
    <3>1. \A d \in Caller : CatalogCall(d, k)'
      BY <2>2 DEF CatalogInv, CatalogTyped, CatalogCall, Inside, Idle
    <3>2. /\ DOMAIN cloud' = Kind /\ cloud' = [l \in Kind |-> cloud'[l]] /\ Table(cloud'[k], k)
          /\ \A l \in {"aisle", "type"} \ {k} : DOMAIN cloud'[l] = {}
      BY <1>7, <1>8, <2>1
    <3>3. QED
      BY <1>4, <2>1, <2>2, <3>1, <3>2 DEF CatalogInv, CatalogTyped
  <2>4. OneInside'
    BY <1>5, <2>2 DEF OneInside, Inside, Idle
  <2>5. QED
    BY <2>1, <2>3, <2>4 DEF CatalogInv
<1>13. QED
  BY <1>10, <1>11, <1>12 DEF Saves

\* The commit after a save: the store gets the change, with or without the disk, or misses it.
LEMMA CatalogCommitsKeeps ==
  ASSUME NEW k \in {"aisle", "type"}, CatalogInv(k), NEW c \in Caller, CatalogCommits(c)
  PROVE  CatalogInv(k)'
<1>1. PICK b : b = Batches(c)[1]
  OBVIOUS
<1>2. call[c].at = "commits" /\ Inside(c) /\ UNCHANGED <<cloud, fetched, planned, undone>> /\ call' = [call EXCEPT ![c] = Idle]
  BY DEF CatalogCommits, GivesUp, Inside
<1>3. One(Batches(c)) /\ Change(b, k) /\ Head(call[c].batches) = b
  <2>1. CatalogCall(c, k)
    BY DEF CatalogInv, CatalogTyped
  <2>2. One(Batches(c)) /\ Change(b, k)
    BY <1>1, <1>2, <2>1 DEF CatalogCall, CatalogCourse, Idle
  <2>3. QED
    BY <1>1, <2>2, OneBatch DEF Batches
<1>4. DOMAIN store = Kind /\ k \in Kind /\ DOMAIN call = Caller /\ b.kind = k
  BY <1>3 DEF CatalogInv, CatalogTyped, Kind, Change
<1>5. DOMAIN call' = Caller /\ call'[c] = Idle /\ \A d \in Caller \ {c} : call'[d] = call[d] /\ Batches(d)' = Batches(d)
  BY <1>2, <1>4 DEF Batches
<1>6. \A d \in Caller : CatalogCall(d, k)'
  BY <1>5 DEF CatalogInv, CatalogTyped, CatalogCall
<1>7. ASSUME NEW d \in Caller PROVE ~Inside(d)'
  BY <1>2, <1>5 DEF CatalogInv, OneInside, Inside, Idle
<1>8. OneInside' /\ \A u : ~Landing(u)'
  BY <1>7 DEF OneInside, Landing, Inside
<1>9. \A u : Landing(u) <=> u \in DOMAIN b.put \cup b.drop
  BY <1>1, <1>2 DEF Landing, CatalogInv, OneInside, Inside
<1>a. Table(disk, k) /\ Table(buffer, k) /\ Table(b.put, k)
  BY <1>3 DEF CatalogInv, CatalogTyped, Change
<1>b. Buffered(b) => Table(disk', k) /\ Table(buffer', k)
  BY <1>a DEF Buffered, Unlike, Topped, Leaving, Table
<1>c. Written(b) => Table(disk', k) /\ Table(buffer', k)
  BY <1>a DEF Written, Cached, Topped, Leaving, Table, NoRows
<1>10. CASE Stored(b) /\ Table(disk', k) /\ Table(buffer', k) /\ Counted' /\ (Undisturbed' => Undisturbed)
  <2>1. store' = Applied(store, b) /\ shielded' = (shielded \cup DOMAIN b.put) \ b.drop
    BY <1>10 DEF Stored
  <2>2. store'[k] = Over(store[k], b) /\ DOMAIN store' = Kind /\ store' = [l \in Kind |-> store'[l]]
    BY <1>4, <2>1 DEF Applied, Over, CatalogInv, CatalogTyped
  <2>3. Table(store'[k], k)
    BY <1>3, <2>2, OverTable DEF Change, CatalogInv, CatalogTyped
  <2>4. CatalogTyped(k)'
    BY <1>2, <1>5, <1>6, <1>10, <2>2, <2>3 DEF CatalogInv, CatalogTyped
  <2>5. ASSUME Undisturbed', ~undone' PROVE Sound(k)'
    <3>1. Sound(k)
      BY <1>2, <1>10, <2>5 DEF CatalogInv
    <3>2. Landed(c, k)
      BY <1>2, <3>1 DEF Sound
    <3>3. ASSUME NEW u PROVE Agree(k, u)'
      <4>1. CASE u \in DOMAIN b.put
        BY <1>1, <1>2, <2>2, <3>2, <4>1 DEF Over, Agree, Landed
      <4>2. CASE u \notin DOMAIN b.put /\ u \in b.drop
        BY <1>1, <1>2, <2>2, <3>2, <4>2 DEF Over, Agree, Landed
      <4>3. CASE u \notin DOMAIN b.put /\ u \notin b.drop
        <5>1. Agree(k, u)
          BY <1>9, <3>1, <4>3 DEF Sound
        <5>2. QED
          BY <1>2, <2>2, <4>3, <5>1 DEF Over, Agree
      <4>4. QED
        BY <4>1, <4>2, <4>3
    <3>4. ASSUME NEW rows, Fresh(rows, k), rows # NotFetched, NEW u \in DOMAIN cloud[k], u \notin shielded'
          PROVE  u \in DOMAIN rows /\ rows[u] = cloud[k][u]
      <4>1. u \notin b.drop
        BY <1>1, <3>2, <3>4 DEF Landed
      <4>2. u \notin DOMAIN b.put /\ u \notin shielded
        BY <2>1, <3>4, <4>1
      <4>3. QED
        BY <1>9, <3>4, <4>1, <4>2 DEF Fresh
    <3>6. Fresh(fetched, k)' /\ Fresh(planned, k)'
      BY <1>2, <3>1, <3>4 DEF Sound, Fresh
    <3>5. QED
      BY <1>2, <1>7, <3>1, <3>3, <3>6 DEF Sound, Inside
  <2>6. QED
    BY <1>8, <2>4, <2>5 DEF CatalogInv
<1>11. CASE UNCHANGED store /\ Table(disk', k) /\ Table(buffer', k) /\ Counted' /\ ~Undisturbed'
  <2>1. CatalogTyped(k)'
    BY <1>2, <1>5, <1>6, <1>11 DEF CatalogInv, CatalogTyped
  <2>2. QED
    BY <1>8, <1>11, <2>1 DEF CatalogInv
<1>12. Counted
  BY DEF CatalogInv, CatalogTyped
<1>13. CASE Stored(b) /\ Written(b) /\ UNCHANGED budget
  <2>1. Counted' /\ (Undisturbed' => Undisturbed)
    BY <1>12, <1>13 DEF Counted, Undisturbed
  <2>2. QED
    BY <1>c, <1>10, <1>13, <2>1
<1>14. CASE call[c].op \in CatalogName /\ Spends("faults") /\ Stored(b) /\ Buffered(b)
  BY <1>b, <1>10, <1>12, <1>14, SpendsCounted
<1>15. CASE Spends("losses") /\ UNCHANGED store /\ (Buffered(b) \/ UNCHANGED <<disk, buffer>>)
  <2>1. Table(disk', k) /\ Table(buffer', k)
    BY <1>a, <1>b, <1>15
  <2>2. QED
    BY <1>11, <1>12, <1>15, <2>1, SpendsCounted
<1>16. QED
  BY <1>3, <1>13, <1>14, <1>15 DEF CatalogCommits

----------------------------------------------------------------------------
\* The steps around the calls.

\* The list is fetched.
LEMMA CatalogFetchesKeeps ==
  ASSUME NEW k \in {"aisle", "type"}, CatalogInv(k), CatalogFetches(k) PROVE CatalogInv(k)'
<1>1. fetched' = cloud[k] /\ UNCHANGED <<cloud, store, call, budget, shielded, disk, buffer, planned, undone>>
  BY DEF CatalogFetches
<1>2. CatalogTyped(k)'
  BY <1>1 DEF CatalogInv, CatalogTyped, CatalogCall, Batches, Counted
<1>3. OneInside' /\ (Undisturbed' <=> Undisturbed)
  BY <1>1 DEF CatalogInv, OneInside, Inside, Undisturbed
<1>4. ASSUME Sound(k) PROVE Sound(k)'
  BY <1>1, <1>4 DEF Sound, Fresh, Agree, Landing, Landed, Batches
<1>5. QED
  BY <1>1, <1>2, <1>3, <1>4 DEF CatalogInv

\* It is put together with what the cache has, whatever has happened since it was fetched.
LEMMA CatalogReadsKeeps ==
  ASSUME NEW k \in {"aisle", "type"}, CatalogInv(k), CatalogReads PROVE CatalogInv(k)'
<1>1. fetched # NotFetched /\ planned' = Effective /\ UNCHANGED <<cloud, store, call, budget, shielded, fetched, undone>>
  BY DEF CatalogReads
<1>2. PICK gone : disk' = Leaving(disk, gone) /\ buffer' = Leaving(buffer, gone)
  BY DEF CatalogReads
<1>3. Table(disk, k) /\ Table(buffer, k) /\ Table(fetched, k)
  BY <1>1 DEF CatalogInv, CatalogTyped
<1>4. Table(disk', k) /\ Table(buffer', k)
  BY <1>2, <1>3 DEF Leaving, Table
<1>5. PICK own : own = DOMAIN Cached \cap shielded
  OBVIOUS
<1>6. planned' = [u \in own \cup (DOMAIN fetched \ shielded) |-> IF u \in own THEN Cached[u] ELSE fetched[u]]
  BY <1>1, <1>5 DEF Effective
<1>7. Table(Cached, k)
  BY <1>3 DEF Cached, Topped, Table
<1>8. Table(planned', k)
  BY <1>3, <1>5, <1>6, <1>7 DEF Table
<1>9. CatalogTyped(k)'
  BY <1>1, <1>4, <1>8 DEF CatalogInv, CatalogTyped, CatalogCall, Batches, Counted
<1>10. OneInside' /\ (Undisturbed' <=> Undisturbed) /\ (\A u : Landing(u)' <=> Landing(u))
  BY <1>1 DEF CatalogInv, OneInside, Inside, Undisturbed, Landing, Batches
<1>11. ASSUME Sound(k) PROVE Sound(k)'
  <2>1. Fresh(fetched, k)
    BY <1>11 DEF Sound
  <2>2. Fresh(planned, k)'
    BY <1>1, <1>5, <1>6, <1>10, <2>1 DEF Fresh
  <2>3. Fresh(fetched, k)'
    BY <1>1, <1>10, <2>1 DEF Fresh
  <2>4. QED
    BY <1>1, <1>10, <1>11, <2>2, <2>3 DEF Sound, Agree, Landed, Batches
<1>12. QED
  BY <1>1, <1>9, <1>10, <1>11 DEF CatalogInv

\* It is loaded, whatever has been committed since.
LEMMA CatalogLoadsKeeps ==
  ASSUME NEW k \in {"aisle", "type"}, CatalogInv(k), CatalogLoads(k) PROVE CatalogInv(k)'
<1>1. /\ planned # NotFetched /\ fetched' = NotFetched /\ planned' = NotFetched /\ UNCHANGED <<cloud, call, budget, disk>>
      /\ undone' = (undone \/ Undoes(k)) /\ buffer' = Unlike(disk, Topped(buffer, planned))
  BY DEF CatalogLoads
<1>3. /\ DOMAIN store = Kind /\ k \in Kind /\ store = [l \in Kind |-> store[l]]
      /\ Table(planned, k) /\ Table(disk, k) /\ Table(buffer, k) /\ undone \in BOOLEAN
  BY <1>1 DEF CatalogInv, CatalogTyped, Kind
<1>4. store' = [store EXCEPT ![k] = planned]
  BY DEF CatalogLoads
<1>5. store'[k] = planned /\ DOMAIN store' = Kind /\ store' = [l \in Kind |-> store'[l]]
  BY <1>3, <1>4
<1>6. Table(buffer', k)
  BY <1>1, <1>3 DEF Table, Topped, Unlike
<1>7. CatalogTyped(k)'
  <2>1. undone' \in BOOLEAN
    BY <1>1, <1>3 DEF Undoes
  <2>2. QED
    BY <1>1, <1>3, <1>5, <1>6, <2>1 DEF CatalogInv, CatalogTyped, CatalogCall, Batches, Counted
<1>8. OneInside' /\ (Undisturbed' <=> Undisturbed) /\ (\A u : Landing(u)' <=> Landing(u))
  BY <1>1 DEF CatalogInv, OneInside, Inside, Undisturbed, Landing, Batches
<1>9. ASSUME Undisturbed', ~undone' PROVE Sound(k)'
  <2>1. Sound(k) /\ ~Undoes(k)
    BY <1>1, <1>3, <1>8, <1>9 DEF CatalogInv
  <2>2. ASSUME NEW u, ~Landing(u) PROVE Agree(k, u)'
    <3>1. Agree(k, u)
      BY <2>1, <2>2 DEF Sound
    <3>2. u \in DOMAIN planned => u \in DOMAIN cloud[k]
      <4>1. SUFFICES ASSUME u \in DOMAIN planned, u \notin DOMAIN cloud[k] PROVE FALSE
        OBVIOUS
      <4>2. PICK c \in Caller : call[c].at = "commits" /\ u \in Head(call[c].batches).drop
        BY <2>1, <4>1 DEF Undoes
      <4>3. One(Batches(c))
        BY <4>2 DEF CatalogInv, CatalogTyped, CatalogCall, CatalogCourse, Idle
      <4>4. Landing(u)
        BY <4>2, <4>3, OneBatch DEF Landing, Batches
      <4>5. QED
        BY <2>2, <4>4
    <3>3. ASSUME u \in DOMAIN cloud[k] PROVE u \in DOMAIN planned /\ planned[u] = cloud[k][u]
      <4>1. CASE u \in shielded
        BY <2>1, <3>1, <3>3, <4>1 DEF Undoes, Agree, Known
      <4>2. CASE u \notin shielded
        BY <1>1, <2>1, <2>2, <3>3, <4>2 DEF Sound, Fresh
      <4>3. QED
        BY <4>1, <4>2
    <3>4. QED
      BY <1>1, <1>5, <3>2, <3>3 DEF Agree
  <2>3. QED
    BY <1>1, <1>8, <2>1, <2>2 DEF Sound, Fresh, Landed, Batches
<1>10. QED
  BY <1>7, <1>8, <1>9 DEF CatalogInv

\* The cycle flushes the cache.
LEMMA CatalogFlushesKeeps ==
  ASSUME NEW k \in {"aisle", "type"}, CatalogInv(k), CatalogFlushes PROVE CatalogInv(k)'
<1>1. disk' = Cached /\ buffer' = NoRows /\ UNCHANGED <<cloud, store, call, budget, shielded, fetched, planned, undone>>
  BY DEF CatalogFlushes, toolVars
<1>2. Table(disk', k) /\ Table(buffer', k)
  BY <1>1 DEF CatalogInv, CatalogTyped, Cached, Topped, Table, NoRows
<1>3. CatalogTyped(k)' /\ OneInside' /\ (Sound(k)' <=> Sound(k)) /\ (Undisturbed' <=> Undisturbed)
  <2>1. CatalogTyped(k)'
    BY <1>1, <1>2 DEF CatalogInv, CatalogTyped, CatalogCall, Batches, Counted
  <2>2. OneInside' /\ (Sound(k)' <=> Sound(k)) /\ (Undisturbed' <=> Undisturbed)
    BY <1>1 DEF CatalogInv, OneInside, Inside, Sound, Fresh, Landing, Agree, Landed, Batches, Undisturbed
  <2>3. QED
    BY <2>1, <2>2
<1>4. QED
  BY <1>1, <1>3 DEF CatalogInv

\* The process restarts.
LEMMA CatalogRestartsKeeps ==
  ASSUME NEW k \in {"aisle", "type"}, CatalogInv(k), CatalogRestarts(k) PROVE CatalogInv(k)'
<1>1. /\ call' = [c \in Caller |-> Idle] /\ store' = [store EXCEPT ![k] = disk]
      /\ fetched' = NotFetched /\ planned' = NotFetched /\ buffer' = NoRows /\ UNCHANGED <<cloud, disk, undone>>
  BY DEF CatalogRestarts
<1>4. DOMAIN store = Kind /\ k \in Kind /\ store = [l \in Kind |-> store[l]] /\ Table(disk, k) /\ Counted
  BY DEF CatalogInv, CatalogTyped, Kind
<1>5. DOMAIN store' = Kind /\ store' = [l \in Kind |-> store'[l]] /\ store'[k] = disk
  BY <1>1, <1>4
<1>6. Table(buffer', k)
  BY <1>1 DEF Table, NoRows
<1>7. \A c \in Caller : call'[c] = Idle /\ ~Inside(c)'
  BY <1>1 DEF Inside, Idle
<1>8. Counted' /\ (Undisturbed' => Undisturbed /\ disk = store[k] /\ \A c \in Caller : call[c].at # "commits")
  <2>1. CASE disk # store[k] \/ \E c \in Caller : call[c].at = "commits"
    BY <1>4, <2>1, SpendsCounted DEF CatalogRestarts
  <2>2. CASE ~(disk # store[k] \/ \E c \in Caller : call[c].at = "commits")
    <3>1. UNCHANGED budget
      BY <2>2 DEF CatalogRestarts
    <3>2. QED
      BY <1>4, <2>2, <3>1 DEF Counted, Undisturbed
  <2>3. QED
    BY <2>1, <2>2
<1>9. CatalogTyped(k)'
  BY <1>1, <1>4, <1>5, <1>6, <1>7, <1>8 DEF CatalogInv, CatalogTyped, CatalogCall
<1>10. OneInside' /\ \A u : ~Landing(u)'
  BY <1>7 DEF OneInside, Landing, Inside
<1>11. ASSUME Undisturbed', ~undone' PROVE Sound(k)'
  <2>1. Sound(k) /\ disk = store[k] /\ \A u : ~Landing(u)
    BY <1>1, <1>8, <1>11 DEF CatalogInv, Landing
  <2>2. \A u : Agree(k, u)'
    BY <1>1, <1>5, <2>1 DEF Sound, Agree
  <2>3. QED
    BY <1>1, <1>7, <2>1, <2>2 DEF Sound, Fresh, Inside
<1>12. QED
  BY <1>9, <1>10, <1>11 DEF CatalogInv

\* Another device deletes an entry.
LEMMA CatalogRemoteKeeps ==
  ASSUME NEW k \in {"aisle", "type"}, CatalogInv(k), CatalogRemote(k) PROVE CatalogInv(k)'
<1>1. PICK u \in DOMAIN cloud[k] : Remote(Drop(k, {u})) /\ UNCHANGED catalogVars
  BY DEF CatalogRemote
<1>2. PICK b : b = Drop(k, {u})
  OBVIOUS
<1>3. b.kind = k /\ DOMAIN b.put = {}
  BY <1>2 DEF Drop, Batch, NoRows
<1>4. cloud' = Applied(cloud, b) /\ UNCHANGED <<store, call, disk, buffer, fetched, planned, undone>> /\ Counted' /\ ~Undisturbed'
  BY <1>1, <1>2, SpendsCounted DEF Remote, catalogVars, CatalogInv, CatalogTyped
<1>5. DOMAIN cloud = Kind /\ k \in Kind /\ cloud = [l \in Kind |-> cloud[l]] /\ Table(cloud[k], k)
  BY DEF CatalogInv, CatalogTyped, Kind
<1>6. /\ DOMAIN cloud' = Kind /\ cloud' = [l \in Kind |-> cloud'[l]] /\ cloud'[k] = Over(cloud[k], b)
      /\ \A l \in {"aisle", "type"} \ {k} : DOMAIN cloud'[l] = {}
  <2>1. \A l \in {"aisle", "type"} \ {k} : l \in Kind /\ DOMAIN cloud[l] = {}
    BY DEF CatalogInv, CatalogTyped, Kind
  <2>2. QED
    BY <1>3, <1>4, <1>5, <2>1 DEF Applied, Over
<1>7. Table(cloud'[k], k)
  BY <1>3, <1>5, <1>6 DEF Over, Table
<1>8. CatalogTyped(k)' /\ OneInside'
  BY <1>4, <1>6, <1>7 DEF CatalogInv, CatalogTyped, CatalogCall, Batches, OneInside, Inside
<1>9. QED
  BY <1>4, <1>8 DEF CatalogInv

----------------------------------------------------------------------------
\* The beginnings of a call.

\* A new entry's position is past all others.
LEMMA NextPosPast ==
  ASSUME NEW k \in {"aisle", "type"}, Table(store[k], k)
  PROVE  NextPos(k) \in Nat /\ \A u \in Known(k) : store[k][u].pos < NextPos(k)
<1> DEFINE P == {store[k][u].pos : u \in Known(k)}
<1>1. P \subseteq Nat /\ (\A u \in Known(k) : store[k][u].pos \in P)
  BY DEF Table, CatalogRow, Known
<1>2. CASE Known(k) = {}
  BY <1>2 DEF NextPos
<1>3. CASE Known(k) # {}
  <2>1. IsFiniteSet(Known(k))
    BY CatalogsAssumption, FS_Subset DEF Table, Known
  <2>2. IsFiniteSet(P) /\ P # {}
    <3>1. PICK f : f = [u \in Known(k) |-> store[k][u].pos]
      OBVIOUS
    <3>2. f \in Surjection(Known(k), P)
      <4>1. f \in [Known(k) -> P]
        BY <3>1
      <4>2. \A p \in P : \E u \in Known(k) : f[u] = p
        BY <3>1
      <4>3. QED
        BY <4>1, <4>2 DEF Surjection
    <3>3. IsFiniteSet(P)
      BY <2>1, <3>2, FS_Surjection
    <3>4. QED
      BY <1>1, <1>3, <3>3
  <2>3. PICK m \in P : \A n \in P : n <= m
    BY <1>1, <2>2, Greatest
  <2>4. \A u \in Known(k) : store[k][u].pos <= m
    BY <1>1, <2>3
  <2>5. PICK p : p = CHOOSE x \in P : \A u \in Known(k) : store[k][u].pos <= x
    OBVIOUS
  <2>6. p \in P /\ \A u \in Known(k) : store[k][u].pos <= p
    BY <2>4, <2>5
  <2>7. NextPos(k) = 1 + p
    BY <1>3, <2>5 DEF NextPos
  <2>8. p \in Nat /\ \A u \in Known(k) : store[k][u].pos \in Nat
    BY <1>1, <2>6
  <2>9. QED
    BY <2>6, <2>7, <2>8
<1>4. QED
  BY <1>2, <1>3

\* A call begins to wait for the lock, with a name to create or a row to delete.
LEMMA CatalogAsks ==
  ASSUME NEW k \in {"aisle", "type"}, CatalogInv(k), NEW c \in Caller, NEW op, NEW bs, Asks(c, op, bs),
         CatalogCourse(op, "asks", bs, k), UNCHANGED catalogVars
  PROVE  CatalogInv(k)'
<1>1. /\ call[c] = Idle /\ UNCHANGED <<cloud, store, shielded, disk, buffer, fetched, planned, undone>>
      /\ call' = [call EXCEPT ![c] = [op |-> op, at |-> "asks", batches |-> bs]]
  BY DEF Asks, Start, catalogVars
<1>2. Counted' /\ (Undisturbed' => Undisturbed)
  BY SpendsCounted DEF Asks, Start, CatalogInv, CatalogTyped
<1>3. call'[c] = [op |-> op, at |-> "asks", batches |-> bs]
  BY <1>1 DEF CatalogInv, CatalogTyped
<1>4. ~Inside(c) /\ ~Inside(c)' /\ CatalogCall(c, k)'
  BY <1>1, <1>3 DEF Inside, Idle, CatalogCall, Batches
<1>5. QED
  BY <1>1, <1>2, <1>4, OutsideKeeps

\* The name is not there.
LEMMA EnsureKeeps ==
  ASSUME NEW k \in {"aisle", "type"}, CatalogInv(k), NEW c \in Caller, Ensure(c, k), UNCHANGED catalogVars
  PROVE  CatalogInv(k)'
<1>1. PICK n \in CatalogName : Asks(c, n, <<>>)
  BY DEF Ensure
<1>2. CatalogCourse(n, "asks", <<>>, k)
  BY DEF CatalogCourse
<1>3. QED
  BY <1>1, <1>2, CatalogAsks

\* A deletion is put to the user.
LEMMA DeleteKeeps ==
  ASSUME NEW k \in {"aisle", "type"}, CatalogInv(k), NEW c \in Caller, NEW u, Asks(c, "delete", <<Drop(k, {u})>>),
         UNCHANGED catalogVars
  PROVE  CatalogInv(k)'
<1>1. PICK b : b = Drop(k, {u})
  OBVIOUS
<1>2. Change(b, k) /\ DOMAIN b.put = {}
  <2>1. b.kind = k /\ b.put = NoRows
    BY <1>1 DEF Drop, Batch
  <2>2. DOMAIN b.put = {} /\ b.put = [v \in DOMAIN b.put |-> b.put[v]]
    BY <2>1 DEF NoRows
  <2>3. QED
    BY <2>1, <2>2 DEF Change, Table
<1>3. CatalogCourse("delete", "asks", <<b>>, k)
  BY <1>2 DEF CatalogCourse, One
<1>4. QED
  BY <1>1, <1>3, CatalogAsks

\* A call that waits ends.
LEMMA CatalogEnds ==
  ASSUME NEW k \in {"aisle", "type"}, CatalogInv(k), NEW c \in Caller, call[c].at = "asks",
         call' = [call EXCEPT ![c] = Idle], UNCHANGED <<cloud, store, budget>>, UNCHANGED catalogVars
  PROVE  CatalogInv(k)'
<1>1. Counted' /\ (Undisturbed' => Undisturbed)
  BY DEF CatalogInv, CatalogTyped, Counted, Undisturbed
<1>2. call'[c] = Idle
  BY DEF CatalogInv, CatalogTyped
<1>3. ~Inside(c) /\ ~Inside(c)' /\ CatalogCall(c, k)'
  BY <1>2 DEF Inside, Idle, CatalogCall
<1>4. UNCHANGED <<cloud, store, shielded, disk, buffer, fetched, planned, undone>>
  BY DEF catalogVars
<1>5. QED
  BY <1>1, <1>3, <1>4, OutsideKeeps

\* Under the lock, a name that is still missing gets the next position.
LEMMA EnsureLockedKeeps ==
  ASSUME NEW k \in {"aisle", "type"}, CatalogInv(k), NEW c \in Caller, EnsureLocked(c, k), UNCHANGED catalogVars
  PROVE  CatalogInv(k)'
<1>1. PICK n \in CatalogName :
        /\ call[c].at = "asks" /\ call[c].op = n /\ ~Locked
        /\ Enough(k, {n})
        /\ call' = [call EXCEPT ![c] =
                 IF StillMissing(k, n)
                 THEN [op |-> n, at |-> "saves",
                       batches |-> <<Put(k, NewRows(k, {n}, LAMBDA m : [name |-> m, pos |-> NextPos(k), builtin |-> FALSE]))>>]
                 ELSE Idle]
        /\ UNCHANGED <<cloud, store, budget>>
  BY DEF EnsureLocked
<1>2. CASE ~StillMissing(k, n)
  BY <1>1, <1>2, CatalogEnds
<1>3. CASE StillMissing(k, n)
  <2>1. PICK f : f = Minted(k, {n})
    OBVIOUS
  <2>2. PICK w : w = f[n]
    OBVIOUS
  <2>3. w \in Slot[k] /\ w \notin DOMAIN cloud[k]
    BY <1>1, <2>1, <2>2, MintedFree DEF Free, Uids
  <2>4. PICK p : p = NextPos(k)
    OBVIOUS
  <2>5. Table(store[k], k) /\ Table(cloud[k], k)
    BY DEF CatalogInv, CatalogTyped
  <2>6. p \in Nat /\ \A u \in DOMAIN store[k] : store[k][u].pos < p
    BY <2>4, <2>5, NextPosPast DEF Known
  <2>7. PICK rows : rows = [u \in {w} |-> [name |-> n, pos |-> p, builtin |-> FALSE]]
    OBVIOUS
  <2>8. NewRows(k, {n}, LAMBDA m : [name |-> m, pos |-> NextPos(k), builtin |-> FALSE]) = rows
    <3>1. {f[x] : x \in {n}} = {w}
      BY <2>2
    <3>2. (CHOOSE x \in {n} : f[x] = w) = n
      BY <2>2
    <3>3. QED
      BY <2>1, <2>4, <2>7, <3>1, <3>2 DEF NewRows
  <2>9. PICK b : b = Put(k, rows)
    OBVIOUS
  <2>10. b.kind = k /\ b.put = rows /\ b.drop = {}
    BY <2>9 DEF Put, Batch
  <2>11. /\ DOMAIN rows = {w} /\ rows = [u \in DOMAIN rows |-> rows[u]]
         /\ rows[w].name = n /\ rows[w].pos = p /\ rows[w] \in CatalogRow
    BY <2>6, <2>7 DEF CatalogRow
  <2>12. Change(b, k)
    BY <2>3, <2>10, <2>11 DEF Change, Table
  <2>13. ASSUME Calm PROVE Apart(Over(cloud[k], b))
    <3>1. store[k] = cloud[k] /\ Apart(cloud[k])
      BY <1>1, <2>13, QuietSame
    <3>2. \A u \in DOMAIN cloud[k] : cloud[k][u].name # n /\ cloud[k][u].pos # p
      <4>1. \A u \in DOMAIN cloud[k] : cloud[k][u].name # n
        BY <1>3, <3>1 DEF StillMissing, Named, Known
      <4>2. \A u \in DOMAIN cloud[k] : cloud[k][u].pos \in Nat /\ cloud[k][u].pos < p
        BY <2>5, <2>6, <3>1 DEF Table, CatalogRow
      <4>3. QED
        BY <2>6, <4>1, <4>2
    <3>3. PICK all : all = Over(cloud[k], b)
      OBVIOUS
    <3>4. /\ DOMAIN all = {w} \cup DOMAIN cloud[k] /\ all[w] = rows[w]
          /\ \A u \in DOMAIN cloud[k] : all[u] = cloud[k][u]
      BY <2>3, <2>10, <2>11, <3>3 DEF Over
    <3>5. Apart(all)
      BY <2>11, <3>1, <3>2, <3>4 DEF Apart
    <3>6. QED
      BY <3>3, <3>5
  <2>14. call' = [call EXCEPT ![c] = [op |-> n, at |-> "saves", batches |-> <<b>>]]
    BY <1>1, <1>3, <2>8, <2>9
  <2>15. Counted' /\ (Undisturbed' => Undisturbed)
    BY <1>1 DEF CatalogInv, CatalogTyped, Counted, Undisturbed
  <2>16. n \in Op /\ ~Locked /\ UNCHANGED <<cloud, store, shielded, disk, buffer, fetched, planned, undone>>
    BY <1>1 DEF Op, catalogVars
  <2>17. QED
    BY <2>12, <2>13, <2>14, <2>15, <2>16, InsideKeeps
<1>4. QED
  BY <1>2, <1>3

\* A change of name or place leaves names and positions apart, if they were.
LEMMA UpdatedApart ==
  ASSUME NEW k \in {"aisle", "type"}, Table(store[k], k), NEW u \in Known(k), NEW n \in CatalogName, NEW row,
         row = [store[k][u] EXCEPT !.name = n], n # store[k][u].name => Named(k, n) = {},
         NEW rows \in {[store[k] EXCEPT ![u] = row]} \cup {Repositioned(store[k], u, row, place) : place \in 0..1}
  PROVE  Table(rows, k) /\ DOMAIN rows = DOMAIN store[k] /\ (Apart(store[k]) => Apart(rows))
<1>1. u \in DOMAIN store[k] /\ row \in CatalogRow /\ row.name = n /\ row.pos = store[k][u].pos
  BY DEF Known, Table, CatalogRow
<1>2. \A v \in DOMAIN store[k] \ {u} : Apart(store[k]) => store[k][v].name # n
  <2>1. CASE n = store[k][u].name
    BY <1>1, <2>1 DEF Apart
  <2>2. CASE n # store[k][u].name
    BY <2>2 DEF Named, Known
  <2>3. QED
    BY <2>1, <2>2
<1>3. CASE rows = [store[k] EXCEPT ![u] = row]
  <2>1. store[k] = [v \in DOMAIN store[k] |-> store[k][v]]
    BY DEF Table
  <2>2. DOMAIN rows = DOMAIN store[k] /\ rows[u] = row /\ \A v \in DOMAIN store[k] \ {u} : rows[v] = store[k][v]
    BY <1>1, <1>3, <2>1
  <2>3. Table(rows, k)
    BY <1>1, <1>3, <2>1, <2>2 DEF Table
  <2>4. ASSUME Apart(store[k]) PROVE Apart(rows)
    <3>1. \A v \in DOMAIN rows : rows[v].pos = store[k][v].pos
      BY <1>1, <2>2
    <3>2. ASSUME NEW v \in DOMAIN rows, NEW w \in DOMAIN rows, v # w PROVE rows[v].name # rows[w].name
      <4>1. CASE v = u \/ w = u
        BY <1>1, <1>2, <2>2, <2>4, <3>2, <4>1
      <4>2. CASE v # u /\ w # u
        BY <2>2, <2>4, <3>2, <4>2 DEF Apart
      <4>3. QED
        BY <4>1, <4>2
    <3>3. QED
      BY <2>2, <2>4, <3>1, <3>2 DEF Apart
  <2>5. QED
    BY <2>2, <2>3, <2>4
<1>4. CASE \E place \in 0..1 : rows = Repositioned(store[k], u, row, place)
  <2>1. PICK place \in Nat : rows = Repositioned(store[k], u, row, place)
    BY <1>4
  <2>2. PICK all : all = store[k]
    OBVIOUS
  <2>3. Table(all, k) /\ u \in DOMAIN all /\ row \in CatalogRow /\ rows = Repositioned(all, u, row, place)
    BY <1>1, <2>1, <2>2
  <2>4. Table(rows, k) /\ Rearranged(rows, all, u, n)
    <3>1. Table(rows, k) /\ Rearranged(rows, all, u, row.name)
      BY <2>3, RepositionedApart
    <3>2. QED
      BY <1>1, <3>1
  <2>5. ASSUME Apart(all) PROVE Apart(rows)
    <3>1. \A v, w \in DOMAIN all : v # w => rows[v].pos # rows[w].pos
      BY <2>4, <2>5 DEF Apart, Rearranged
    <3>2. \A v, w \in DOMAIN all : v # w => rows[v].name # rows[w].name
      BY <1>1, <1>2, <2>2, <2>4, <2>5 DEF Apart, Rearranged
    <3>3. QED
      BY <2>4, <3>1, <3>2 DEF Apart, Rearranged
  <2>6. QED
    BY <2>2, <2>4, <2>5 DEF Rearranged
<1>5. QED
  BY <1>3, <1>4

\* An entry is renamed or moved.
LEMMA UpdateKeeps ==
  ASSUME NEW k \in {"aisle", "type"}, CatalogInv(k), NEW c \in Caller, Update(c, k), UNCHANGED catalogVars
  PROVE  CatalogInv(k)'
<1>1. PICK u \in Known(k), n \in CatalogName :
        /\ ~Locked
        /\ n # store[k][u].name => Named(k, n) = {}
        /\ \E rows \in {[store[k] EXCEPT ![u] = [store[k][u] EXCEPT !.name = n]]}
                         \cup {Repositioned(store[k], u, [store[k][u] EXCEPT !.name = n], place) : place \in 0..1} :
             Does(c, "update", <<Put(k, OnlyChanged(k, rows))>>)
  BY DEF Update
<1>2. PICK row : row = [store[k][u] EXCEPT !.name = n]
  OBVIOUS
<1>3. PICK rows \in {[store[k] EXCEPT ![u] = row]} \cup {Repositioned(store[k], u, row, place) : place \in 0..1} :
        Does(c, "update", <<Put(k, OnlyChanged(k, rows))>>)
  BY <1>1, <1>2
<1>4. Table(store[k], k)
  BY DEF CatalogInv, CatalogTyped
<1>5. Table(rows, k) /\ DOMAIN rows = DOMAIN store[k] /\ (Apart(store[k]) => Apart(rows))
  BY <1>1, <1>2, <1>4, UpdatedApart
<1>6. PICK b : b = Put(k, OnlyChanged(k, rows))
  OBVIOUS
<1>7. /\ b.kind = k /\ b.drop = {}
      /\ b.put = [v \in {x \in DOMAIN rows : rows[x] # store[k][x]} |-> rows[v]]
  BY <1>6 DEF Put, Batch, OnlyChanged
<1>8. Change(b, k)
  BY <1>5, <1>7 DEF Change, Table
<1>9. ASSUME Calm PROVE Apart(Over(cloud[k], b))
  <2>1. store[k] = cloud[k] /\ Apart(cloud[k])
    BY <1>1, <1>9, QuietSame
  <2>2. PICK all : all = Over(cloud[k], b)
    OBVIOUS
  <2>3. DOMAIN all = DOMAIN rows /\ \A v \in DOMAIN rows : all[v] = rows[v]
    BY <1>5, <1>7, <2>1, <2>2 DEF Over
  <2>4. Apart(all)
    BY <1>5, <2>1, <2>3 DEF Apart
  <2>5. QED
    BY <2>2, <2>4
<1>10. call[c] = Idle /\ Spends("calls") /\ UNCHANGED <<cloud, store>>
       /\ call' = [call EXCEPT ![c] = [op |-> "update", at |-> "saves", batches |-> <<b>>]]
  BY <1>3, <1>6 DEF Does, Start
<1>11. Counted' /\ (Undisturbed' => Undisturbed)
  BY <1>10, SpendsCounted DEF CatalogInv, CatalogTyped
<1>12. "update" \in Op /\ ~Locked /\ UNCHANGED <<shielded, disk, buffer, fetched, planned, undone>>
  BY <1>1 DEF Op, catalogVars
<1>13. QED
  BY <1>8, <1>9, <1>10, <1>11, <1>12, InsideKeeps

\* Under the lock, a deletion goes on if the row is still there.
LEMMA DeleteLockedKeeps ==
  ASSUME NEW k \in {"aisle", "type"}, CatalogInv(k), NEW c \in Caller, DeleteLocked(c, k), UNCHANGED catalogVars
  PROVE  CatalogInv(k)'
<1>1. /\ call[c].at = "asks" /\ call[c].op = "delete" /\ ~Locked
      /\ UNCHANGED <<cloud, store, budget>> /\ UNCHANGED <<shielded, disk, buffer, fetched, planned, undone>>
  BY DEF DeleteLocked, catalogVars
<1>2. CASE call' = [call EXCEPT ![c] = Idle]
  BY <1>1, <1>2, CatalogEnds
<1>3. CASE call' = [call EXCEPT ![c] = [call[c] EXCEPT !.at = "saves"]]
  <2>1. /\ call[c] = [op |-> call[c].op, at |-> call[c].at, batches |-> Batches(c)]
        /\ One(Batches(c)) /\ Change(Batches(c)[1], k) /\ DOMAIN Batches(c)[1].put = {}
    BY <1>1, CatalogsAssumption DEF CatalogInv, CatalogTyped, CatalogCall, CatalogCourse, Idle
  <2>2. PICK b : b = Batches(c)[1]
    OBVIOUS
  <2>3. call' = [call EXCEPT ![c] = [op |-> "delete", at |-> "saves", batches |-> <<b>>]]
    <3>1. call[c] = [op |-> "delete", at |-> "asks", batches |-> <<b>>]
      BY <1>1, <2>1, <2>2 DEF One
    <3>2. [call[c] EXCEPT !.at = "saves"] = [op |-> "delete", at |-> "saves", batches |-> <<b>>]
      BY <3>1
    <3>3. QED
      BY <1>3, <3>2
  <2>4. ASSUME Calm PROVE Apart(Over(cloud[k], b))
    BY <1>1, <2>1, <2>2, <2>4, QuietSame DEF Apart, Over
  <2>5. Counted' /\ (Undisturbed' => Undisturbed)
    BY <1>1 DEF CatalogInv, CatalogTyped, Counted, Undisturbed
  <2>6. "delete" \in Op /\ Change(b, k)
    BY <2>1, <2>2 DEF Op
  <2>7. QED
    BY <1>1, <2>3, <2>4, <2>5, <2>6, InsideKeeps
<1>4. QED
  BY <1>2, <1>3 DEF DeleteLocked

----------------------------------------------------------------------------
\* The theorems.

\* The invariant holds at the start.
LEMMA CatalogStarts ==
  ASSUME NEW k \in {"aisle", "type"}, CatalogsInit(k), ToolCallsInit(MaxCalls)
  PROVE  CatalogInv(k)
<1>1. PICK n \in CatalogName : n = CHOOSE x \in CatalogName : TRUE
  BY CatalogsAssumption
<1>2. PICK rows : rows = [u \in {1} |-> [name |-> n, pos |-> 0, builtin |-> (k = "type")]]
  OBVIOUS
<1>3. cloud = [Empty EXCEPT ![k] = rows] /\ store = cloud /\ disk = cloud[k] /\ buffer = NoRows /\ fetched = NotFetched /\ planned = NotFetched /\ ~undone /\ undone \in BOOLEAN
  BY <1>1, <1>2 DEF CatalogsInit, ToolCallsInit
<1>4. DOMAIN rows = {1} /\ rows = [u \in DOMAIN rows |-> rows[u]] /\ rows[1] \in CatalogRow
  BY <1>2 DEF CatalogRow
<1>5. Table(rows, k) /\ Apart(rows)
  BY <1>4, CatalogsAssumption DEF Table, Apart
<1>6. /\ k \in Kind /\ DOMAIN cloud = Kind /\ cloud = [l \in Kind |-> cloud[l]] /\ cloud[k] = rows
      /\ \A l \in {"aisle", "type"} \ {k} : DOMAIN cloud[l] = {}
  BY <1>3 DEF Kind, Empty, NoRows
<1>7. call = [c \in Caller |-> Idle] /\ Counted
  BY ToolCallsAssumption DEF ToolCallsInit, Counted
<1>8. \A c \in Caller : CatalogCall(c, k) /\ ~Inside(c)
  BY <1>7 DEF CatalogCall, Inside, Idle
<1>12. Table(buffer, k)
  BY <1>3 DEF Table, NoRows
<1>9. CatalogTyped(k)
  BY <1>3, <1>5, <1>6, <1>7, <1>8, <1>12 DEF CatalogTyped
<1>10. OneInside /\ Sound(k)
  BY <1>3, <1>5, <1>6, <1>8 DEF OneInside, Sound, Fresh, Agree, Inside
<1>11. QED
  BY <1>9, <1>10 DEF CatalogInv

\* Every step preserves it.
LEMMA CatalogSteps ==
  ASSUME NEW k \in {"aisle", "type"}, CatalogInv(k), [CatalogsNext(k)]_<<toolVars, catalogVars>>
  PROVE  CatalogInv(k)'
<1>1. CASE UNCHANGED <<toolVars, catalogVars>>
  <2>1. UNCHANGED <<cloud, store, call, budget, shielded, disk, buffer, fetched, planned, undone>>
    BY <1>1 DEF toolVars, catalogVars
  <2>2. CatalogTyped(k)' /\ OneInside' /\ (Sound(k)' <=> Sound(k))
    BY <2>1 DEF CatalogInv, CatalogTyped, CatalogCall, Batches, Counted, OneInside, Inside, Sound, Fresh, Landing, Agree, Landed
  <2>3. QED
    BY <2>1, <2>2 DEF CatalogInv, Undisturbed
<1>2. ASSUME NEW c \in Caller, UNCHANGED catalogVars, k = "aisle", EnsureAisle(c) \/ UpdateAisle(c) \/ DeleteAisle(c)
      PROVE  CatalogInv(k)'
  BY <1>2, EnsureKeeps, UpdateKeeps, DeleteKeeps DEF EnsureAisle, UpdateAisle, DeleteAisle
<1>3. ASSUME NEW c \in Caller, UNCHANGED catalogVars, k = "type", EnsureMealType(c) \/ UpdateMealType(c) \/ DeleteMealType(c)
      PROVE  CatalogInv(k)'
  BY <1>3, EnsureKeeps, UpdateKeeps, DeleteKeeps DEF EnsureMealType, UpdateMealType, DeleteMealType
<1>4. ASSUME NEW c \in Caller, UNCHANGED catalogVars, EnsureLocked(c, k) \/ DeleteLocked(c, k) \/ Stops(c) \/ Saves(c)
      PROVE  CatalogInv(k)'
  <2>1. CASE Stops(c)
    BY <1>4, <2>1, CatalogEnds DEF Stops
  <2>2. QED
    BY <1>4, <2>1, EnsureLockedKeeps, DeleteLockedKeeps, CatalogSavesKeeps
<1>5. ASSUME NEW c \in Caller, CatalogCommits(c) PROVE CatalogInv(k)'
  BY <1>5, CatalogCommitsKeeps
<1>6. CASE CatalogFetches(k) \/ CatalogReads \/ CatalogLoads(k) \/ CatalogFlushes \/ CatalogRestarts(k) \/ CatalogRemote(k)
  BY <1>6, CatalogFetchesKeeps, CatalogReadsKeeps, CatalogLoadsKeeps, CatalogFlushesKeeps, CatalogRestartsKeeps,
     CatalogRemoteKeeps
<1>7. QED
  BY <1>1, <1>2, <1>3, <1>4, <1>5, <1>6 DEF CatalogsNext

\* While nothing is missed and no load takes a commit back, a save past the lock can only keep names and
\* positions apart: outside the lock store and Paprika are the same (aisle/module.ts, meal-type/module.ts).
THEOREM CatalogInvariant ==
  \A k \in {"aisle", "type"} : CatalogsSpec(k) => []CatalogInv(k)
<1> SUFFICES ASSUME NEW k \in {"aisle", "type"} PROVE CatalogsSpec(k) => []CatalogInv(k)
  OBVIOUS
<1>1. CatalogsInit(k) /\ ToolCallsInit(MaxCalls) => CatalogInv(k)
  BY CatalogStarts
<1>2. CatalogInv(k) /\ [CatalogsNext(k)]_<<toolVars, catalogVars>> => CatalogInv(k)'
  BY CatalogSteps
<1>3. QED
  BY <1>1, <1>2, PTL DEF CatalogsSpec

\* No two entries of the catalog at Paprika share a name or a position, for as long as the store has
\* missed nothing and no load has taken back what a call committed since (aisle/sync.ts, meal-type/sync.ts).
THEOREM CatalogWholeHolds ==
  \A k \in {"aisle", "type"} : CatalogsSpec(k) => []CatalogWhole
<1> SUFFICES ASSUME NEW k \in {"aisle", "type"} PROVE CatalogsSpec(k) => []CatalogWhole
  OBVIOUS
<1>1. CatalogInv(k) => CatalogWhole
  BY DEF CatalogInv, CatalogWhole, Sound, Apart, CatalogTyped
<1>2. CatalogsSpec(k) => []CatalogInv(k)
  BY CatalogInvariant
<1>3. QED
  BY <1>1, <1>2, PTL

----------------------------------------------------------------------------
\* MENUS AND CATEGORIES. One call at a time.

\* The rows of every kind are a table.
Tabular(rows) == /\ rows = [k \in Kind |-> rows[k]]
                 /\ \A k \in Kind : rows[k] = [u \in DOMAIN rows[k] |-> rows[k][u]]

\* What the menu tools keep whole, and what the recipe tools do.
Spans(rows) ==
  /\ \A m \in DOMAIN rows["menu"] : "days" \in DOMAIN rows["menu"][m] /\ rows["menu"][m].days \in Nat
  /\ \A u \in DOMAIN rows["menuItem"] :
       LET item == rows["menuItem"][u] IN
       /\ {"menu", "day"} \subseteq DOMAIN item
       /\ item.menu \in DOMAIN rows["menu"]
       /\ item.day \in Nat /\ item.day <= rows["menu"][item.menu].days
Tree(rows) ==
  /\ Top \notin DOMAIN rows["category"]
  /\ \A k \in DOMAIN rows["category"] : rows["category"][k].parent \in DOMAIN rows["category"] \cup {Top}
  /\ \A S \in (SUBSET DOMAIN rows["category"]) \ {{}} : \E k \in S : rows["category"][k].parent \notin S
Files(rows) == \A r \in DOMAIN rows["recipe"] : /\ "cats" \in DOMAIN rows["recipe"][r]
                                                /\ rows["recipe"][r].cats \subseteq DOMAIN rows["category"]
Whole(rows) == Spans(rows) /\ Tree(rows) /\ Files(rows)

\* One batch or two: Paprika is whole after each.
Leads(rows, bs) == \/ One(bs) /\ bs[1].kind \in Kind /\ Whole(Applied(rows, bs[1]))
                   \/ /\ Two(bs) /\ bs[1].kind \in Kind /\ bs[2].kind \in Kind
                      /\ Whole(Applied(rows, bs[1])) /\ Whole(Applied(Applied(rows, bs[1]), bs[2]))
\* A call, and what store and Paprika have of it: before a save they are the same, after it all that the store lacks is the batch.
Underway(c) ==
  \/ call[c] = Idle
  \/ /\ call[c] = [op |-> call[c].op, at |-> call[c].at, batches |-> Batches(c)]
     /\ \/ call[c].at \in {"asks", "saves"} /\ Leads(cloud, Batches(c))
        \/ /\ call[c].at = "commits"
           /\ One(Batches(c)) \/ Two(Batches(c))
           /\ Batches(c)[1].kind \in Kind /\ cloud = Applied(store, Batches(c)[1])
           /\ Two(Batches(c)) => Leads(cloud, <<Batches(c)[2]>>)

Orderly == /\ DOMAIN call = Caller
           /\ Tabular(cloud) /\ Tabular(store)
           /\ Whole(cloud)
           /\ \A c, d \in Caller : call[c] # Idle /\ call[d] # Idle => c = d
           /\ \A c \in Caller : Underway(c)
           /\ (\A c \in Caller : call[c].at # "commits") => store = cloud
AloneInv == Counted /\ (Undisturbed => Orderly)

----------------------------------------------------------------------------
\* Batches over tables.

\* A batch changes the table of its kind.
Overlaid(new, old, b) == /\ Tabular(new)
                         /\ new[b.kind] = Over(old[b.kind], b)
                         /\ \A k \in Kind \ {b.kind} : new[k] = old[k]
\* What a batch does to tables is a table, and differs in one kind.
LEMMA AppliedTable ==
  ASSUME NEW rows, Tabular(rows), NEW b, b.kind \in Kind PROVE Overlaid(Applied(rows, b), rows, b)
<1>1. rows[b.kind] = [u \in DOMAIN rows[b.kind] |-> rows[b.kind][u]] /\ DOMAIN rows = Kind
  BY DEF Tabular
<1>2. Applied(rows, b) = [rows EXCEPT ![b.kind] = Over(rows[b.kind], b)]
  BY <1>1 DEF Applied, Over
<1>3. PICK t : t = Over(rows[b.kind], b)
  OBVIOUS
<1>4. t = [u \in DOMAIN t |-> t[u]]
  BY <1>3 DEF Over
<1>5. PICK all : all = [rows EXCEPT ![b.kind] = t]
  OBVIOUS
<1>6. DOMAIN all = Kind /\ all[b.kind] = t /\ \A k \in Kind \ {b.kind} : all[k] = rows[k]
  BY <1>1, <1>5
<1>7. all = [k \in Kind |-> all[k]]
  BY <1>1, <1>5
<1>8. Tabular(all)
  BY <1>4, <1>6, <1>7 DEF Tabular
<1>9. QED
  BY <1>2, <1>3, <1>5, <1>6, <1>8 DEF Overlaid

Brings(synced, old, new, k) == synced = [old EXCEPT ![k] = new[k]]

\* A sync in between brings nothing that the commit of a batch would not bring.
LEMMA SyncedTwice ==
  ASSUME NEW old, Tabular(old), NEW b, b.kind \in Kind, NEW k \in Kind, NEW new, new = Applied(old, b),
         NEW synced, Brings(synced, old, new, k)
  PROVE  new = Applied(synced, b) /\ Tabular(synced)
<1>1. /\ Tabular(new) /\ new[b.kind] = Over(old[b.kind], b)
      /\ \A l \in Kind \ {b.kind} : new[l] = old[l]
  BY AppliedTable DEF Overlaid
<1>2. /\ DOMAIN synced = Kind /\ synced[k] = new[k] /\ \A l \in Kind \ {k} : synced[l] = old[l]
      /\ synced = [l \in Kind |-> synced[l]]
  BY DEF Tabular, Brings
<1>3. Tabular(synced)
  BY <1>1, <1>2 DEF Tabular
<1>4. PICK again : again = Applied(synced, b)
  OBVIOUS
<1>5. Overlaid(again, synced, b)
  BY <1>3, <1>4, AppliedTable
<1>6. Over(synced[b.kind], b) = new[b.kind]
  <2>1. CASE k = b.kind
    <3>1. PICK t : t = old[b.kind]
      OBVIOUS
    <3>2. Over(Over(t, b), b) = Over(t, b)
      BY DEF Over
    <3>3. QED
      BY <1>1, <1>2, <2>1, <3>1, <3>2
  <2>2. CASE k # b.kind
    BY <1>1, <1>2, <2>2
  <2>3. QED
    BY <2>1, <2>2
<1>7. \A l \in Kind : again[l] = new[l]
  BY <1>1, <1>2, <1>5, <1>6 DEF Overlaid
<1>8. again = new
  BY <1>1, <1>5, <1>7 DEF Overlaid, Tabular
<1>9. QED
  BY <1>3, <1>4, <1>8

----------------------------------------------------------------------------
\* The steps of a call.

\* A call that is under way is the only one: after a step of it the others are idle still.
LEMMA OthersIdle ==
  ASSUME Orderly, NEW c \in Caller, call[c] # Idle, NEW new, call' = [call EXCEPT ![c] = new]
  PROVE  /\ DOMAIN call' = Caller /\ call'[c] = new
         /\ \A d \in Caller \ {c} : call[d] = Idle /\ call'[d] = Idle /\ Underway(d)'
         /\ \A d, e \in Caller : call'[d] # Idle /\ call'[e] # Idle => d = e
<1>1. DOMAIN call' = Caller /\ call'[c] = new /\ \A d \in Caller \ {c} : call[d] = Idle /\ call'[d] = Idle
  BY DEF Orderly
<1>2. QED
  BY <1>1 DEF Underway

\* A call that ends leaves store and Paprika the same.
LEMMA AloneEnds ==
  ASSUME Orderly, NEW c \in Caller, call[c] # Idle, call' = [call EXCEPT ![c] = Idle], UNCHANGED cloud,
         store' = cloud
  PROVE  Orderly'
<1>1. /\ DOMAIN call' = Caller /\ call'[c] = Idle
      /\ \A d \in Caller \ {c} : call'[d] = Idle /\ Underway(d)'
      /\ \A d, e \in Caller : call'[d] # Idle /\ call'[e] # Idle => d = e
  BY OthersIdle
<1>2. Tabular(cloud') /\ Tabular(store') /\ Whole(cloud') /\ store' = cloud'
  BY DEF Orderly
<1>3. QED
  BY <1>1, <1>2 DEF Orderly, Underway

\* A call whose batches lead Paprika from one whole state to another begins, or goes on to save them.
LEMMA AloneGoesOn ==
  ASSUME Orderly, NEW c \in Caller, \A d \in Caller \ {c} : call[d] = Idle, store = cloud,
         NEW op, NEW at \in {"asks", "saves"}, NEW bs, Leads(cloud, bs),
         call' = [call EXCEPT ![c] = [op |-> op, at |-> at, batches |-> bs]], UNCHANGED <<cloud, store>>
  PROVE  Orderly'
<1>1. /\ DOMAIN call' = Caller /\ call'[c] = [op |-> op, at |-> at, batches |-> bs]
      /\ \A d \in Caller \ {c} : call'[d] = Idle
  BY DEF Orderly
<1>2. Batches(c)' = bs
  BY <1>1 DEF Batches
<1>3. Underway(c)'
  BY <1>1, <1>2 DEF Underway
<1>4. \A d \in Caller \ {c} : Underway(d)'
  BY <1>1 DEF Underway
<1>5. Tabular(cloud') /\ Tabular(store') /\ Whole(cloud') /\ store' = cloud'
  BY DEF Orderly
<1>6. QED
  BY <1>1, <1>3, <1>4, <1>5 DEF Orderly

\* A save reaches Paprika, fails, or loses its answer.
LEMMA AloneSaves ==
  ASSUME AloneInv, NEW c \in Caller, Saves(c) PROVE AloneInv'
<1>1. Counted /\ call[c].at = "saves" /\ call[c] # Idle /\ UNCHANGED store
  BY DEF AloneInv, Saves, Idle
<1>2. CASE Accepted(c) /\ call' = [call EXCEPT ![c].at = "commits"] /\ UNCHANGED budget
  <2>1. Counted' /\ (Undisturbed' => Undisturbed)
    BY <1>1, <1>2 DEF Counted, Undisturbed
  <2>2. ASSUME Orderly PROVE Orderly'
    <3>1. PICK b : b = Batches(c)[1]
      OBVIOUS
    <3>2. /\ call[c] = [op |-> call[c].op, at |-> call[c].at, batches |-> Batches(c)]
          /\ Leads(cloud, Batches(c)) /\ store = cloud
      <4>1. Underway(c) /\ \A d \in Caller : call[d].at # "commits"
        BY <1>1, <2>2 DEF Orderly, Idle
      <4>2. store = cloud
        BY <2>2, <4>1 DEF Orderly
      <4>3. QED
        BY <1>1, <4>1, <4>2 DEF Underway
    <3>3. /\ b.kind \in Kind /\ Whole(Applied(cloud, b)) /\ Head(call[c].batches) = b
          /\ One(Batches(c)) \/ Two(Batches(c))
      BY <3>1, <3>2, OneBatch, TwoBatches DEF Leads, Batches
    <3>4. cloud' = Applied(cloud, b) /\ Tabular(cloud')
      BY <1>2, <2>2, <3>3, AppliedTable DEF Accepted, Orderly, Overlaid
    <3>5. call' = [call EXCEPT ![c] = [op |-> call[c].op, at |-> "commits", batches |-> Batches(c)]]
      <4>1. [call[c] EXCEPT !.at = "commits"] = [op |-> call[c].op, at |-> "commits", batches |-> Batches(c)]
        BY <3>2
      <4>2. call' = [call EXCEPT ![c] = [call[c] EXCEPT !.at = "commits"]]
        BY <1>2
      <4>3. QED
        BY <4>1, <4>2
    <3>6. /\ DOMAIN call' = Caller /\ call'[c] = [op |-> call[c].op, at |-> "commits", batches |-> Batches(c)]
          /\ \A d \in Caller \ {c} : call'[d] = Idle /\ Underway(d)'
          /\ \A d, e \in Caller : call'[d] # Idle /\ call'[e] # Idle => d = e
      BY <1>1, <2>2, <3>5, OthersIdle
    <3>7. Batches(c)' = Batches(c) /\ call'[c].at = "commits"
      BY <3>6 DEF Batches
    <3>8. Two(Batches(c)) => Leads(cloud', <<Batches(c)[2]>>)
      <4>1. ASSUME Two(Batches(c)) PROVE Leads(cloud', <<Batches(c)[2]>>)
        <5>1. ~One(Batches(c))
          BY <4>1 DEF One, Two
        <5>2. PICK e : e = Batches(c)[2]
          OBVIOUS
        <5>3. e.kind \in Kind /\ Whole(Applied(cloud', e))
          BY <3>1, <3>2, <3>4, <5>1, <5>2 DEF Leads
        <5>4. One(<<e>>) /\ <<e>>[1] = e
          BY DEF One
        <5>5. QED
          BY <5>2, <5>3, <5>4 DEF Leads
      <4>2. QED
        BY <4>1
    <3>9. Underway(c)'
      BY <1>1, <3>1, <3>2, <3>3, <3>4, <3>6, <3>7, <3>8 DEF Underway
    <3>10. Tabular(store') /\ Whole(cloud')
      BY <1>1, <2>2, <3>3, <3>4 DEF Orderly
    <3>11. QED
      BY <3>4, <3>6, <3>7, <3>9, <3>10 DEF Orderly
  <2>3. QED
    BY <2>1, <2>2 DEF AloneInv
<1>3. CASE Spends("faults") /\ GivesUp(c) /\ UNCHANGED cloud
  <2>1. Counted' /\ (Undisturbed' => Undisturbed) /\ call' = [call EXCEPT ![c] = Idle]
    BY <1>1, <1>3, SpendsCounted DEF GivesUp
  <2>2. ASSUME Orderly PROVE Orderly'
    <3>1. \A d \in Caller : call[d].at # "commits"
      BY <1>1, <2>2 DEF Orderly, Idle
    <3>2. store' = cloud
      BY <1>1, <2>2, <3>1 DEF Orderly
    <3>3. QED
      BY <1>1, <1>3, <2>1, <2>2, <3>2, AloneEnds
  <2>3. QED
    BY <2>1, <2>2 DEF AloneInv
<1>4. CASE Spends("losses") /\ GivesUp(c) /\ Accepted(c)
  BY <1>1, <1>4, SpendsCounted DEF AloneInv
<1>5. QED
  BY <1>2, <1>3, <1>4 DEF Saves

\* The commit after a save, with which the store has what Paprika has.
LEMMA AloneCommits ==
  ASSUME AloneInv, NEW c \in Caller, Commits(c) PROVE AloneInv'
<1>1. Counted /\ call[c].at = "commits" /\ call[c] # Idle /\ UNCHANGED cloud
  BY DEF AloneInv, Commits, GoesOn, Idle
<1>2. CASE /\ store' = Applied(store, Head(call[c].batches))
           /\ call' = [call EXCEPT ![c] = IF Len(call[c].batches) = 1 THEN Idle
                                          ELSE [call[c] EXCEPT !.at = "saves", !.batches = Tail(@)]]
           /\ UNCHANGED budget
  <2>1. Counted' /\ (Undisturbed' => Undisturbed)
    BY <1>1, <1>2 DEF Counted, Undisturbed
  <2>2. ASSUME Orderly PROVE Orderly'
    <3>1. PICK b : b = Batches(c)[1]
      OBVIOUS
    <3>2. /\ call[c] = [op |-> call[c].op, at |-> call[c].at, batches |-> Batches(c)]
          /\ One(Batches(c)) \/ Two(Batches(c))
          /\ cloud = Applied(store, b)
          /\ Two(Batches(c)) => Leads(cloud, <<Batches(c)[2]>>)
      BY <1>1, <2>2, <3>1 DEF Orderly, Underway
    <3>3. store' = cloud
      BY <1>2, <3>1, <3>2, OneBatch, TwoBatches DEF Batches
    <3>4. CASE One(Batches(c))
      <4>1. call' = [call EXCEPT ![c] = Idle]
        BY <1>2, <3>4, OneBatch DEF Batches
      <4>2. QED
        BY <1>1, <2>2, <3>3, <4>1, AloneEnds
    <3>5. CASE Two(Batches(c))
      <4>1. PICK bs : bs = <<Batches(c)[2]>>
        OBVIOUS
      <4>2. call' = [call EXCEPT ![c] = [op |-> call[c].op, at |-> "saves", batches |-> bs]]
        <5>1. Len(call[c].batches) # 1 /\ Tail(call[c].batches) = bs
          BY <3>5, <4>1, TwoBatches DEF Batches
        <5>2. [call[c] EXCEPT !.at = "saves", !.batches = bs] = [op |-> call[c].op, at |-> "saves", batches |-> bs]
          <6>1. PICK o, a, bb : o = call[c].op /\ a = call[c].at /\ bb = Batches(c)
            OBVIOUS
          <6>2. call[c] = [op |-> o, at |-> a, batches |-> bb]
            BY <3>2, <6>1
          <6>3. [[op |-> o, at |-> a, batches |-> bb] EXCEPT !.at = "saves", !.batches = bs] = [op |-> o, at |-> "saves", batches |-> bs]
            <7>1. PICK old : old = [op |-> o, at |-> a, batches |-> bb]
              OBVIOUS
            <7>2. PICK new : new = [old EXCEPT !.at = "saves", !.batches = bs]
              OBVIOUS
            <7>3. DOMAIN new = {"op", "at", "batches"} /\ new = [x \in DOMAIN new |-> new[x]]
              BY <7>1, <7>2
            <7>4. new.op = o /\ new.at = "saves" /\ new.batches = bs
              BY <7>1, <7>2
            <7>5. new = [op |-> o, at |-> "saves", batches |-> bs]
              BY <7>3, <7>4
            <7>6. QED
              BY <7>1, <7>2, <7>5
          <6>4. QED
            BY <6>1, <6>2, <6>3
        <5>3. [call[c] EXCEPT !.at = "saves", !.batches = Tail(@)] = [call[c] EXCEPT !.at = "saves", !.batches = bs]
          BY <5>1
        <5>4. QED
          BY <1>2, <5>1, <5>2, <5>3
      <4>3. /\ DOMAIN call' = Caller /\ call'[c] = [op |-> call[c].op, at |-> "saves", batches |-> bs]
            /\ \A d \in Caller \ {c} : call'[d] = Idle /\ Underway(d)'
            /\ \A d, e \in Caller : call'[d] # Idle /\ call'[e] # Idle => d = e
        BY <1>1, <2>2, <4>2, OthersIdle
      <4>4. Batches(c)' = bs /\ Leads(cloud', bs)
        BY <1>1, <3>2, <3>5, <4>1, <4>3 DEF Batches
      <4>5. Underway(c)'
        BY <4>3, <4>4 DEF Underway
      <4>6. Tabular(cloud') /\ Tabular(store') /\ Whole(cloud') /\ store' = cloud'
        BY <1>1, <2>2, <3>3 DEF Orderly
      <4>7. QED
        BY <4>3, <4>5, <4>6 DEF Orderly
    <3>6. QED
      BY <3>2, <3>4, <3>5
  <2>3. QED
    BY <2>1, <2>2 DEF AloneInv
<1>3. CASE Spends("losses") /\ UNCHANGED store
  BY <1>1, <1>3, SpendsCounted DEF AloneInv
<1>4. QED
  BY <1>2, <1>3 DEF Commits, GoesOn

\* The user confirms, or the call ends unsaved.
LEMMA AloneAnswered ==
  ASSUME AloneInv, NEW c \in Caller, Proceeds(c) \/ Stops(c) PROVE AloneInv'
<1>1. Counted /\ call[c].at = "asks" /\ call[c] # Idle /\ UNCHANGED <<cloud, store, budget>>
  BY DEF AloneInv, Proceeds, Stops, Idle
<1>2. Counted' /\ (Undisturbed' => Undisturbed)
  BY <1>1 DEF Counted, Undisturbed
<1>3. ASSUME Orderly PROVE Orderly'
  <2>1. \A d \in Caller \ {c} : call[d] = Idle
    BY <1>1, <1>3 DEF Orderly
  <2>2. store = cloud
    BY <1>1, <1>3, <2>1 DEF Orderly, Idle
  <2>3. CASE Proceeds(c)
    <3>1. /\ call[c] = [op |-> call[c].op, at |-> call[c].at, batches |-> Batches(c)]
          /\ Leads(cloud, Batches(c))
      BY <1>1, <1>3 DEF Orderly, Underway
    <3>2. call' = [call EXCEPT ![c] = [op |-> call[c].op, at |-> "saves", batches |-> Batches(c)]]
      <4>1. [call[c] EXCEPT !.at = "saves"] = [op |-> call[c].op, at |-> "saves", batches |-> Batches(c)]
        BY <3>1
      <4>2. call' = [call EXCEPT ![c] = [call[c] EXCEPT !.at = "saves"]]
        BY <2>3 DEF Proceeds
      <4>3. QED
        BY <4>1, <4>2
    <3>3. QED
      BY <1>1, <1>3, <2>1, <2>2, <3>1, <3>2, AloneGoesOn
  <2>4. CASE Stops(c)
    BY <1>1, <1>3, <2>2, <2>4, AloneEnds DEF Stops
  <2>5. QED
    BY <2>3, <2>4
<1>4. QED
  BY <1>2, <1>3 DEF AloneInv

\* A call begins, all its batches ahead of it.
LEMMA AloneBegins ==
  ASSUME AloneInv, NEW c \in Caller, \A d \in Caller : call[d] = Idle,
         NEW op, NEW at \in {"asks", "saves"}, NEW bs, Start(c, op, at, bs),
         Undisturbed /\ Orderly => Leads(cloud, bs)
  PROVE  AloneInv'
<1>1. /\ Counted /\ Spends("calls") /\ UNCHANGED <<cloud, store>>
      /\ call' = [call EXCEPT ![c] = [op |-> op, at |-> at, batches |-> bs]]
  BY DEF AloneInv, Start
<1>2. Counted' /\ (Undisturbed' => Undisturbed)
  BY <1>1, SpendsCounted
<1>3. ASSUME Undisturbed, Orderly PROVE Orderly'
  <2>1. store = cloud
    BY <1>3 DEF Orderly, Idle
  <2>2. QED
    BY <1>1, <1>3, <2>1, AloneGoesOn
<1>4. QED
  BY <1>2, <1>3 DEF AloneInv

----------------------------------------------------------------------------
\* The steps around the calls.

\* A sync cycle.
LEMMA AloneSyncs ==
  ASSUME AloneInv, NEW k \in Kind, Syncs(k) PROVE AloneInv'
<1>1. store' = [store EXCEPT ![k] = cloud[k]] /\ UNCHANGED <<cloud, call, budget>>
  BY DEF Syncs
<1>2. Counted' /\ (Undisturbed' => Undisturbed)
  BY <1>1 DEF AloneInv, Counted, Undisturbed
<1>3. ASSUME Orderly PROVE Orderly'
  <2>1. Tabular(cloud) /\ Tabular(store)
    BY <1>3 DEF Orderly
  <2>2. CASE \A c \in Caller : call[c].at # "commits"
    <3>1. store' = store
      BY <1>1, <1>3, <2>1, <2>2 DEF Orderly, Tabular
    <3>2. QED
      BY <1>1, <1>3, <3>1 DEF Orderly, Underway, Batches
  <2>3. ASSUME NEW c \in Caller, call[c].at = "commits" PROVE Orderly'
    <3>1. PICK b : b = Batches(c)[1]
      OBVIOUS
    <3>2. call[c] # Idle /\ b.kind \in Kind /\ cloud = Applied(store, b)
      <4>1. Underway(c) /\ call[c] # Idle
        BY <1>3, <2>3 DEF Orderly, Idle
      <4>2. QED
        BY <2>3, <3>1, <4>1 DEF Underway
    <3>3. cloud = Applied(store', b) /\ Tabular(store')
      <4>1. PICK old, new, synced : old = store /\ new = cloud /\ synced = store'
        OBVIOUS
      <4>2. Tabular(old) /\ new = Applied(old, b) /\ Brings(synced, old, new, k)
        BY <1>1, <2>1, <3>2, <4>1 DEF Brings
      <4>3. new = Applied(synced, b) /\ Tabular(synced)
        BY <3>2, <4>2, SyncedTwice
      <4>4. QED
        BY <4>1, <4>3
    <3>4. \A d \in Caller \ {c} : call[d] = Idle
      BY <1>3, <3>2 DEF Orderly
    <3>5. \A d \in Caller : Underway(d)'
      BY <1>1, <1>3, <2>3, <3>1, <3>2, <3>3, <3>4 DEF Orderly, Underway, Batches
    <3>6. QED
      BY <1>1, <1>3, <2>3, <3>3, <3>5 DEF Orderly
  <2>4. QED
    BY <2>2, <2>3
<1>4. QED
  BY <1>2, <1>3 DEF AloneInv

\* The process restarts.
LEMMA AloneRestarts ==
  ASSUME AloneInv, Restarts PROVE AloneInv'
<1>1. call' = [c \in Caller |-> Idle] /\ UNCHANGED <<cloud, store>>
  BY DEF Restarts
<1>2. CASE \E c \in Caller : call[c].at = "commits"
  BY <1>2, SpendsCounted DEF AloneInv, Restarts
<1>3. CASE \A c \in Caller : call[c].at # "commits"
  <2>1. UNCHANGED budget
    BY <1>3 DEF Restarts
  <2>2. Counted' /\ (Undisturbed' => Undisturbed)
    BY <2>1 DEF AloneInv, Counted, Undisturbed
  <2>3. Orderly => Orderly'
    BY <1>1, <1>3 DEF Orderly, Underway
  <2>4. QED
    BY <2>2, <2>3 DEF AloneInv
<1>4. QED
  BY <1>2, <1>3

\* Another device stores or deletes.
LEMMA AloneRemote ==
  ASSUME AloneInv, NEW b, Remote(b) PROVE AloneInv'
BY SpendsCounted DEF AloneInv, Remote

----------------------------------------------------------------------------
\* What a batch may bring and take.

\* One batch, or two, that leave Paprika whole.
LEMMA OneLeads ==
  ASSUME NEW rows, NEW b, b.kind \in Kind, Whole(Applied(rows, b)) PROVE Leads(rows, <<b>>)
<1>1. One(<<b>>) /\ <<b>>[1] = b
  BY DEF One
<1>2. QED
  BY <1>1 DEF Leads
\* Two batches lead Paprika from whole to whole when it is whole after each.
LEMMA TwoLead ==
  ASSUME NEW rows, NEW b, b.kind \in Kind, Whole(Applied(rows, b)),
         NEW e, e.kind \in Kind, Whole(Applied(Applied(rows, b), e))
  PROVE  Leads(rows, <<b, e>>)
<1>1. Two(<<b, e>>) /\ <<b, e>>[1] = b /\ <<b, e>>[2] = e
  BY DEF Two
<1>2. QED
  BY <1>1 DEF Leads

\* Kinds that are nobody's concern: menus and meals are not the tree's, nor recipes and meals the spans'.
LEMMA LeavesTree ==
  ASSUME NEW old, NEW new, NEW b, Overlaid(new, old, b), b.kind \notin {"category", "recipe"}, Tree(old), Files(old)
  PROVE  Tree(new) /\ Files(new)
<1>1. new["category"] = old["category"] /\ new["recipe"] = old["recipe"]
  BY DEF Overlaid, Kind
<1>2. QED
  BY <1>1 DEF Tree, Files
\* A batch of another kind leaves the menus and their items as they are.
LEMMA LeavesSpans ==
  ASSUME NEW old, NEW new, NEW b, Overlaid(new, old, b), b.kind \notin {"menu", "menuItem"}, Spans(old)
  PROVE  Spans(new)
<1>1. new["menu"] = old["menu"] /\ new["menuItem"] = old["menuItem"]
  BY DEF Overlaid, Kind
<1>2. QED
  BY <1>1 DEF Spans

\* Menus whose span takes in their items.
LEMMA MenusStored ==
  ASSUME NEW old, Tabular(old), Whole(old), NEW b, b.kind = "menu", b.drop = {},
         \A m \in DOMAIN b.put : /\ "days" \in DOMAIN b.put[m] /\ b.put[m].days \in Nat
                                 /\ \A u \in DOMAIN old["menuItem"] : old["menuItem"][u].menu = m
                                                                      => old["menuItem"][u].day <= b.put[m].days
  PROVE  Whole(Applied(old, b))
<1>1. PICK new : new = Applied(old, b)
  OBVIOUS
<1>2. Overlaid(new, old, b)
  BY <1>1, AppliedTable DEF Kind
<1>3. new["menuItem"] = old["menuItem"] /\ new["menu"] = Over(old["menu"], b)
  BY <1>2 DEF Overlaid, Kind
<1>4. PICK t, menus, items : t = new["menu"] /\ menus = old["menu"] /\ items = old["menuItem"]
  OBVIOUS
<1>5. /\ DOMAIN t = DOMAIN b.put \cup DOMAIN menus
      /\ \A m \in DOMAIN b.put : t[m] = b.put[m]
      /\ \A m \in DOMAIN menus \ DOMAIN b.put : t[m] = menus[m]
  BY <1>3, <1>4 DEF Over
<1>6. \A m \in DOMAIN t : "days" \in DOMAIN t[m] /\ t[m].days \in Nat
  BY <1>4, <1>5 DEF Whole, Spans
<1>7. ASSUME NEW u \in DOMAIN items
      PROVE  /\ {"menu", "day"} \subseteq DOMAIN items[u] /\ items[u].menu \in DOMAIN t
             /\ items[u].day \in Nat /\ items[u].day <= t[items[u].menu].days
  <2>1. /\ {"menu", "day"} \subseteq DOMAIN items[u] /\ items[u].menu \in DOMAIN menus
        /\ items[u].day \in Nat /\ items[u].day <= menus[items[u].menu].days
    BY <1>4 DEF Whole, Spans
  <2>2. CASE items[u].menu \in DOMAIN b.put
    BY <1>4, <1>5, <2>1, <2>2
  <2>3. CASE items[u].menu \notin DOMAIN b.put
    BY <1>5, <2>1, <2>3
  <2>4. QED
    BY <2>2, <2>3
<1>8. Spans(new)
  BY <1>3, <1>4, <1>6, <1>7 DEF Spans
<1>9. Tree(new) /\ Files(new)
  BY <1>2, LeavesTree DEF Whole
<1>10. QED
  BY <1>1, <1>8, <1>9 DEF Whole

\* A menu that has no items goes.
LEMMA MenusDropped ==
  ASSUME NEW old, Tabular(old), Whole(old), NEW b, b.kind = "menu", DOMAIN b.put = {},
         \A u \in DOMAIN old["menuItem"] : old["menuItem"][u].menu \notin b.drop
  PROVE  Whole(Applied(old, b))
<1>1. PICK new : new = Applied(old, b)
  OBVIOUS
<1>2. Overlaid(new, old, b)
  BY <1>1, AppliedTable DEF Kind
<1>3. new["menuItem"] = old["menuItem"] /\ new["menu"] = Over(old["menu"], b)
  BY <1>2 DEF Overlaid, Kind
<1>4. DOMAIN new["menu"] = DOMAIN old["menu"] \ b.drop /\ \A m \in DOMAIN new["menu"] : new["menu"][m] = old["menu"][m]
  BY <1>3 DEF Over
<1>5. Spans(new)
  BY <1>3, <1>4 DEF Whole, Spans
<1>6. Tree(new) /\ Files(new)
  BY <1>2, LeavesTree DEF Whole
<1>7. QED
  BY <1>1, <1>5, <1>6 DEF Whole

\* Menu items of menus that are there, on days within their spans.
LEMMA ItemsStored ==
  ASSUME NEW old, Tabular(old), Whole(old), NEW b, b.kind = "menuItem",
         \A u \in DOMAIN b.put : /\ {"menu", "day"} \subseteq DOMAIN b.put[u] /\ b.put[u].menu \in DOMAIN old["menu"]
                                 /\ b.put[u].day \in Nat /\ b.put[u].day <= old["menu"][b.put[u].menu].days
  PROVE  Whole(Applied(old, b))
<1>1. PICK new : new = Applied(old, b)
  OBVIOUS
<1>2. Overlaid(new, old, b)
  BY <1>1, AppliedTable DEF Kind
<1>3. new["menu"] = old["menu"] /\ new["menuItem"] = Over(old["menuItem"], b)
  BY <1>2 DEF Overlaid, Kind
<1>4. \A u \in DOMAIN new["menuItem"] : \/ u \in DOMAIN b.put /\ new["menuItem"][u] = b.put[u]
                                        \/ u \in DOMAIN old["menuItem"] /\ new["menuItem"][u] = old["menuItem"][u]
  BY <1>3 DEF Over
<1>5. Spans(new)
  BY <1>3, <1>4 DEF Whole, Spans
<1>6. Tree(new) /\ Files(new)
  BY <1>2, LeavesTree DEF Whole
<1>7. QED
  BY <1>1, <1>5, <1>6 DEF Whole

\* Meals are free.
LEMMA MealsStored ==
  ASSUME NEW old, Tabular(old), Whole(old), NEW b, b.kind = "meal" PROVE Whole(Applied(old, b))
<1>1. Overlaid(Applied(old, b), old, b)
  BY AppliedTable DEF Kind
<1>2. QED
  BY <1>1, LeavesTree, LeavesSpans DEF Whole

\* Recipes filed under categories that are there.
LEMMA RecipesStored ==
  ASSUME NEW old, Tabular(old), Whole(old), NEW b, b.kind = "recipe",
         \A r \in DOMAIN b.put : "cats" \in DOMAIN b.put[r] /\ b.put[r].cats \subseteq DOMAIN old["category"]
  PROVE  Whole(Applied(old, b))
<1>1. PICK new : new = Applied(old, b)
  OBVIOUS
<1>2. Overlaid(new, old, b)
  BY <1>1, AppliedTable DEF Kind
<1>3. new["category"] = old["category"] /\ new["recipe"] = Over(old["recipe"], b)
  BY <1>2 DEF Overlaid, Kind
<1>4. \A r \in DOMAIN new["recipe"] : \/ r \in DOMAIN b.put /\ new["recipe"][r] = b.put[r]
                                      \/ r \in DOMAIN old["recipe"] /\ new["recipe"][r] = old["recipe"][r]
  BY <1>3 DEF Over
<1>5. Tree(new) /\ Files(new)
  BY <1>3, <1>4 DEF Whole, Tree, Files
<1>6. Spans(new)
  BY <1>2, LeavesSpans DEF Whole
<1>7. QED
  BY <1>1, <1>5, <1>6 DEF Whole

----------------------------------------------------------------------------
\* The category tree.

\* The tables of categories that are a tree.
TreeOf(t) == /\ Top \notin DOMAIN t
             /\ \A k \in DOMAIN t : t[k].parent \in DOMAIN t \cup {Top}
             /\ \A S \in (SUBSET DOMAIN t) \ {{}} : \E k \in S : t[k].parent \notin S

\* A new leaf.
LEMMA LeafAdded ==
  ASSUME NEW t, TreeOf(t), NEW w, w \notin DOMAIN t, w # Top, NEW new, DOMAIN new = DOMAIN t \cup {w},
         \A k \in DOMAIN t : new[k] = t[k], new[w].parent \in DOMAIN t \cup {Top}
  PROVE  TreeOf(new)
<1>1. ASSUME NEW S \in SUBSET DOMAIN new, S # {}, \A k \in S : new[k].parent \in S PROVE FALSE
  <2>1. Top \notin S
    BY DEF TreeOf
  <2>2. S \ {w} \in SUBSET DOMAIN t /\ S \ {w} # {}
    BY <1>1, <2>1
  <2>3. PICK k \in S \ {w} : t[k].parent \notin S \ {w}
    BY <2>2 DEF TreeOf
  <2>4. k \in DOMAIN t /\ new[k] = t[k] /\ t[k].parent \in DOMAIN t
    BY <1>1, <2>1, <2>2, <2>3 DEF TreeOf
  <2>5. QED
    BY <1>1, <2>3, <2>4
<1>2. QED
  BY <1>1 DEF TreeOf

\* A leaf goes.
LEMMA LeafGone ==
  ASSUME NEW t, TreeOf(t), NEW w, \A k \in DOMAIN t : t[k].parent # w, NEW new, DOMAIN new = DOMAIN t \ {w},
         \A k \in DOMAIN new : new[k] = t[k]
  PROVE  TreeOf(new)
<1>1. \A k \in DOMAIN new : new[k].parent \in DOMAIN new \cup {Top}
  BY DEF TreeOf
<1>2. ASSUME NEW S \in SUBSET DOMAIN new, S # {} PROVE \E k \in S : new[k].parent \notin S
  BY <1>2 DEF TreeOf
<1>3. QED
  BY <1>1, <1>2 DEF TreeOf

\* A subtree moves to a place that is not in it: a set of categories that has p, all that are above its
\* members, and not k.  In a set without a root, its members would be another such set in the old tree.
LEMMA SubtreeMoved ==
  ASSUME NEW t, TreeOf(t), NEW k \in DOMAIN t, NEW p \in DOMAIN t \cup {Top}, NEW new, DOMAIN new = DOMAIN t,
         \A x \in DOMAIN t \ {k} : new[x] = t[x], new[k].parent = p,
         p # Top => \E A \in SUBSET DOMAIN t : p \in A /\ k \notin A /\ \A x \in A : t[x].parent \in DOMAIN t => t[x].parent \in A
  PROVE  TreeOf(new)
<1>1. \A x \in DOMAIN new : new[x].parent \in DOMAIN new \cup {Top}
  BY DEF TreeOf
<1>2. ASSUME NEW S \in SUBSET DOMAIN new, S # {}, \A x \in S : new[x].parent \in S PROVE FALSE
  <2>1. CASE k \notin S
    <3>1. PICK x \in S : t[x].parent \notin S
      BY <1>2 DEF TreeOf
    <3>2. QED
      BY <1>2, <2>1, <3>1
  <2>2. CASE k \in S
    <3>1. p \in S /\ p # Top
      BY <1>2, <2>2 DEF TreeOf
    <3>2. PICK A \in SUBSET DOMAIN t : p \in A /\ k \notin A /\ \A x \in A : t[x].parent \in DOMAIN t => t[x].parent \in A
      BY <3>1
    <3>3. A \cap S \in SUBSET DOMAIN t /\ A \cap S # {}
      BY <3>1, <3>2
    <3>4. PICK x \in A \cap S : t[x].parent \notin A \cap S
      BY <3>3 DEF TreeOf
    <3>5. x \in DOMAIN t \ {k} /\ new[x] = t[x] /\ t[x].parent \in S
      BY <1>2, <3>2, <3>4
    <3>6. QED
      BY <3>2, <3>4, <3>5
  <2>3. QED
    BY <2>1, <2>2
<1>3. QED
  BY <1>1, <1>2 DEF TreeOf

\* Paprika is whole with another table of categories that is a tree and has all that recipes are filed under.
LEMMA CategoriesStored ==
  ASSUME NEW old, Tabular(old), Whole(old), NEW b, b.kind = "category", NEW t, t = Over(old["category"], b), TreeOf(t),
         \A r \in DOMAIN old["recipe"] : old["recipe"][r].cats \subseteq DOMAIN t
  PROVE  Whole(Applied(old, b))
<1>1. PICK new : new = Applied(old, b)
  OBVIOUS
<1>2. Overlaid(new, old, b)
  BY <1>1, AppliedTable DEF Kind
<1>3. new["recipe"] = old["recipe"] /\ new["category"] = t
  BY <1>2 DEF Overlaid, Kind
<1>4. Tree(new) /\ Files(new)
  BY <1>3 DEF Whole, Tree, TreeOf, Files
<1>5. Spans(new)
  BY <1>2, LeavesSpans DEF Whole
<1>6. QED
  BY <1>1, <1>4, <1>5 DEF Whole

----------------------------------------------------------------------------
\* The beginnings of the calls on menus.

\* Where a call begins, store and Paprika are the same.
LEMMA NobodyBusy ==
  ASSUME Orderly, \A c \in Caller : call[c] = Idle PROVE store = cloud /\ Tabular(cloud) /\ Whole(cloud)
BY DEF Orderly, Idle

\* Putting two sequences of one batch or none together.
LEMMA Joined == \A a, b : <<a>> \o <<b>> = <<a, b>> /\ <<>> \o <<b>> = <<b>>
<1> TAKE a, b
<1> PICK S : a \in S /\ b \in S
  <2>1. a \in {a, b} /\ b \in {a, b}
    OBVIOUS
  <2>2. QED
    BY <2>1
<1>1. <<a>> \in Seq(S) /\ <<b>> \in Seq(S) /\ <<>> \in Seq(S)
  OBVIOUS
<1>2. <<a>> \o <<b>> = <<a, b>>
  <2>1. PICK x, y, z : x = <<a>> /\ y = <<b>> /\ z = x \o y
    OBVIOUS
  <2>2. Len(x) = 1 /\ Len(y) = 1 /\ x[1] = a /\ y[1] = b /\ x \in Seq(S) /\ y \in Seq(S)
    BY <1>1, <2>1
  <2>3. z \in Seq(S) /\ Len(z) = 2 /\ z[1] = a /\ z[2] = b
    BY <2>1, <2>2
  <2>4. z = <<a, b>>
    BY <2>3
  <2>5. QED
    BY <2>1, <2>4
<1>3. <<>> \o <<b>> = <<b>>
  BY <1>1
<1>4. QED
  BY <1>2, <1>3

\* A menu is created.
LEMMA CreateMenuKeeps ==
  ASSUME AloneInv, NEW c \in Caller, CreateMenu(c) PROVE AloneInv'
<1>1. PICK n \in MenuName, d \in Day :
        /\ Alone /\ Enough("menu", {n})
        /\ Does(c, "menus", <<Put("menu", NewRows("menu", {n}, LAMBDA m : [name |-> m, days |-> d]))>>)
  BY DEF CreateMenu
<1>2. PICK f : f = Minted("menu", {n})
  OBVIOUS
<1>3. PICK w : w = f[n]
  OBVIOUS
<1>4. w \notin DOMAIN cloud["menu"]
  BY <1>1, <1>2, <1>3, MintedFree DEF Free, Uids
<1>5. PICK rows : rows = [u \in {w} |-> [name |-> n, days |-> d]]
  OBVIOUS
<1>6. NewRows("menu", {n}, LAMBDA m : [name |-> m, days |-> d]) = rows
  <2>1. {f[x] : x \in {n}} = {w} /\ (CHOOSE x \in {n} : f[x] = w) = n
    BY <1>3
  <2>2. QED
    BY <1>2, <1>5, <2>1 DEF NewRows
<1>7. PICK b : b = Put("menu", rows)
  OBVIOUS
<1>8. b.kind = "menu" /\ b.put = rows /\ b.drop = {} /\ DOMAIN rows = {w} /\ rows[w] = [name |-> n, days |-> d]
  BY <1>5, <1>7 DEF Put, Batch
<1>9. d \in Nat
  BY MenusAssumption DEF Day
<1>10. ASSUME Orderly PROVE Leads(cloud, <<b>>)
  <2>1. Tabular(cloud) /\ Whole(cloud)
    BY <1>10 DEF Orderly
  <2>2. \A m \in DOMAIN b.put : /\ "days" \in DOMAIN b.put[m] /\ b.put[m].days \in Nat
                                /\ \A u \in DOMAIN cloud["menuItem"] : cloud["menuItem"][u].menu # m
    BY <1>4, <1>8, <1>9, <2>1 DEF Whole, Spans
  <2>3. Whole(Applied(cloud, b))
    BY <1>8, <2>1, <2>2, MenusStored
  <2>4. QED
    BY <1>8, <2>3, OneLeads DEF Kind
<1>11. Start(c, "menus", "saves", <<b>>) /\ \A e \in Caller : call[e] = Idle
  BY <1>1, <1>6, <1>7 DEF Does, Alone
<1>12. QED
  BY <1>10, <1>11, AloneBegins

\* A menu is renamed, or its span changed to one that takes in its items.
LEMMA UpdateMenuKeeps ==
  ASSUME AloneInv, NEW c \in Caller, UpdateMenu(c) PROVE AloneInv'
<1>1. PICK m \in Known("menu"), n \in MenuName, d \in Day :
        /\ Alone
        /\ d # store.menu[m].days => KeepsItems(m, d)
        /\ Does(c, "menus", <<Put("menu", [u \in {m} |-> [name |-> n, days |-> d]])>>)
  BY DEF UpdateMenu
<1>2. PICK b : b = Put("menu", [u \in {m} |-> [name |-> n, days |-> d]])
  OBVIOUS
<1>3. b.kind = "menu" /\ b.drop = {} /\ DOMAIN b.put = {m} /\ b.put[m] = [name |-> n, days |-> d]
  BY <1>2 DEF Put, Batch
<1>4. d \in Nat
  BY MenusAssumption DEF Day
<1>5. Start(c, "menus", "saves", <<b>>) /\ \A e \in Caller : call[e] = Idle
  BY <1>1, <1>2 DEF Does, Alone
<1>6. ASSUME Orderly PROVE Leads(cloud, <<b>>)
  <2>1. store = cloud /\ Tabular(cloud) /\ Whole(cloud)
    BY <1>5, <1>6, NobodyBusy
  <2>2. ASSUME NEW u \in DOMAIN cloud["menuItem"], cloud["menuItem"][u].menu = m PROVE cloud["menuItem"][u].day <= d
    <3>1. CASE d = cloud["menu"][m].days
      BY <2>1, <2>2, <3>1 DEF Whole, Spans
    <3>2. CASE d # cloud["menu"][m].days
      BY <1>1, <2>1, <2>2, <3>2 DEF KeepsItems, DaysOf, ItemsOf, Known
    <3>3. QED
      BY <3>1, <3>2
  <2>3. Whole(Applied(cloud, b))
    BY <1>3, <1>4, <2>1, <2>2, MenusStored
  <2>4. QED
    BY <1>3, <2>3, OneLeads DEF Kind
<1>7. QED
  BY <1>5, <1>6, AloneBegins

\* A menu is deleted, its items first.
LEMMA DeleteMenuKeeps ==
  ASSUME AloneInv, NEW c \in Caller, DeleteMenu(c) PROVE AloneInv'
<1>1. PICK m \in Known("menu") : Alone /\ Asks(c, "menus", Cascade(m))
  BY DEF DeleteMenu
<1>2. PICK a, b : a = Drop("menuItem", ItemsOf(m)) /\ b = Drop("menu", {m})
  OBVIOUS
<1>3. /\ a.kind = "menuItem" /\ DOMAIN a.put = {} /\ a.drop = ItemsOf(m)
      /\ b.kind = "menu" /\ DOMAIN b.put = {} /\ b.drop = {m}
  BY <1>2 DEF Drop, Batch, NoRows
<1>4. Start(c, "menus", "asks", Cascade(m)) /\ \A e \in Caller : call[e] = Idle
  BY <1>1 DEF Asks, Alone
<1>5. ASSUME Orderly PROVE Leads(cloud, Cascade(m))
  <2>1. store = cloud /\ Tabular(cloud) /\ Whole(cloud)
    BY <1>4, <1>5, NobodyBusy
  <2>2. CASE ItemsOf(m) = {}
    <3>1. Cascade(m) = <<b>>
      BY <1>2, <2>2, Joined DEF Cascade, Emptied
    <3>2. \A u \in DOMAIN cloud["menuItem"] : cloud["menuItem"][u].menu # m
      BY <2>1, <2>2 DEF ItemsOf, Known
    <3>3. Whole(Applied(cloud, b))
      BY <1>3, <2>1, <3>2, MenusDropped
    <3>4. QED
      BY <1>3, <3>1, <3>3, OneLeads DEF Kind
  <2>3. CASE ItemsOf(m) # {}
    <3>1. Cascade(m) = <<a, b>>
      BY <1>2, <2>3, Joined DEF Cascade, Emptied
    <3>2. PICK mid : mid = Applied(cloud, a)
      OBVIOUS
    <3>3. Whole(mid) /\ Overlaid(mid, cloud, a)
      BY <1>3, <2>1, <3>2, ItemsStored, AppliedTable DEF Kind
    <3>4. \A u \in DOMAIN mid["menuItem"] : mid["menuItem"][u].menu # m
      <4>1. mid["menuItem"] = Over(cloud["menuItem"], a)
        BY <1>3, <3>3 DEF Overlaid
      <4>2. QED
        BY <1>3, <2>1, <4>1 DEF Over, ItemsOf, Known
    <3>5. Whole(Applied(mid, b))
      BY <1>3, <3>3, <3>4, MenusDropped DEF Overlaid
    <3>6. QED
      BY <1>3, <3>1, <3>2, <3>3, <3>5, TwoLead DEF Kind
  <2>4. QED
    BY <2>2, <2>3
<1>6. QED
  BY <1>4, <1>5, AloneBegins

\* Items of a menu on some days, the span extended first to the last of them if it has to be.
LEMMA ExtendedLeads ==
  ASSUME store = cloud, Tabular(cloud), Whole(cloud), NEW m \in Known("menu"), NEW D \in SUBSET Day, D # {},
         NEW b, b.kind = "menuItem",
         \A u \in DOMAIN b.put : /\ {"menu", "day"} \subseteq DOMAIN b.put[u]
                                 /\ b.put[u].menu = m /\ b.put[u].day \in D
  PROVE  Leads(cloud, Extended(m, D) \o <<b>>)
<1>1. \A d \in D : d \in Nat
  BY MenusAssumption DEF Day
<1>2. m \in DOMAIN cloud["menu"] /\ "days" \in DOMAIN cloud["menu"][m] /\ cloud["menu"][m].days \in Nat
  BY DEF Known, Whole, Spans
<1>3. CASE \A d \in D : d <= cloud["menu"][m].days
  <2>1. Extended(m, D) = <<>>
    <3>1. ~\E d \in D : d > cloud["menu"][m].days
      BY <1>1, <1>2, <1>3
    <3>2. QED
      BY <3>1 DEF Extended
  <2>2. Whole(Applied(cloud, b))
    BY <1>1, <1>2, <1>3, ItemsStored
  <2>3. QED
    BY <2>1, <2>2, OneLeads, Joined DEF Kind
<1>4. CASE \E d \in D : ~(d <= cloud["menu"][m].days)
  <2>1. PICK d \in D : d > cloud["menu"][m].days
    BY <1>1, <1>2, <1>4
  <2>2. PICK last : last = CHOOSE x \in D : \A e \in D : e <= x
    OBVIOUS
  <2>3. last \in D /\ \A e \in D : e <= last
    <3>1. IsFiniteSet(D)
      <4>1. IsFiniteSet(Day)
        BY MenusAssumption, FS_Interval DEF Day
      <4>2. QED
        BY <4>1, FS_Subset
    <3>2. D \subseteq Nat
      BY <1>1
    <3>3. \E x \in D : \A e \in D : e <= x
      BY <3>1, <3>2, Greatest
    <3>4. QED
      BY <2>2, <3>3
  <2>4. PICK a : a = Put("menu", Changed("menu", {m}, LAMBDA x : [x EXCEPT !.days = CHOOSE e \in D : \A g \in D : g <= e]))
    OBVIOUS
  <2>5. Extended(m, D) = <<a>>
    BY <2>1, <2>4 DEF Extended
  <2>6. a.kind = "menu" /\ a.drop = {} /\ DOMAIN a.put = {m} /\ a.put[m] = [cloud["menu"][m] EXCEPT !.days = last]
    BY <2>2, <2>4 DEF Put, Batch, Changed
  <2>7. "days" \in DOMAIN a.put[m] /\ a.put[m].days = last /\ last \in Nat /\ cloud["menu"][m].days <= last
    <3>1. "days" \in DOMAIN a.put[m] /\ a.put[m].days = last
      BY <1>2, <2>6
    <3>2. d \in Nat /\ last \in Nat /\ d <= last
      BY <1>1, <2>3
    <3>3. QED
      BY <1>2, <2>1, <3>1, <3>2
  <2>8. ASSUME NEW u \in DOMAIN cloud["menuItem"], cloud["menuItem"][u].menu = m PROVE cloud["menuItem"][u].day <= last
    <3>1. cloud["menuItem"][u].day \in Nat /\ cloud["menuItem"][u].day <= cloud["menu"][m].days
      BY <2>8 DEF Whole, Spans
    <3>2. QED
      BY <1>2, <2>7, <3>1
  <2>9. PICK mid : mid = Applied(cloud, a)
    OBVIOUS
  <2>10. Whole(mid)
    BY <2>6, <2>7, <2>8, <2>9, MenusStored
  <2>11. Overlaid(mid, cloud, a)
    BY <2>6, <2>9, AppliedTable DEF Kind
  <2>12. m \in DOMAIN mid["menu"] /\ mid["menu"][m].days = last
    BY <2>6, <2>7, <2>11 DEF Overlaid, Over
  <2>13. \A u \in DOMAIN b.put : /\ {"menu", "day"} \subseteq DOMAIN b.put[u] /\ b.put[u].menu \in DOMAIN mid["menu"]
                                 /\ b.put[u].day \in Nat /\ b.put[u].day <= mid["menu"][b.put[u].menu].days
    BY <1>1, <2>3, <2>12
  <2>14. Whole(Applied(mid, b))
    BY <2>10, <2>11, <2>13, ItemsStored DEF Overlaid
  <2>15. a.kind \in Kind /\ b.kind \in Kind
    BY <2>6 DEF Kind
  <2>16. Leads(cloud, <<a, b>>)
    BY <2>9, <2>10, <2>14, <2>15, TwoLead
  <2>17. QED
    BY <2>5, <2>16, Joined
<1>5. QED
  BY <1>3, <1>4

\* Items are added to a menu.
LEMMA AddMenuItemsKeeps ==
  ASSUME AloneInv, NEW c \in Caller, AddMenuItems(c) PROVE AloneInv'
<1>1. PICK m \in Known("menu"), D \in (SUBSET Day) \ {{}}, r \in Recipe \cup {"none"}, picked \in BOOLEAN :
        /\ Alone /\ Enough("menuItem", D)
        /\ Start(c, "menus", IF picked THEN "asks" ELSE "saves",
                 Extended(m, D) \o <<Put("menuItem", NewRows("menuItem", D, LAMBDA d : [menu |-> m, day |-> d, recipe |-> r]))>>)
  BY DEF AddMenuItems
<1>2. PICK f : f = Minted("menuItem", D)
  OBVIOUS
<1>3. PICK b : b = Put("menuItem", NewRows("menuItem", D, LAMBDA d : [menu |-> m, day |-> d, recipe |-> r]))
  OBVIOUS
<1>4. b.kind = "menuItem" /\ b.put = [u \in {f[x] : x \in D} |-> [menu |-> m, day |-> CHOOSE x \in D : f[x] = u, recipe |-> r]]
  BY <1>2, <1>3 DEF Put, Batch, NewRows
<1>5. ASSUME NEW u \in DOMAIN b.put
      PROVE  {"menu", "day"} \subseteq DOMAIN b.put[u] /\ b.put[u].menu = m /\ b.put[u].day \in D
  <2>1. PICK x \in D : f[x] = u
    BY <1>4, <1>5
  <2>2. (CHOOSE y \in D : f[y] = u) \in D
    BY <2>1
  <2>3. QED
    BY <1>4, <1>5, <2>2
<1>6. PICK at \in {"asks", "saves"} : at = IF picked THEN "asks" ELSE "saves"
  BY <1>1
<1>7. Start(c, "menus", at, Extended(m, D) \o <<b>>) /\ \A e \in Caller : call[e] = Idle
  BY <1>1, <1>3, <1>6 DEF Alone
<1>8. ASSUME Orderly PROVE Leads(cloud, Extended(m, D) \o <<b>>)
  <2>1. store = cloud /\ Tabular(cloud) /\ Whole(cloud)
    BY <1>7, <1>8, NobodyBusy
  <2>2. D \in SUBSET Day /\ D # {}
    BY <1>1
  <2>3. b.kind = "menuItem"
    BY <1>4
  <2>4. QED
    BY <1>5, <2>1, <2>2, <2>3, ExtendedLeads
<1>9. QED
  BY <1>7, <1>8, AloneBegins

\* An item moves to another day of its menu.
LEMMA MoveMenuItemKeeps ==
  ASSUME AloneInv, NEW c \in Caller, MoveMenuItem(c) PROVE AloneInv'
<1>1. PICK u \in Known("menuItem"), d \in Day :
        /\ Alone
        /\ Does(c, "menus", (IF store.menuItem[u].menu \in Known("menu") THEN Extended(store.menuItem[u].menu, {d}) ELSE <<>>)
                            \o <<Put("menuItem", Changed("menuItem", {u}, LAMBDA r : [r EXCEPT !.day = d]))>>)
  BY DEF MoveMenuItem
<1>2. PICK m : m = store["menuItem"][u].menu
  OBVIOUS
<1>3. PICK b : b = Put("menuItem", Changed("menuItem", {u}, LAMBDA r : [r EXCEPT !.day = d]))
  OBVIOUS
<1>4. b.kind = "menuItem" /\ DOMAIN b.put = {u} /\ b.put[u] = [store["menuItem"][u] EXCEPT !.day = d]
  BY <1>3 DEF Put, Batch, Changed
<1>5. PICK bs : bs = (IF m \in Known("menu") THEN Extended(m, {d}) ELSE <<>>) \o <<b>>
  OBVIOUS
<1>6. Start(c, "menus", "saves", bs) /\ \A e \in Caller : call[e] = Idle
  BY <1>1, <1>2, <1>3, <1>5 DEF Does, Alone
<1>7. ASSUME Orderly PROVE Leads(cloud, bs)
  <2>1. store = cloud /\ Tabular(cloud) /\ Whole(cloud)
    BY <1>6, <1>7, NobodyBusy
  <2>2. u \in DOMAIN cloud["menuItem"] /\ m = cloud["menuItem"][u].menu
    BY <1>2, <2>1 DEF Known
  <2>3. {"menu", "day"} \subseteq DOMAIN cloud["menuItem"][u] /\ m \in DOMAIN cloud["menu"]
    BY <2>1, <2>2 DEF Whole, Spans
  <2>4. {"menu", "day"} \subseteq DOMAIN b.put[u] /\ b.put[u].menu = m /\ b.put[u].day = d
    BY <1>4, <2>1, <2>2, <2>3
  <2>5. m \in Known("menu") /\ {d} \in SUBSET Day /\ {d} # {}
    BY <2>1, <2>3 DEF Known
  <2>6. \A v \in DOMAIN b.put : {"menu", "day"} \subseteq DOMAIN b.put[v] /\ b.put[v].menu = m /\ b.put[v].day \in {d}
    BY <1>4, <2>4
  <2>7. Leads(cloud, Extended(m, {d}) \o <<b>>)
    BY <1>4, <2>1, <2>5, <2>6, ExtendedLeads
  <2>8. QED
    BY <1>5, <2>5, <2>7
<1>8. QED
  BY <1>6, <1>7, AloneBegins

\* An item gets another recipe.
LEMMA UpdateMenuItemKeeps ==
  ASSUME AloneInv, NEW c \in Caller, UpdateMenuItem(c) PROVE AloneInv'
<1>1. PICK u \in Known("menuItem"), r \in Recipe \cap Known("recipe") :
        /\ Alone
        /\ Asks(c, "menus", <<Put("menuItem", Changed("menuItem", {u}, LAMBDA i : [i EXCEPT !.recipe = r]))>>)
  BY DEF UpdateMenuItem
<1>2. PICK b : b = Put("menuItem", Changed("menuItem", {u}, LAMBDA i : [i EXCEPT !.recipe = r]))
  OBVIOUS
<1>3. b.kind = "menuItem" /\ DOMAIN b.put = {u} /\ b.put[u] = [store["menuItem"][u] EXCEPT !.recipe = r]
  BY <1>2 DEF Put, Batch, Changed
<1>4. Start(c, "menus", "asks", <<b>>) /\ \A e \in Caller : call[e] = Idle
  BY <1>1, <1>2 DEF Asks, Alone
<1>5. ASSUME Orderly PROVE Leads(cloud, <<b>>)
  <2>1. store = cloud /\ Tabular(cloud) /\ Whole(cloud)
    BY <1>4, <1>5, NobodyBusy
  <2>2. PICK item : item = cloud["menuItem"][u]
    OBVIOUS
  <2>3. /\ {"menu", "day"} \subseteq DOMAIN item /\ item.menu \in DOMAIN cloud["menu"]
        /\ item.day \in Nat /\ item.day <= cloud["menu"][item.menu].days
    BY <2>1, <2>2 DEF Whole, Spans, Known
  <2>4. DOMAIN b.put[u] = DOMAIN item /\ b.put[u].menu = item.menu /\ b.put[u].day = item.day
    BY <1>3, <2>1, <2>2, <2>3
  <2>5. Whole(Applied(cloud, b))
    BY <1>3, <2>1, <2>3, <2>4, ItemsStored
  <2>6. QED
    BY <1>3, <2>5, OneLeads DEF Kind
<1>6. QED
  BY <1>4, <1>5, AloneBegins

\* An item is deleted.
LEMMA DeleteMenuItemKeeps ==
  ASSUME AloneInv, NEW c \in Caller, DeleteMenuItem(c) PROVE AloneInv'
<1>1. PICK u \in Known("menuItem") : Alone /\ Does(c, "menus", <<Drop("menuItem", {u})>>)
  BY DEF DeleteMenuItem
<1>2. PICK b : b = Drop("menuItem", {u})
  OBVIOUS
<1>3. b.kind = "menuItem" /\ DOMAIN b.put = {}
  BY <1>2 DEF Drop, Batch, NoRows
<1>4. Start(c, "menus", "saves", <<b>>) /\ \A e \in Caller : call[e] = Idle
  BY <1>1, <1>2 DEF Does, Alone
<1>5. ASSUME Orderly PROVE Leads(cloud, <<b>>)
  BY <1>3, <1>4, <1>5, NobodyBusy, ItemsStored, OneLeads DEF Kind
<1>6. QED
  BY <1>4, <1>5, AloneBegins

\* A call on meals, whatever it plans, changes, copies or deletes.
LEMMA MealsKeep ==
  ASSUME AloneInv, NEW c \in Caller, Alone, NEW at \in {"asks", "saves"}, NEW b, b.kind = "meal", Start(c, "meals", at, <<b>>)
  PROVE  AloneInv'
<1>1. \A e \in Caller : call[e] = Idle
  BY DEF Alone
<1>2. ASSUME Orderly PROVE Leads(cloud, <<b>>)
  BY <1>1, <1>2, NobodyBusy, MealsStored, OneLeads DEF Kind
<1>3. QED
  BY <1>1, <1>2, AloneBegins
\* The tools of the meals: Paprika is asked for, or sent, meals alone.
LEMMA MealToolsKeep ==
  ASSUME AloneInv, NEW c \in Caller,
         PlanMeals(c) \/ LogCookedMeal(c) \/ UpdateMeal(c) \/ RescheduleMeal(c) \/ DeleteMeal(c) \/ ScheduleMenu(c)
  PROVE  AloneInv'
<1>1. ASSUME NEW at \in {"asks", "saves"}, NEW put, Alone, Start(c, "meals", at, <<Put("meal", put)>>) PROVE AloneInv'
  <2>1. Put("meal", put).kind = "meal"
    BY DEF Put, Batch
  <2>2. QED
    BY <1>1, <2>1, MealsKeep
<1>2. CASE PlanMeals(c) \/ LogCookedMeal(c)
  BY <1>1, <1>2 DEF PlanMeals, LogCookedMeal, Planned, Asks
<1>3. CASE UpdateMeal(c) \/ RescheduleMeal(c)
  BY <1>1, <1>3 DEF UpdateMeal, RescheduleMeal, Asks
<1>4. CASE DeleteMeal(c)
  <2>1. PICK u \in Known("meal") : Alone /\ Start(c, "meals", "asks", <<Drop("meal", {u})>>)
    BY <1>4 DEF DeleteMeal, Asks
  <2>2. Drop("meal", {u}).kind = "meal"
    BY DEF Drop, Batch
  <2>3. QED
    BY <2>1, <2>2, MealsKeep
<1>5. CASE ScheduleMenu(c)
  BY <1>1, <1>5 DEF ScheduleMenu, Scheduled, Does
<1>6. QED
  BY <1>2, <1>3, <1>4, <1>5

----------------------------------------------------------------------------
\* The beginnings of the calls on categories and recipes.

\* A category is created.
LEMMA CreateCategoryKeeps ==
  ASSUME AloneInv, NEW c \in Caller, CreateCategory(c) PROVE AloneInv'
<1>1. PICK p \in Categories \cup {Top} :
        /\ NoCall /\ Enough("category", {p})
        /\ Does(c, "category", <<Put("category", NewRows("category", {p}, LAMBDA q : [parent |-> q]))>>)
  BY DEF CreateCategory
<1>2. PICK f : f = Minted("category", {p})
  OBVIOUS
<1>3. PICK w : w = f[p]
  OBVIOUS
<1>4. w \notin DOMAIN cloud["category"] /\ w # Top
  <2>1. w \in Free("category")
    BY <1>1, <1>2, <1>3, MintedFree
  <2>2. QED
    BY <2>1, RecipeToolsAssumption DEF Free, Uids
<1>5. PICK rows : rows = [u \in {w} |-> [parent |-> p]]
  OBVIOUS
<1>6. NewRows("category", {p}, LAMBDA q : [parent |-> q]) = rows
  <2>1. {f[x] : x \in {p}} = {w} /\ (CHOOSE x \in {p} : f[x] = w) = p
    BY <1>3
  <2>2. QED
    BY <1>2, <1>5, <2>1 DEF NewRows
<1>7. PICK b : b = Put("category", rows)
  OBVIOUS
<1>8. b.kind = "category" /\ b.put = [u \in {w} |-> [parent |-> p]] /\ b.drop = {}
  BY <1>5, <1>7 DEF Put, Batch
<1>9. Start(c, "category", "saves", <<b>>) /\ \A e \in Caller : call[e] = Idle
  BY <1>1, <1>6, <1>7 DEF Does, NoCall
<1>10. ASSUME Orderly PROVE Leads(cloud, <<b>>)
  <2>1. store = cloud /\ Tabular(cloud) /\ Whole(cloud)
    BY <1>9, <1>10, NobodyBusy
  <2>2. PICK t, new : t = cloud["category"] /\ new = Over(cloud["category"], b)
    OBVIOUS
  <2>3. /\ DOMAIN new = DOMAIN t \cup {w} /\ new[w] = [parent |-> p]
        /\ \A u \in DOMAIN t : new[u] = t[u]
    <3>1. PICK row : row = [parent |-> p]
      OBVIOUS
    <3>2. b.put = [u \in {w} |-> row] /\ b.drop = {} /\ new = Over(t, b)
      BY <1>8, <2>2, <3>1
    <3>3. /\ DOMAIN new = DOMAIN t \cup {w} /\ new[w] = row
          /\ \A u \in DOMAIN t \ {w} : new[u] = t[u]
      BY <3>2 DEF Over
    <3>4. QED
      BY <1>4, <2>2, <3>1, <3>3
  <2>4. TreeOf(t) /\ p \in DOMAIN t \cup {Top}
    BY <1>1, <2>1, <2>2 DEF Whole, Tree, TreeOf, Categories, Known
  <2>5. TreeOf(new)
    BY <1>4, <2>2, <2>3, <2>4, LeafAdded
  <2>6. Whole(Applied(cloud, b))
    <3>1. \A r \in DOMAIN cloud["recipe"] : cloud["recipe"][r].cats \subseteq DOMAIN new
      BY <2>1, <2>2, <2>3 DEF Whole, Files
    <3>2. QED
      BY <1>8, <2>1, <2>2, <2>5, <3>1, CategoriesStored
  <2>7. QED
    BY <1>8, <2>6, OneLeads DEF Kind
<1>11. QED
  BY <1>9, <1>10, AloneBegins

\* A category is renamed or moves to another parent.
LEMMA UpdateCategoryKeeps ==
  ASSUME AloneInv, NEW c \in Caller, UpdateCategory(c) PROVE AloneInv'
<1>1. PICK k \in Categories, p \in Categories \cup {Top} :
        /\ NoCall /\ ~CreatesCycle(k, p)
        /\ Does(c, "category", <<Put("category", [u \in {k} |-> [parent |-> p]])>>)
  BY DEF UpdateCategory
<1>2. PICK b : b = Put("category", [u \in {k} |-> [parent |-> p]])
  OBVIOUS
<1>3. b.kind = "category" /\ b.put = [u \in {k} |-> [parent |-> p]] /\ b.drop = {}
  BY <1>2 DEF Put, Batch
<1>4. Start(c, "category", "saves", <<b>>) /\ \A e \in Caller : call[e] = Idle
  BY <1>1, <1>2 DEF Does, NoCall
<1>5. ASSUME Orderly PROVE Leads(cloud, <<b>>)
  <2>1. store = cloud /\ Tabular(cloud) /\ Whole(cloud)
    BY <1>4, <1>5, NobodyBusy
  <2>2. PICK t, new : t = cloud["category"] /\ new = Over(cloud["category"], b)
    OBVIOUS
  <2>3. TreeOf(t) /\ k \in DOMAIN t /\ p \in DOMAIN t \cup {Top}
    BY <1>1, <2>1, <2>2 DEF Whole, Tree, TreeOf, Categories, Known
  <2>4. /\ DOMAIN new = DOMAIN t /\ new[k] = [parent |-> p]
        /\ \A u \in DOMAIN t \ {k} : new[u] = t[u]
    <3>1. PICK row : row = [parent |-> p]
      OBVIOUS
    <3>2. b.put = [u \in {k} |-> row] /\ b.drop = {} /\ new = Over(t, b)
      BY <1>3, <2>2, <3>1
    <3>3. /\ DOMAIN new = DOMAIN t \cup {k} /\ new[k] = row
          /\ \A u \in DOMAIN t \ {k} : new[u] = t[u]
      BY <3>2 DEF Over
    <3>4. QED
      BY <2>3, <3>1, <3>3
  <2>5. ASSUME p # Top
        PROVE  \E A \in SUBSET DOMAIN t : p \in A /\ k \notin A /\ \A x \in A : t[x].parent \in DOMAIN t => t[x].parent \in A
    BY <1>1, <2>1, <2>2, <2>5 DEF CreatesCycle, ClosedUp, Categories, Known
  <2>6. TreeOf(new)
    BY <2>3, <2>4, <2>5, SubtreeMoved
  <2>7. Whole(Applied(cloud, b))
    <3>1. \A r \in DOMAIN cloud["recipe"] : cloud["recipe"][r].cats \subseteq DOMAIN new
      BY <2>1, <2>2, <2>4 DEF Whole, Files
    <3>2. QED
      BY <1>3, <2>1, <2>2, <2>6, <3>1, CategoriesStored
  <2>8. QED
    BY <1>3, <2>7, OneLeads DEF Kind
<1>6. QED
  BY <1>4, <1>5, AloneBegins

\* A category that has no child and no recipe is deleted.
LEMMA DeleteCategoryKeeps ==
  ASSUME AloneInv, NEW c \in Caller, DeleteCategory(c) PROVE AloneInv'
<1>1. PICK k \in Categories :
        /\ NoCall
        /\ ~\E child \in Categories : store.category[child].parent = k
        /\ ~\E r \in Dishes : RefersTo(r, k)
        /\ Does(c, "category", <<Drop("category", {k})>>)
  BY DEF DeleteCategory
<1>2. PICK b : b = Drop("category", {k})
  OBVIOUS
<1>3. b.kind = "category" /\ DOMAIN b.put = {} /\ b.drop = {k}
  BY <1>2 DEF Drop, Batch, NoRows
<1>4. Start(c, "category", "saves", <<b>>) /\ \A e \in Caller : call[e] = Idle
  BY <1>1, <1>2 DEF Does, NoCall
<1>5. ASSUME Orderly PROVE Leads(cloud, <<b>>)
  <2>1. store = cloud /\ Tabular(cloud) /\ Whole(cloud)
    BY <1>4, <1>5, NobodyBusy
  <2>2. PICK t, new : t = cloud["category"] /\ new = Over(cloud["category"], b)
    OBVIOUS
  <2>3. DOMAIN new = DOMAIN t \ {k} /\ \A u \in DOMAIN new : new[u] = t[u]
    BY <1>3, <2>2 DEF Over
  <2>4. TreeOf(t) /\ \A u \in DOMAIN t : t[u].parent # k
    BY <1>1, <2>1, <2>2 DEF Whole, Tree, TreeOf, Categories, Known
  <2>5. TreeOf(new)
    BY <2>3, <2>4, LeafGone
  <2>6. \A r \in DOMAIN cloud["recipe"] : cloud["recipe"][r].cats \subseteq DOMAIN new
    BY <1>1, <2>1, <2>2, <2>3 DEF Whole, Files, RefersTo, Dishes, Known
  <2>7. Whole(Applied(cloud, b))
    BY <1>3, <2>1, <2>2, <2>5, <2>6, CategoriesStored
  <2>8. QED
    BY <1>3, <2>7, OneLeads DEF Kind
<1>6. QED
  BY <1>4, <1>5, AloneBegins

\* A recipe is created, changed, restored or purged: what it is filed under is known.
LEMMA RecipesKeep ==
  ASSUME AloneInv, NEW c \in Caller, NoCall, NEW at \in {"asks", "saves"}, NEW b, b.kind = "recipe",
         Start(c, "recipe", at, <<b>>),
         Orderly /\ store = cloud /\ Files(cloud)
           => \A r \in DOMAIN b.put : "cats" \in DOMAIN b.put[r] /\ b.put[r].cats \subseteq DOMAIN cloud["category"]
  PROVE  AloneInv'
<1>1. \A e \in Caller : call[e] = Idle
  BY DEF NoCall
<1>2. ASSUME Orderly PROVE Leads(cloud, <<b>>)
  <2>1. store = cloud /\ Tabular(cloud) /\ Whole(cloud)
    BY <1>1, <1>2, NobodyBusy
  <2>2. Whole(Applied(cloud, b))
    BY <1>2, <2>1, RecipesStored DEF Whole
  <2>3. QED
    BY <2>2, OneLeads DEF Kind
<1>3. QED
  BY <1>1, <1>2, AloneBegins

\* A recipe is created.
LEMMA CreateRecipeKeeps ==
  ASSUME AloneInv, NEW c \in Caller, CreateRecipe(c) PROVE AloneInv'
<1>1. PICK K \in SUBSET Categories, r \in Free("recipe") :
        NoCall /\ Does(c, "recipe", <<Put("recipe", [u \in {r} |-> Filed(K)])>>)
  BY DEF CreateRecipe
<1>2. PICK b : b = Put("recipe", [u \in {r} |-> Filed(K)])
  OBVIOUS
<1>3. b.kind = "recipe" /\ DOMAIN b.put = {r} /\ b.put[r] = [cats |-> K, trashed |-> FALSE]
  BY <1>2 DEF Put, Batch, Filed
<1>4. Start(c, "recipe", "saves", <<b>>) /\ NoCall
  BY <1>1, <1>2 DEF Does
<1>5. store = cloud => \A u \in DOMAIN b.put : "cats" \in DOMAIN b.put[u] /\ b.put[u].cats \subseteq DOMAIN cloud["category"]
  BY <1>1, <1>3 DEF Categories, Known
<1>6. QED
  BY <1>3, <1>4, <1>5, RecipesKeep

\* A recipe is filed under other categories.
LEMMA CategorizeKeeps ==
  ASSUME AloneInv, NEW c \in Caller, Categorize(c) PROVE AloneInv'
<1>1. PICK r \in Dishes, K \in (SUBSET Categories) \ {{}}, mode \in {"add", "replace", "remove"} :
        /\ NoCall
        /\ Does(c, "recipe", <<Put("recipe", Changed("recipe", {r}, LAMBDA x : [x EXCEPT !.cats =
             CASE mode = "add" -> store.recipe[r].cats \cup K
               [] mode = "replace" -> K
               [] mode = "remove" -> store.recipe[r].cats \ K]))>>)
  BY DEF Categorize
<1>2. PICK old : old = store["recipe"][r].cats
  OBVIOUS
<1>3. PICK new : new = CASE mode = "add" -> old \cup K [] mode = "replace" -> K [] mode = "remove" -> old \ K
  OBVIOUS
<1>4. new \subseteq old \cup K
  BY <1>1, <1>3
<1>5. PICK b : b = Put("recipe", Changed("recipe", {r}, LAMBDA x : [x EXCEPT !.cats =
                         CASE mode = "add" -> store.recipe[r].cats \cup K
                           [] mode = "replace" -> K
                           [] mode = "remove" -> store.recipe[r].cats \ K]))
  OBVIOUS
<1>6. b.kind = "recipe" /\ DOMAIN b.put = {r} /\ b.put[r] = [store["recipe"][r] EXCEPT !.cats = new]
  BY <1>2, <1>3, <1>5 DEF Put, Batch, Changed
<1>7. Start(c, "recipe", "saves", <<b>>) /\ NoCall
  BY <1>1, <1>5 DEF Does
<1>8. ASSUME Orderly, store = cloud, Files(cloud)
      PROVE  \A u \in DOMAIN b.put : "cats" \in DOMAIN b.put[u] /\ b.put[u].cats \subseteq DOMAIN cloud["category"]
  <2>1. "cats" \in DOMAIN cloud["recipe"][r] /\ old \subseteq DOMAIN cloud["category"] /\ K \subseteq DOMAIN cloud["category"]
    BY <1>1, <1>2, <1>8 DEF Files, Dishes, Categories, Known
  <2>2. "cats" \in DOMAIN b.put[r] /\ b.put[r].cats = new
    BY <1>6, <1>8, <2>1
  <2>3. QED
    BY <1>4, <1>6, <2>1, <2>2
<1>9. QED
  BY <1>6, <1>7, <1>8, RecipesKeep

\* A recipe is stored with its categories as they were, or goes.
LEMMA RewritesKeep ==
  ASSUME AloneInv, NEW c \in Caller, NEW r \in Dishes, NEW trashed, Rewrites(c, r, trashed) PROVE AloneInv'
<1>1. PICK b : b = Put("recipe", Changed("recipe", {r}, LAMBDA x : [x EXCEPT !.trashed = trashed]))
  OBVIOUS
<1>2. b.kind = "recipe" /\ DOMAIN b.put = {r} /\ b.put[r] = [store["recipe"][r] EXCEPT !.trashed = trashed]
  BY <1>1 DEF Put, Batch, Changed
<1>3. Start(c, "recipe", "saves", <<b>>) /\ NoCall
  BY <1>1 DEF Rewrites, Does
<1>4. ASSUME Orderly, store = cloud, Files(cloud)
      PROVE  \A u \in DOMAIN b.put : "cats" \in DOMAIN b.put[u] /\ b.put[u].cats \subseteq DOMAIN cloud["category"]
  <2>1. "cats" \in DOMAIN cloud["recipe"][r] /\ cloud["recipe"][r].cats \subseteq DOMAIN cloud["category"]
    BY <1>4 DEF Files, Dishes, Known
  <2>2. "cats" \in DOMAIN b.put[r] /\ b.put[r].cats = cloud["recipe"][r].cats
    BY <1>2, <1>4, <2>1
  <2>3. QED
    BY <1>2, <2>1, <2>2
<1>5. QED
  BY <1>2, <1>3, <1>4, RecipesKeep
\* restore_recipe: the row is sent back with its categories.
LEMMA RestoreRecipeKeeps ==
  ASSUME AloneInv, NEW c \in Caller, RestoreRecipe(c) PROVE AloneInv'
<1>1. PICK r \in InTrash :
        NoCall /\ Does(c, "recipe", <<Put("recipe", [u \in {r} |-> [cloud.recipe[r] EXCEPT !.trashed = FALSE]])>>)
  BY DEF RestoreRecipe
<1>2. PICK b : b = Put("recipe", [u \in {r} |-> [cloud.recipe[r] EXCEPT !.trashed = FALSE]])
  OBVIOUS
<1>3. b.kind = "recipe" /\ DOMAIN b.put = {r} /\ b.put[r] = [cloud["recipe"][r] EXCEPT !.trashed = FALSE]
  BY <1>2 DEF Put, Batch
<1>4. Start(c, "recipe", "saves", <<b>>) /\ NoCall
  BY <1>1, <1>2 DEF Does
<1>5. ASSUME Orderly, store = cloud, Files(cloud)
      PROVE  \A u \in DOMAIN b.put : "cats" \in DOMAIN b.put[u] /\ b.put[u].cats \subseteq DOMAIN cloud["category"]
  <2>1. "cats" \in DOMAIN cloud["recipe"][r] /\ cloud["recipe"][r].cats \subseteq DOMAIN cloud["category"]
    BY <1>1, <1>5 DEF Files, InTrash
  <2>2. "cats" \in DOMAIN b.put[r] /\ b.put[r].cats = cloud["recipe"][r].cats
    BY <1>3, <2>1
  <2>3. QED
    BY <1>3, <2>1, <2>2
<1>6. QED
  BY <1>3, <1>4, <1>5, RecipesKeep
\* purge_recipe: a recipe is taken, and no category is.
LEMMA PurgeRecipeKeeps ==
  ASSUME AloneInv, NEW c \in Caller, PurgeRecipe(c) PROVE AloneInv'
<1>1. PICK r \in InTrash : NoCall /\ Start(c, "recipe", "asks", <<Drop("recipe", {r})>>)
  BY DEF PurgeRecipe, Asks
<1>2. PICK b : b = Drop("recipe", {r})
  OBVIOUS
<1>3. b.kind = "recipe" /\ DOMAIN b.put = {}
  BY <1>2 DEF Drop, Batch, NoRows
<1>4. QED
  BY <1>1, <1>2, <1>3, RecipesKeep

\* The store is put right about a recipe of which it has missed nothing.
LEMMA ReconcilesKeep ==
  ASSUME AloneInv, Reconciles PROVE AloneInv'
<1>1. PICK r \in Slot["recipe"] \ InTrash :
        /\ NoCall /\ Spends("calls")
        /\ store' = [store EXCEPT !.recipe = [q \in (DOMAIN cloud.recipe \cap {r}) \cup (DOMAIN @ \ {r}) |->
                                                IF q = r THEN cloud.recipe[q] ELSE @[q]]]
        /\ UNCHANGED <<cloud, call>>
  BY DEF Reconciles
<1>2. Counted' /\ (Undisturbed' => Undisturbed)
  BY <1>1, SpendsCounted DEF AloneInv
<1>3. ASSUME Orderly PROVE Orderly'
  <2>1. store = cloud /\ Tabular(cloud) /\ \A c \in Caller : call[c] = Idle
    BY <1>1, <1>3, NobodyBusy DEF NoCall
  <2>2. PICK t : t = store["recipe"]
    OBVIOUS
  <2>3. t = [u \in DOMAIN t |-> t[u]] /\ store = [k \in Kind |-> store[k]] /\ "recipe" \in Kind
    BY <2>1, <2>2 DEF Tabular, Kind
  <2>4. [q \in (DOMAIN cloud["recipe"] \cap {r}) \cup (DOMAIN t \ {r}) |-> IF q = r THEN cloud["recipe"][q] ELSE t[q]] = t
    BY <2>1, <2>2, <2>3
  <2>5. store' = [store EXCEPT !["recipe"] = t]
    BY <1>1, <2>2, <2>4
  <2>6. store' = store
    BY <2>2, <2>3, <2>5
  <2>7. QED
    BY <1>1, <1>3, <2>1, <2>6 DEF Orderly, Underway
<1>4. QED
  BY <1>2, <1>3 DEF AloneInv

----------------------------------------------------------------------------
\* The theorems.

\* Every step of a call that has begun.
LEMMA AloneCourse ==
  ASSUME AloneInv, NEW c \in Caller, Proceeds(c) \/ Stops(c) \/ Saves(c) \/ Commits(c) PROVE AloneInv'
BY AloneAnswered, AloneSaves, AloneCommits

\* What does not touch the variables of the invariant.
LEMMA AloneStands ==
  ASSUME AloneInv, UNCHANGED toolVars PROVE AloneInv'
<1>1. UNCHANGED <<cloud, store, call, budget>>
  BY DEF toolVars
<1>2. Counted' /\ (Orderly => Orderly')
  BY <1>1 DEF AloneInv, Counted, Orderly, Underway, Batches
<1>3. QED
  BY <1>1, <1>2 DEF AloneInv, Undisturbed

\* At the start the budget is whole, nobody is at work, and the store has what Paprika has.
LEMMA AloneStarts ==
  ASSUME ToolCallsInit(MaxCalls), Tabular(cloud), Whole(cloud) PROVE AloneInv
<1>1. store = cloud /\ call = [c \in Caller |-> Idle] /\ Counted
  BY ToolCallsAssumption DEF ToolCallsInit, Counted
<1>2. QED
  BY <1>1 DEF AloneInv, Orderly, Underway

\* With menus and one client at a time, what a call is about to save leaves every menu item in the span of
\* its menu, and the store is never behind but between a save and its commit.
THEOREM MenusInvariant == MenusSpec => []AloneInv
<1>1. MenusInit /\ ToolCallsInit(MaxCalls) => AloneInv
  <2>1. SUFFICES ASSUME MenusInit, ToolCallsInit(MaxCalls) PROVE AloneInv
    OBVIOUS
  <2>2. PICK dishes, menus : /\ dishes = [r \in Recipe |-> [cats |-> {}]]
                             /\ menus = [m \in {1} |-> [name |-> CHOOSE n \in MenuName : TRUE, days |-> 1]]
    OBVIOUS
  <2>3. cloud = [Empty EXCEPT !["recipe"] = dishes, !["menu"] = menus]
    BY <2>1, <2>2 DEF MenusInit
  <2>4. /\ cloud = [k \in Kind |-> cloud[k]] /\ cloud["recipe"] = dishes /\ cloud["menu"] = menus
        /\ \A k \in Kind \ {"recipe", "menu"} : cloud[k] = NoRows
    BY <2>3 DEF Empty, Kind
  <2>5. /\ NoRows = [u \in DOMAIN NoRows |-> NoRows[u]] /\ DOMAIN NoRows = {}
        /\ dishes = [u \in DOMAIN dishes |-> dishes[u]] /\ menus = [u \in DOMAIN menus |-> menus[u]]
    BY <2>2 DEF NoRows
  <2>6. Tabular(cloud)
    BY <2>4, <2>5 DEF Tabular
  <2>7. \A m \in DOMAIN menus : "days" \in DOMAIN menus[m] /\ menus[m].days \in Nat
    BY <2>2
  <2>8. \A r \in DOMAIN dishes : "cats" \in DOMAIN dishes[r] /\ dishes[r].cats = {}
    BY <2>2
  <2>9. DOMAIN cloud["menuItem"] = {} /\ DOMAIN cloud["category"] = {}
    BY <2>4, <2>5 DEF Kind
  <2>10. Whole(cloud)
    BY <2>4, <2>7, <2>8, <2>9 DEF Whole, Spans, Tree, Files
  <2>11. QED
    BY <2>1, <2>6, <2>10, AloneStarts
<1>2. AloneInv /\ [MenusNext]_toolVars => AloneInv'
  <2>1. ASSUME AloneInv, UNCHANGED toolVars PROVE AloneInv'
    BY <2>1, AloneStands
  <2>2. ASSUME AloneInv, NEW c \in Caller, CreateMenu(c) \/ UpdateMenu(c) \/ DeleteMenu(c) PROVE AloneInv'
    BY <2>2, CreateMenuKeeps, UpdateMenuKeeps, DeleteMenuKeeps
  <2>3. ASSUME AloneInv, NEW c \in Caller, AddMenuItems(c) \/ MoveMenuItem(c) \/ UpdateMenuItem(c) \/ DeleteMenuItem(c)
        PROVE  AloneInv'
    BY <2>3, AddMenuItemsKeeps, MoveMenuItemKeeps, UpdateMenuItemKeeps, DeleteMenuItemKeeps
  <2>4. ASSUME AloneInv, NEW k \in {"menu", "menuItem", "meal", "recipe"}, Syncs(k) PROVE AloneInv'
    BY <2>4, AloneSyncs DEF Kind
  <2>5. ASSUME AloneInv, Restarts \/ MenusRemote PROVE AloneInv'
    BY <2>5, AloneRestarts, AloneRemote DEF MenusRemote
  <2>6. QED
    BY <2>1, <2>2, <2>3, <2>4, <2>5, MealToolsKeep, AloneCourse DEF MenusNext
<1>3. QED
  BY <1>1, <1>2, PTL DEF MenusSpec

\* Every menu item at Paprika belongs to a menu that is there, and to a day of its span.
THEOREM MenusWholeHolds == MenusSpec => []MenusWhole
<1>1. AloneInv => MenusWhole
  BY DEF AloneInv, Orderly, Whole, Spans, MenusWhole
<1>2. QED
  BY <1>1, MenusInvariant, PTL

\* The same of categories and recipes.
THEOREM CategoriesInvariant == CategoriesSpec => []AloneInv
<1>1. RecipeToolsInit("categories") /\ ToolCallsInit(MaxCalls) => AloneInv
  <2>1. SUFFICES ASSUME RecipeToolsInit("categories"), ToolCallsInit(MaxCalls) PROVE AloneInv
    OBVIOUS
  <2>2. PICK t : t = [k \in {1, 2} |-> [parent |-> k - 1]]
    OBVIOUS
  <2>3. cloud = [Empty EXCEPT !["category"] = t]
    BY <2>1, <2>2 DEF RecipeToolsInit
  <2>4. /\ cloud = [k \in Kind |-> cloud[k]] /\ cloud["category"] = t
        /\ \A k \in Kind \ {"category"} : cloud[k] = NoRows
    BY <2>3 DEF Empty, Kind
  <2>5. NoRows = [u \in DOMAIN NoRows |-> NoRows[u]] /\ DOMAIN NoRows = {} /\ t = [u \in DOMAIN t |-> t[u]]
    BY <2>2 DEF NoRows
  <2>6. Tabular(cloud)
    BY <2>4, <2>5 DEF Tabular
  <2>7. DOMAIN t = {1, 2} /\ t[1].parent = 0 /\ t[2].parent = 1
    BY <2>2
  <2>8. TreeOf(t)
    <3>1. ASSUME NEW S \in SUBSET {1, 2}, S # {} PROVE \E k \in S : t[k].parent \notin S
      <4>1. CASE 1 \in S
        BY <2>7, <3>1, <4>1
      <4>2. CASE 1 \notin S
        BY <2>7, <3>1, <4>2
      <4>3. QED
        BY <4>1, <4>2
    <3>2. QED
      BY <2>7, <3>1 DEF TreeOf, Top
  <2>9. DOMAIN cloud["menuItem"] = {} /\ DOMAIN cloud["menu"] = {} /\ DOMAIN cloud["recipe"] = {}
    BY <2>4, <2>5 DEF Kind
  <2>10. Whole(cloud)
    BY <2>4, <2>8, <2>9 DEF Whole, Spans, Tree, TreeOf, Files
  <2>11. QED
    BY <2>1, <2>6, <2>10, AloneStarts
<1>2. AloneInv /\ [CategoriesNext]_<<toolVars, recipeToolVars>> => AloneInv'
  <2>1. ASSUME AloneInv, UNCHANGED toolVars PROVE AloneInv'
    BY <2>1, AloneStands
  <2>2. ASSUME AloneInv, NEW c \in Caller, CreateCategory(c) \/ UpdateCategory(c) \/ DeleteCategory(c) PROVE AloneInv'
    BY <2>2, CreateCategoryKeeps, UpdateCategoryKeeps, DeleteCategoryKeeps
  <2>3. ASSUME AloneInv, NEW c \in Caller, CreateRecipe(c) \/ Categorize(c) PROVE AloneInv'
    BY <2>3, CreateRecipeKeeps, CategorizeKeeps
  <2>4. ASSUME AloneInv, NEW c \in Caller, EditRecipe(c) \/ TrashRecipe(c) \/ RestoreRecipe(c) \/ PurgeRecipe(c)
        PROVE  AloneInv'
    BY <2>4, RewritesKeep, RestoreRecipeKeeps, PurgeRecipeKeeps DEF EditRecipe, TrashRecipe
  <2>5. ASSUME AloneInv, NEW k \in {"category", "recipe"}, Syncs(k) PROVE AloneInv'
    BY <2>5, AloneSyncs DEF Kind
  <2>6. ASSUME AloneInv, RecipeToolsRestart PROVE AloneInv'
    BY <2>6, AloneRestarts DEF RecipeToolsRestart
  <2>7. QED
    BY <2>1, <2>2, <2>3, <2>4, <2>5, <2>6, AloneCourse, ReconcilesKeep, AloneRemote DEF CategoriesNext
<1>3. QED
  BY <1>1, <1>2, PTL DEF CategoriesSpec

\* The categories at Paprika form a tree, and no recipe is filed under one that is gone.
THEOREM CategoriesWholeHolds == CategoriesSpec => []CategoriesWhole
<1>1. AloneInv => CategoriesWhole
  BY DEF AloneInv, Orderly, Whole, Tree, Files, CategoriesWhole
<1>2. QED
  BY <1>1, CategoriesInvariant, PTL

----------------------------------------------------------------------------
\* PHOTOS. One place for each token.

\* Recipes that are filed nowhere, which the photo tools leave as they are.
Unfiled(recipes) == /\ DOMAIN recipes \subseteq Slot["recipe"]
                    /\ \A r \in DOMAIN recipes : recipes[r].cats = {}
\* An upload: the recipe, one photo, the recipe.
Triple(bs) == /\ Len(bs) = 3 /\ bs = <<bs[1], bs[2], bs[3]>>
              /\ \A n \in {1, 3} : bs[n].kind = "recipe" /\ Unfiled(bs[n].put)
              /\ bs[2].kind = "photo" /\ \E u : DOMAIN bs[2].put = {u}

\* A call asks for an image, deletes a photo, or uploads; n requests of its three have been answered.
PhotoCourse(op, at, bs, n) ==
  \/ op \in Slot["recipe"] /\ at = "asks" /\ n = 0
  \/ /\ op = "photo" /\ at \in {"asks", "saves", "commits"} /\ n = 0
     /\ One(bs) /\ bs[1].kind = "photo" /\ DOMAIN bs[1].put = {}
  \/ /\ op = "attach" /\ Triple(bs)
     /\ \/ at \in {"asks", "commits"} /\ n = 0
        \/ at = "saves" /\ n \in {0, 1, 2}
PhotoCall(c) == \/ call[c] = Idle /\ sent[c] = 0
                \/ /\ call[c] = [op |-> call[c].op, at |-> call[c].at, batches |-> Batches(c)]
                   /\ PhotoCourse(call[c].op, call[c].at, Batches(c), sent[c])

\* The row a call would make a photo of, and whether it has.
Carries(c, row) == call[c].op = "attach" /\ \E u \in DOMAIN Batches(c)[2].put : row = Batches(c)[2].put[u]
ImageSent(c) == call[c].at = "commits" \/ (call[c].at = "saves" /\ sent[c] = 2)
Holds(c, t) == \E row : Carries(c, row) /\ row.token = t

\* A token is nowhere before it is made, then in the buffer or with one call; it has become a photo only
\* if it is out of the buffer and its call has posted.
InOnePlace(t) ==
  /\ attached[t] \in {0, 1}
  /\ (made[t] = "none" \/ t \in Waiting) => attached[t] = 0 /\ \A c \in Caller : ~Holds(c, t)
  /\ made[t] = "none" => t \notin Waiting
  /\ \A c \in Caller : Holds(c, t) /\ ~ImageSent(c) => attached[t] = 0
  /\ \A c, d \in Caller : Holds(c, t) /\ Holds(d, t) => c = d
\* A photo of a preview is of the recipe that the preview was made for.
Genuine(row) == row.token \in Token => made[row.token] # "none" /\ row.recipe = made[row.token]

\* The buffer: its tokens, each there once.
Once(s) == \A i, j \in DOMAIN s : s[i].token = s[j].token => i = j
Tokens(s) == {s[i].token : i \in DOMAIN s}
Preview == [token : Token, age : Nat]
Entries == Seq(Preview)

\* The inductive invariant of the photo tools.
PhotoRows(rows) == DOMAIN rows = Kind /\ DOMAIN rows["category"] = {} /\ Unfiled(rows["recipe"])
PhotosTyped == /\ PhotoRows(cloud) /\ PhotoRows(store) /\ DOMAIN call = Caller /\ DOMAIN sent = Caller
               /\ DOMAIN made = Token /\ DOMAIN attached = Token
               /\ previews \in Entries /\ Once(previews)
               /\ \A c \in Caller : PhotoCall(c)
Tracked == \A t \in Token : InOnePlace(t)
AllGenuine == /\ \A u \in DOMAIN cloud["photo"] : Genuine(cloud["photo"][u])
              /\ \A c \in Caller : \A row : Carries(c, row) => Genuine(row)
PhotosInv == PhotosTyped /\ Tracked /\ AllGenuine
----------------------------------------------------------------------------
\* The buffer.

\* What is pushed is at the end, and nothing else is new.
LEMMA PushedOnce ==
  ASSUME NEW s \in Entries, Once(s), NEW e \in Preview, e.token \notin Tokens(s)
  PROVE  /\ Pushed(s, e) \in Entries /\ Once(Pushed(s, e))
         /\ Tokens(Pushed(s, e)) \subseteq Tokens(s) \cup {e.token}
<1>1. PICK kept : kept = IF Len(s) >= MaxPreviews THEN Tail(s) ELSE s
  OBVIOUS
<1>2. s \in Seq(Preview) /\ Len(s) \in Nat /\ DOMAIN s = 1..Len(s) /\ \A i \in DOMAIN s : s[i] \in Preview
  BY DEF Entries
<1>3. kept \in Seq(Preview) /\ Once(kept) /\ Tokens(kept) \subseteq Tokens(s)
  <2>1. CASE Len(s) >= MaxPreviews
    <3>1. s # <<>>
      BY <1>2, <2>1, RecipeToolsAssumption
    <3>2. /\ kept \in Seq(Preview) /\ Len(kept) = Len(s) - 1 /\ DOMAIN kept = 1..(Len(s) - 1)
          /\ \A i \in 1..(Len(s) - 1) : kept[i] = s[i + 1]
      BY <1>1, <1>2, <2>1, <3>1
    <3>3. \A i \in DOMAIN kept : i \in Nat /\ i + 1 \in DOMAIN s
      BY <1>2, <3>2
    <3>4. Once(kept)
      <4>1. ASSUME NEW i \in DOMAIN kept, NEW j \in DOMAIN kept, kept[i].token = kept[j].token PROVE i = j
        <5>1. i + 1 = j + 1
          BY <3>2, <3>3, <4>1 DEF Once
        <5>2. QED
          BY <3>3, <5>1
      <4>2. QED
        BY <4>1 DEF Once
    <3>5. QED
      BY <3>2, <3>3, <3>4 DEF Tokens
  <2>2. CASE ~(Len(s) >= MaxPreviews)
    BY <1>1, <1>2, <2>2
  <2>3. QED
    BY <2>1, <2>2
<1>4. PICK new : new = Append(kept, e)
  OBVIOUS
<1>5. /\ new \in Seq(Preview) /\ Len(kept) \in Nat /\ DOMAIN kept = 1..Len(kept) /\ DOMAIN new = 1..(Len(kept) + 1)
      /\ new[Len(kept) + 1] = e /\ \A i \in 1..Len(kept) : new[i] = kept[i]
  BY <1>3, <1>4
<1>6. \A i \in DOMAIN new : i = Len(kept) + 1 \/ i \in DOMAIN kept
  BY <1>5
<1>7. \A i \in DOMAIN kept : new[i].token = kept[i].token /\ kept[i].token # e.token
  BY <1>3, <1>5 DEF Tokens
<1>8. Once(new)
  BY <1>3, <1>5, <1>6, <1>7 DEF Once
<1>9. Tokens(new) \subseteq Tokens(s) \cup {e.token}
  BY <1>3, <1>5, <1>6, <1>7 DEF Tokens
<1>10. QED
  BY <1>1, <1>4, <1>5, <1>8, <1>9 DEF Pushed, Entries

\* What is taken is gone.
LEMMA TakenOnce ==
  ASSUME previews \in Entries, Once(previews), NEW t \in Waiting
  PROVE  /\ Taken(t) \in Entries /\ Once(Taken(t)) /\ Tokens(Taken(t)) \subseteq Waiting \ {t}
         /\ Place(t) \in DOMAIN previews /\ previews[Place(t)].token = t /\ Age(t) \in Nat /\ t \in Token
<1>1. PICK s, p : s = previews /\ p = Place(t)
  OBVIOUS
<1>2. p \in DOMAIN s /\ s[p].token = t
  BY <1>1 DEF Place, Waiting
<1>3. s \in Seq(Preview) /\ Len(s) \in Nat /\ DOMAIN s = 1..Len(s) /\ \A i \in DOMAIN s : s[i] \in Preview
  BY <1>1 DEF Entries
<1>4. p \in 1..Len(s) /\ p \in Nat /\ Len(s) - 1 \in Nat
  BY <1>2, <1>3
<1>5. PICK rest : rest = [i \in 1..(Len(s) - 1) |-> s[IF i < p THEN i ELSE i + 1]]
  OBVIOUS
<1>6. PICK at : at = [i \in 1..(Len(s) - 1) |-> IF i < p THEN i ELSE i + 1]
  OBVIOUS
<1>7. \A i \in DOMAIN rest : i \in Nat /\ at[i] \in Nat /\ at[i] \in DOMAIN s /\ at[i] # p /\ rest[i] = s[at[i]]
  BY <1>3, <1>4, <1>5, <1>6
<1>8. \A i, j \in DOMAIN rest : at[i] = at[j] => i = j
  BY <1>3, <1>4, <1>5, <1>6
<1>9. rest \in Seq(Preview)
  <2>1. \A i \in 1..(Len(s) - 1) : rest[i] \in Preview
    BY <1>3, <1>5, <1>7
  <2>2. rest \in [1..(Len(s) - 1) -> Preview]
    BY <1>5, <2>1
  <2>3. QED
    BY <1>4, <2>2
<1>10. Once(rest)
  BY <1>1, <1>7, <1>8 DEF Once
<1>11. Tokens(rest) \subseteq Waiting \ {t}
  <2>1. ASSUME NEW i \in DOMAIN rest PROVE rest[i].token \in Waiting /\ rest[i].token # t
    BY <1>1, <1>2, <1>7 DEF Waiting, Once
  <2>2. QED
    BY <2>1 DEF Tokens
<1>12. Taken(t) = rest
  BY <1>1, <1>5 DEF Taken
<1>13. QED
  BY <1>1, <1>2, <1>3, <1>9, <1>10, <1>11, <1>12 DEF Entries, Age, Preview

----------------------------------------------------------------------------
\* Steps that make nothing of a token.

\* Fewer tokens wait, no call gets one, and none that has posted is back before that.
LEMMA NothingMade ==
  ASSUME PhotosInv, PhotosTyped', Waiting' \subseteq Waiting, made' = made, attached' = attached,
         \A d \in Caller : \A row : Carries(d, row)' => Carries(d, row),
         \A d \in Caller : ImageSent(d) => ImageSent(d)' \/ \A row : ~Carries(d, row)',
         \A u \in DOMAIN cloud'["photo"] : u \in DOMAIN cloud["photo"] /\ cloud'["photo"][u] = cloud["photo"][u]
  PROVE  PhotosInv'
<1>1. \A d \in Caller : \A t : Holds(d, t)' => Holds(d, t)
  BY DEF Holds
<1>2. \A row : Genuine(row)' <=> Genuine(row)
  BY DEF Genuine
<1>3. AllGenuine'
  BY <1>2 DEF PhotosInv, AllGenuine
<1>4. ASSUME NEW t \in Token PROVE InOnePlace(t)'
  <2>1. InOnePlace(t)
    BY DEF PhotosInv, Tracked
  <2>2. \A d \in Caller : Holds(d, t)' /\ ~ImageSent(d)' => Holds(d, t) /\ ~ImageSent(d)
    BY <1>1 DEF Holds
  <2>3. QED
    BY <1>1, <2>1, <2>2 DEF InOnePlace
<1>5. QED
  BY <1>3, <1>4 DEF PhotosInv, Tracked

\* A call that is no upload, or that makes no photo any more, may begin, go on or end.
LEMMA OtherStep ==
  ASSUME PhotosInv, NEW c \in Caller, NEW new, call' = [call EXCEPT ![c] = new], UNCHANGED recipeToolVars,
         PhotoCall(c)', \A row : Carries(c, row)' => Carries(c, row), ImageSent(c) => ImageSent(c)' \/ \A row : ~Carries(c, row)',
         PhotoRows(cloud'), PhotoRows(store'),
         \A u \in DOMAIN cloud'["photo"] : u \in DOMAIN cloud["photo"] /\ cloud'["photo"][u] = cloud["photo"][u]
  PROVE  PhotosInv'
<1>1. DOMAIN call' = Caller /\ call'[c] = new /\ \A d \in Caller \ {c} : call'[d] = call[d]
  BY DEF PhotosInv, PhotosTyped
<1>2. \A d \in Caller \ {c} : (PhotoCall(d)' <=> PhotoCall(d)) /\ (ImageSent(d)' <=> ImageSent(d))
  BY <1>1 DEF PhotoCall, ImageSent, Batches, recipeToolVars
<1>3. \A d \in Caller \ {c} : \A row : Carries(d, row)' <=> Carries(d, row)
  BY <1>1 DEF Carries, Batches
<1>4. PhotosTyped'
  BY <1>1, <1>2 DEF PhotosInv, PhotosTyped, recipeToolVars
<1>5. Waiting' \subseteq Waiting
  BY DEF Waiting, recipeToolVars
<1>6. \A d \in Caller : \A row : Carries(d, row)' => Carries(d, row)
  BY <1>3
<1>7. \A d \in Caller : ImageSent(d) => ImageSent(d)' \/ \A row : ~Carries(d, row)'
  BY <1>2
<1>8. QED
  BY <1>4, <1>5, <1>6, <1>7, NothingMade DEF recipeToolVars

\* Nor does a step that is no call's, or after which fewer previews wait.
LEMMA AroundStep ==
  ASSUME PhotosInv, UNCHANGED <<call, made, sent, attached>>,
         previews' \in Entries, Once(previews'), Waiting' \subseteq Waiting, PhotoRows(cloud'), PhotoRows(store'),
         \A u \in DOMAIN cloud'["photo"] : u \in DOMAIN cloud["photo"] /\ cloud'["photo"][u] = cloud["photo"][u]
  PROVE  PhotosInv'
<1>1. \A d \in Caller : (PhotoCall(d)' <=> PhotoCall(d)) /\ (ImageSent(d)' <=> ImageSent(d))
  BY DEF PhotoCall, ImageSent, Batches
<1>2. \A d \in Caller : \A row : Carries(d, row)' <=> Carries(d, row)
  BY DEF Carries, Batches
<1>3. PhotosTyped'
  BY <1>1 DEF PhotosInv, PhotosTyped
<1>4. QED
  BY <1>1, <1>2, <1>3, NothingMade

\* The tokens that wait and those of the buffer.
LEMMA WaitingTokens == Waiting = Tokens(previews) /\ Waiting' = Tokens(previews')
BY DEF Waiting, Tokens

\* The one photo of a call, at u: of recipe r and from token t.
ImageAt(bs, u, r, t) == bs[2].put = [v \in {u} |-> [recipe |-> r, token |-> t]]

\* An upload begins: its token is out of the buffer, and it is the image of the call's own recipe.
LEMMA UploadBegins ==
  ASSUME PhotosInv, NEW c \in Caller, NEW new, call' = [call EXCEPT ![c] = new], \A row : ~Carries(c, row),
         UNCHANGED <<cloud, store, sent, attached>>, sent[c] = 0,
         NEW bs, NEW r, NEW t, new = [op |-> "attach", at |-> "asks", batches |-> bs], Triple(bs),
         NEW u, ImageAt(bs, u, r, t),
         previews' \in Entries, Once(previews'), Waiting' \subseteq Waiting, t \notin Waiting',
         t \in Token => attached[t] = 0 /\ \A d \in Caller : ~Holds(d, t),
         DOMAIN made' = Token,
         t \in Token => made'[t] = r /\ r # "none",
         \A x \in Token : made[x] # "none" => made'[x] = made[x],
         \A x \in Token \ {t} : made'[x] = made[x]
  PROVE  PhotosInv'
<1>1. DOMAIN call' = Caller /\ call'[c] = new /\ \A d \in Caller \ {c} : call'[d] = call[d]
  BY DEF PhotosInv, PhotosTyped
<1>2. \A d \in Caller \ {c} : (PhotoCall(d)' <=> PhotoCall(d)) /\ (ImageSent(d)' <=> ImageSent(d))
  BY <1>1 DEF PhotoCall, ImageSent, Batches
<1>3. \A d \in Caller \ {c} : \A row : Carries(d, row)' <=> Carries(d, row)
  BY <1>1 DEF Carries, Batches
<1>4. call'[c].op = "attach" /\ call'[c].at = "asks" /\ Batches(c)' = bs
  BY <1>1 DEF Batches
<1>5. \A row : Carries(c, row)' <=> row = [recipe |-> r, token |-> t]
  <2>1. DOMAIN bs[2].put = {u} /\ bs[2].put[u] = [recipe |-> r, token |-> t]
    BY DEF ImageAt
  <2>2. QED
    BY <1>4, <2>1 DEF Carries
<1>6. PhotoCall(c)'
  BY <1>1, <1>4 DEF PhotoCall, PhotoCourse
<1>7. PhotosTyped'
  BY <1>1, <1>2, <1>6 DEF PhotosInv, PhotosTyped
<1>8. \A d \in Caller \ {c} : \A x : Holds(d, x)' <=> Holds(d, x)
  BY <1>3 DEF Holds
<1>9. \A x : (Holds(c, x)' <=> x = t) /\ ~Holds(c, x)
  <2>1. PICK mine : mine = [recipe |-> r, token |-> t]
    OBVIOUS
  <2>2. mine.token = t /\ \A row : Carries(c, row)' <=> row = mine
    BY <1>5, <2>1
  <2>3. QED
    BY <2>2 DEF Holds
<1>10. ASSUME NEW x \in Token PROVE InOnePlace(x)'
  <2>1. InOnePlace(x)
    BY DEF PhotosInv, Tracked
  <2>2. CASE x = t
    <3>1. made'[x] # "none" /\ x \notin Waiting' /\ attached'[x] = 0
      BY <2>2
    <3>2. \A d \in Caller : Holds(d, x)' => d = c
      BY <1>8, <2>2
    <3>3. QED
      BY <3>1, <3>2 DEF InOnePlace
  <2>3. CASE x # t
    <3>1. made'[x] = made[x] /\ attached'[x] = attached[x] /\ (x \in Waiting' => x \in Waiting)
      BY <2>3
    <3>2. \A d \in Caller : (Holds(d, x)' => Holds(d, x) /\ d # c)
      BY <1>8, <1>9, <2>3
    <3>3. \A d \in Caller : Holds(d, x)' /\ ~ImageSent(d)' => Holds(d, x) /\ ~ImageSent(d)
      BY <1>2, <3>2
    <3>4. QED
      BY <2>1, <3>1, <3>2, <3>3 DEF InOnePlace
  <2>4. QED
    BY <2>2, <2>3
<1>11. \A row : Genuine(row) => Genuine(row)'
  BY DEF Genuine
<1>12. AllGenuine'
  <2>1. \A d \in Caller : \A row : Carries(d, row)' => Genuine(row)'
    <3>1. \A row : Carries(c, row)' => Genuine(row)'
      BY <1>5 DEF Genuine
    <3>2. \A d \in Caller \ {c} : \A row : Carries(d, row)' => Genuine(row)'
      BY <1>3, <1>11 DEF PhotosInv, AllGenuine
    <3>3. QED
      BY <3>1, <3>2
  <2>2. QED
    BY <1>11, <2>1 DEF PhotosInv, AllGenuine
<1>13. QED
  BY <1>7, <1>10, <1>12 DEF PhotosInv, Tracked

\* What a call uploads.
LEMMA Uploads ==
  ASSUME PhotoRows(store), NEW r \in Dishes, NEW t, Enough("photo", {r})
  PROVE  Triple(Upload(r, t)) /\ \E u : ImageAt(Upload(r, t), u, r, t)
<1>1. PICK f : f = Minted("photo", {r})
  OBVIOUS
<1>2. PICK u : u = f[r]
  OBVIOUS
<1>3. PICK rows : rows = [v \in {u} |-> [recipe |-> r, token |-> t]]
  OBVIOUS
<1>4. NewRows("photo", {r}, LAMBDA x : [recipe |-> x, token |-> t]) = rows
  <2>1. {f[x] : x \in {r}} = {u} /\ (CHOOSE x \in {r} : f[x] = u) = r
    BY <1>2
  <2>2. QED
    BY <1>1, <1>3, <2>1 DEF NewRows
<1>5. PICK p, q : p = Put("photo", rows) /\ q = Put("recipe", [v \in {r} |-> store.recipe[r]])
  OBVIOUS
<1>6. Upload(r, t) = <<q, p, q>>
  BY <1>4, <1>5 DEF Upload
<1>7. p.kind = "photo" /\ p.put = rows /\ q.kind = "recipe"
  BY <1>5 DEF Put, Batch
<1>8. PICK bs : bs = <<q, p, q>>
  OBVIOUS
<1>9. bs[1] = q /\ bs[2] = p /\ bs[3] = q /\ Len(bs) = 3
  BY <1>8
<1>10. bs[2].put = [v \in {u} |-> [recipe |-> r, token |-> t]]
  BY <1>3, <1>7, <1>9
<1>11. DOMAIN bs[2].put = {u} /\ Unfiled(bs[1].put) /\ Unfiled(bs[3].put)
  <2>1. PICK dish : dish = store.recipe[r]
    OBVIOUS
  <2>2. q.put = [v \in {r} |-> dish]
    BY <1>5, <2>1 DEF Put, Batch
  <2>3. dish.cats = {} /\ r \in Slot["recipe"]
    BY <2>1 DEF PhotoRows, Unfiled, Dishes, Known
  <2>4. Unfiled(q.put)
    BY <2>2, <2>3 DEF Unfiled
  <2>5. QED
    BY <1>9, <1>10, <2>4
<1>12. Triple(bs)
  BY <1>7, <1>8, <1>9, <1>11 DEF Triple
<1>13. ImageAt(bs, u, r, t)
  BY <1>10 DEF ImageAt
<1>14. QED
  BY <1>6, <1>8, <1>12, <1>13

----------------------------------------------------------------------------
\* The steps of the photo tools.

\* An idle call and one that asks for an image or deletes a photo hold no token.
LEMMA HoldsNothing ==
  ASSUME NEW c \in Caller, call[c].op # "attach" PROVE \A row : ~Carries(c, row)
BY DEF Carries

\* generate_recipe_photo: the provider is asked.
LEMMA GeneratePhotoKeeps ==
  ASSUME PhotosInv, NEW c \in Caller, GeneratePhoto(c) PROVE PhotosInv'
<1>1. PICK r \in Dishes : Start(c, r, "asks", <<>>) /\ UNCHANGED recipeToolVars
  BY DEF GeneratePhoto, Asks
<1>2. PICK new : new = [op |-> r, at |-> "asks", batches |-> <<>>]
  OBVIOUS
<1>3. call[c] = Idle /\ call' = [call EXCEPT ![c] = new] /\ cloud' = cloud
  BY <1>1, <1>2 DEF Start
<1>4. call'[c] = new /\ new.op = r /\ new.at = "asks"
  BY <1>2, <1>3 DEF PhotosInv, PhotosTyped
<1>5. sent[c] = 0 /\ sent' = sent /\ store' = store /\ PhotoRows(cloud) /\ PhotoRows(store) /\ r \in Slot["recipe"]
  BY <1>1, <1>3 DEF PhotosInv, PhotosTyped, PhotoCall, PhotoCourse, Idle, recipeToolVars, Start, PhotoRows, Unfiled, Dishes, Known
<1>6. PhotoCall(c)'
  BY <1>2, <1>4, <1>5 DEF PhotoCall, PhotoCourse, Batches
<1>7. \A row : ~Carries(c, row)'
  BY <1>4, <1>5, RecipeToolsAssumption DEF Carries
<1>8. QED
  BY <1>1, <1>3, <1>5, <1>6, <1>7, OtherStep

\* What a batch of recipes or photos does.
LEMMA AppliedStocked ==
  ASSUME NEW rows, PhotoRows(rows), NEW b, b.kind \in {"recipe", "photo"},
         b.kind = "recipe" => Unfiled(b.put)
  PROVE  /\ PhotoRows(Applied(rows, b))
         /\ b.kind = "recipe" => Applied(rows, b)["photo"] = rows["photo"]
         /\ b.kind = "photo" =>
              \A u \in DOMAIN Applied(rows, b)["photo"] :
                \/ u \in DOMAIN b.put /\ Applied(rows, b)["photo"][u] = b.put[u]
                \/ u \in DOMAIN rows["photo"] /\ Applied(rows, b)["photo"][u] = rows["photo"][u]
<1>1. DOMAIN rows = Kind /\ b.kind \in Kind
  BY DEF PhotoRows, Unfiled, Kind
<1>2. PICK new : new = Applied(rows, b)
  OBVIOUS
<1>3. /\ DOMAIN new = Kind
      /\ \A k \in Kind \ {b.kind} : new[k] = rows[k]
      /\ DOMAIN new[b.kind] = DOMAIN b.put \cup (DOMAIN rows[b.kind] \ b.drop)
      /\ \A u \in DOMAIN b.put : new[b.kind][u] = b.put[u]
      /\ \A u \in DOMAIN rows[b.kind] \ (b.drop \cup DOMAIN b.put) : new[b.kind][u] = rows[b.kind][u]
  BY <1>1, <1>2, AppliedRows
<1>4. PhotoRows(new) /\ (b.kind = "recipe" => new["photo"] = rows["photo"])
  BY <1>3 DEF PhotoRows, Unfiled, Kind
<1>5. ASSUME b.kind = "photo", NEW u \in DOMAIN new["photo"]
      PROVE  \/ u \in DOMAIN b.put /\ new["photo"][u] = b.put[u]
             \/ u \in DOMAIN rows["photo"] /\ new["photo"][u] = rows["photo"][u]
  BY <1>3, <1>5
<1>6. QED
  BY <1>2, <1>4, <1>5

\* A photo is made, its answer comes or does not; the provider finds none.
LEMMA CallStops ==
  ASSUME PhotosInv, NEW c \in Caller, Stops(c), UNCHANGED recipeToolVars PROVE PhotosInv'
<1>1. call[c].at = "asks" /\ call' = [call EXCEPT ![c] = Idle] /\ UNCHANGED <<cloud, store>>
  BY DEF Stops
<1>2. call'[c] = Idle
  BY <1>1 DEF PhotosInv, PhotosTyped
<1>3. sent[c] = 0 /\ sent' = sent
  BY <1>1 DEF PhotosInv, PhotosTyped, PhotoCall, PhotoCourse, recipeToolVars
<1>4. PhotoCall(c)' /\ \A row : ~Carries(c, row)'
  BY <1>2, <1>3 DEF PhotoCall, Carries, Idle
<1>5. QED
  BY <1>1, <1>4, OtherStep DEF PhotosInv, PhotosTyped

\* A call that goes on to save what it asked about.
LEMMA CallProceeds ==
  ASSUME PhotosInv, NEW c \in Caller, call[c].op \in {"attach", "photo"}, Proceeds(c), UNCHANGED recipeToolVars
  PROVE  PhotosInv'
<1>1. PICK new : new = [call[c] EXCEPT !.at = "saves"]
  OBVIOUS
<1>2. call[c].at = "asks" /\ call' = [call EXCEPT ![c] = new] /\ UNCHANGED <<cloud, store>>
  BY <1>1 DEF Proceeds
<1>3. call'[c] = new
  BY <1>2 DEF PhotosInv, PhotosTyped
<1>4. /\ call[c] = [op |-> call[c].op, at |-> call[c].at, batches |-> Batches(c)]
      /\ PhotoCourse(call[c].op, call[c].at, Batches(c), sent[c])
  BY <1>2 DEF PhotosInv, PhotosTyped, PhotoCall, Idle
<1>5. new = [op |-> call[c].op, at |-> "saves", batches |-> Batches(c)]
  BY <1>1, <1>4
<1>6. call'[c].op = call[c].op /\ call'[c].at = "saves" /\ Batches(c)' = Batches(c) /\ sent'[c] = sent[c]
  BY <1>3, <1>5 DEF Batches, recipeToolVars
<1>7. PhotoCourse(call[c].op, "saves", Batches(c), sent[c])
  BY <1>2, <1>4, RecipeToolsAssumption DEF PhotoCourse
<1>8. PhotoCall(c)'
  BY <1>3, <1>5, <1>6, <1>7 DEF PhotoCall
<1>9. (\A row : Carries(c, row)' => Carries(c, row)) /\ ~ImageSent(c)
  BY <1>2, <1>6 DEF Carries, ImageSent
<1>10. QED
  BY <1>2, <1>8, <1>9, OtherStep DEF PhotosInv, PhotosTyped

\* delete_recipe_photo: the photo is looked up.
LEMMA DeletePhotoKeeps ==
  ASSUME PhotosInv, NEW c \in Caller, DeletePhoto(c) PROVE PhotosInv'
<1>1. PICK u \in Known("photo") : Start(c, "photo", "asks", <<Drop("photo", {u})>>) /\ UNCHANGED recipeToolVars
  BY DEF DeletePhoto, Asks
<1>2. PICK b : b = Drop("photo", {u})
  OBVIOUS
<1>3. PICK new : new = [op |-> "photo", at |-> "asks", batches |-> <<b>>]
  OBVIOUS
<1>4. call[c] = Idle /\ call' = [call EXCEPT ![c] = new] /\ UNCHANGED <<cloud, store>>
  BY <1>1, <1>2, <1>3 DEF Start
<1>5. call'[c] = new
  BY <1>4 DEF PhotosInv, PhotosTyped
<1>6. sent[c] = 0 /\ sent' = sent
  BY <1>1, <1>4, RecipeToolsAssumption DEF PhotosInv, PhotosTyped, PhotoCall, PhotoCourse, Idle, recipeToolVars
<1>7. One(<<b>>) /\ <<b>>[1] = b /\ b.kind = "photo" /\ DOMAIN b.put = {}
  BY <1>2 DEF One, Drop, Batch, NoRows
<1>8. PhotoCourse("photo", "asks", <<b>>, 0)
  BY <1>7 DEF PhotoCourse
<1>9. PhotoCall(c)' /\ \A row : ~Carries(c, row)'
  BY <1>3, <1>5, <1>6, <1>8 DEF PhotoCall, Carries, Batches
<1>10. QED
  BY <1>1, <1>4, <1>9, OtherStep DEF PhotosInv, PhotosTyped

\* A deletion of a photo is one batch that brings nothing.
LEMMA DeletesPhoto ==
  ASSUME PhotosInv, NEW c \in Caller, call[c].op = "photo"
  PROVE  /\ call[c] = [op |-> "photo", at |-> call[c].at, batches |-> Batches(c)]
         /\ One(Batches(c)) /\ Head(Batches(c)) = Batches(c)[1]
         /\ Batches(c)[1].kind = "photo" /\ DOMAIN Batches(c)[1].put = {}
         /\ sent[c] = 0 /\ call[c].at \in {"asks", "saves", "commits"} /\ \A row : ~Carries(c, row)
<1>1. call[c] # Idle
  BY DEF Idle
<1>2. /\ call[c] = [op |-> "photo", at |-> call[c].at, batches |-> Batches(c)]
      /\ PhotoCourse("photo", call[c].at, Batches(c), sent[c])
  BY <1>1 DEF PhotosInv, PhotosTyped, PhotoCall
<1>3. /\ One(Batches(c)) /\ Batches(c)[1].kind = "photo" /\ DOMAIN Batches(c)[1].put = {}
      /\ sent[c] = 0 /\ call[c].at \in {"asks", "saves", "commits"}
  BY <1>2, RecipeToolsAssumption DEF PhotoCourse
<1>4. QED
  BY <1>2, <1>3, OneBatch DEF Carries

\* It is posted.
LEMMA DeletionSaves ==
  ASSUME PhotosInv, NEW c \in Caller, call[c].op = "photo", Saves(c), UNCHANGED recipeToolVars PROVE PhotosInv'
<1>1. PICK b, gone : b = Batches(c)[1] /\ gone = Applied(cloud, b)
  OBVIOUS
<1>2. /\ call[c] = [op |-> "photo", at |-> call[c].at, batches |-> Batches(c)]
      /\ One(Batches(c)) /\ Head(Batches(c)) = b /\ b.kind = "photo" /\ DOMAIN b.put = {} /\ sent[c] = 0
  BY <1>1, DeletesPhoto
<1>3. PhotoRows(gone) /\ \A u \in DOMAIN gone["photo"] : u \in DOMAIN cloud["photo"] /\ gone["photo"][u] = cloud["photo"][u]
  BY <1>1, <1>2, AppliedStocked DEF PhotosInv, PhotosTyped
<1>4. store' = store /\ (cloud' = cloud \/ cloud' = gone)
  BY <1>1, <1>2 DEF Saves, Accepted, Batches
<1>5. PhotoRows(cloud') /\ PhotoRows(store')
      /\ \A u \in DOMAIN cloud'["photo"] : u \in DOMAIN cloud["photo"] /\ cloud'["photo"][u] = cloud["photo"][u]
  <2>1. CASE cloud' = cloud
    BY <1>4, <2>1 DEF PhotosInv, PhotosTyped
  <2>2. CASE cloud' = gone
    BY <1>3, <1>4, <2>2 DEF PhotosInv, PhotosTyped
  <2>3. QED
    BY <1>4, <2>1, <2>2
<1>6. PICK new : /\ call' = [call EXCEPT ![c] = new]
                 /\ new = Idle \/ new = [op |-> "photo", at |-> "commits", batches |-> Batches(c)]
  <2>1. PICK next : next = [call[c] EXCEPT !.at = "commits"]
    OBVIOUS
  <2>2. next = [op |-> "photo", at |-> "commits", batches |-> Batches(c)]
    BY <1>2, <2>1
  <2>3. call' = [call EXCEPT ![c] = next] \/ call' = [call EXCEPT ![c] = Idle]
    BY <2>1 DEF Saves, GivesUp
  <2>4. QED
    BY <2>2, <2>3
<1>7. call'[c] = new /\ sent'[c] = 0
  BY <1>2, <1>6 DEF PhotosInv, PhotosTyped, recipeToolVars
<1>8. PhotoCall(c)' /\ \A row : ~Carries(c, row)'
  <2>1. CASE new = Idle
    BY <1>7, <2>1 DEF PhotoCall, Carries, Idle
  <2>2. CASE new = [op |-> "photo", at |-> "commits", batches |-> Batches(c)]
    <3>1. call'[c].op = "photo" /\ call'[c].at = "commits" /\ Batches(c)' = Batches(c)
      BY <1>7, <2>2 DEF Batches
    <3>2. PhotoCourse("photo", "commits", Batches(c), 0)
      BY <1>1, <1>2 DEF PhotoCourse
    <3>3. QED
      BY <1>7, <2>2, <3>1, <3>2 DEF PhotoCall, Carries
  <2>3. QED
    BY <1>6, <2>1, <2>2
<1>9. QED
  BY <1>5, <1>6, <1>8, OtherStep

\* And committed.
LEMMA DeletionCommits ==
  ASSUME PhotosInv, NEW c \in Caller, call[c].op = "photo", Commits(c), UNCHANGED recipeToolVars PROVE PhotosInv'
<1>1. PICK b, gone : b = Batches(c)[1] /\ gone = Applied(store, b)
  OBVIOUS
<1>2. One(Batches(c)) /\ Head(Batches(c)) = b /\ b.kind = "photo" /\ DOMAIN b.put = {} /\ sent[c] = 0 /\ Len(Batches(c)) = 1
  BY <1>1, DeletesPhoto, OneBatch
<1>3. PhotoRows(gone)
  BY <1>1, <1>2, AppliedStocked DEF PhotosInv, PhotosTyped
<1>4. call' = [call EXCEPT ![c] = Idle] /\ cloud' = cloud /\ (store' = store \/ store' = gone)
  BY <1>1, <1>2 DEF Commits, GoesOn, GivesUp, Batches
<1>5. PhotoRows(cloud') /\ PhotoRows(store')
  <2>1. CASE store' = store
    BY <1>4, <2>1 DEF PhotosInv, PhotosTyped
  <2>2. CASE store' = gone
    BY <1>3, <1>4, <2>2 DEF PhotosInv, PhotosTyped
  <2>3. QED
    BY <1>4, <2>1, <2>2
<1>6. call'[c] = Idle /\ sent'[c] = 0
  BY <1>2, <1>4 DEF PhotosInv, PhotosTyped, recipeToolVars
<1>7. PhotoCall(c)' /\ \A row : ~Carries(c, row)'
  BY <1>6 DEF PhotoCall, Carries, Idle
<1>8. QED
  BY <1>4, <1>5, <1>7, OtherStep

\* A row of a photo's own is brought by nobody who is not uploading.
LEMMA IdleHolds ==
  ASSUME PhotosInv, NEW c \in Caller, call[c].op # "attach"
  PROVE  /\ \A row : ~Carries(c, row)
         /\ call[c] = Idle \/ call[c].at = "asks" => sent[c] = 0
BY RecipeToolsAssumption DEF Carries, PhotosInv, PhotosTyped, PhotoCall, PhotoCourse

\* upload_recipe_photo, of a link or of bytes.
LEMMA UploadPhotoKeeps ==
  ASSUME PhotosInv, NEW c \in Caller, UploadPhoto(c) PROVE PhotosInv'
<1>1. PICK r \in Dishes : /\ Enough("photo", {r})
                          /\ Start(c, "attach", "asks", Upload(r, NoToken)) /\ UNCHANGED recipeToolVars
  BY DEF UploadPhoto, Asks
<1>2. PICK bs : bs = Upload(r, NoToken)
  OBVIOUS
<1>3. PICK new : new = [op |-> "attach", at |-> "asks", batches |-> bs]
  OBVIOUS
<1>4. call[c] = Idle /\ call' = [call EXCEPT ![c] = new] /\ UNCHANGED <<cloud, store, sent, attached, made, previews>>
  BY <1>1, <1>2, <1>3 DEF Start, recipeToolVars
<1>5. r \in Slot["recipe"]
  BY DEF PhotosInv, PhotosTyped, PhotoRows, Unfiled, Dishes, Known
<1>6. Triple(bs) /\ \E u : ImageAt(bs, u, r, NoToken)
  BY <1>1, <1>2, <1>5, Uploads DEF PhotosInv, PhotosTyped
<1>7. PICK u : ImageAt(bs, u, r, NoToken)
  BY <1>6
<1>8. sent[c] = 0 /\ \A row : ~Carries(c, row)
  BY <1>4, IdleHolds DEF Idle
<1>9. Waiting' = Waiting /\ previews' \in Entries /\ Once(previews') /\ DOMAIN made' = Token
  BY <1>4 DEF Waiting, PhotosInv, PhotosTyped
<1>10. NoToken \notin Token /\ NoToken \notin Waiting
  <2>1. \A i \in DOMAIN previews : previews[i] \in Preview
    BY DEF PhotosInv, PhotosTyped, Entries
  <2>2. QED
    BY <2>1, RecipeToolsAssumption DEF Waiting, Preview
<1>11. QED
  BY <1>3, <1>4, <1>6, <1>7, <1>8, <1>9, <1>10, UploadBegins

\* Of a preview: its time is over, it is put back, or the call has it.
LEMMA UploadPreviewKeeps ==
  ASSUME PhotosInv, NEW c \in Caller, UploadPreview(c) PROVE PhotosInv'
<1>1. PICK t \in Waiting, r \in Dishes :
        /\ Enough("photo", {r})
        /\ \/ previews' = Taken(t) /\ UNCHANGED toolVars
           \/ previews' = Pushed(Taken(t), [token |-> t, age |-> Age(t)]) /\ UNCHANGED toolVars
           \/ made[t] = r /\ previews' = Taken(t) /\ Asks(c, "attach", Upload(r, t))
        /\ UNCHANGED <<made, sent, attached>>
  BY DEF UploadPreview
<1>2. PICK rest : rest = Taken(t)
  OBVIOUS
<1>3. rest \in Entries /\ Once(rest) /\ Tokens(rest) \subseteq Waiting \ {t} /\ Age(t) \in Nat /\ t \in Token
  BY <1>2, TakenOnce DEF PhotosInv, PhotosTyped
<1>4. PhotoRows(cloud) /\ PhotoRows(store) /\ r \in Slot["recipe"]
  BY DEF PhotosInv, PhotosTyped, PhotoRows, Unfiled, Dishes, Known
<1>5. CASE previews' = Taken(t) /\ UNCHANGED toolVars
  <2>1. Waiting' \subseteq Waiting
    BY <1>2, <1>3, <1>5, WaitingTokens
  <2>2. QED
    BY <1>1, <1>2, <1>3, <1>4, <1>5, <2>1, AroundStep DEF toolVars
<1>6. CASE previews' = Pushed(Taken(t), [token |-> t, age |-> Age(t)]) /\ UNCHANGED toolVars
  <2>1. PICK e : e = [token |-> t, age |-> Age(t)]
    OBVIOUS
  <2>2. e \in Preview /\ e.token = t
    BY <1>3, <2>1 DEF Preview
  <2>3. PICK back : back = Pushed(rest, e)
    OBVIOUS
  <2>4. back \in Entries /\ Once(back) /\ Tokens(back) \subseteq Tokens(rest) \cup {t}
    BY <1>3, <2>2, <2>3, PushedOnce
  <2>5. previews' = back /\ UNCHANGED <<cloud, store, call>>
    BY <1>2, <1>6, <2>1, <2>3 DEF toolVars
  <2>6. Waiting' \subseteq Waiting
    BY <1>3, <2>4, <2>5, WaitingTokens
  <2>7. QED
    BY <1>1, <1>4, <2>4, <2>5, <2>6, AroundStep
<1>7. CASE made[t] = r /\ previews' = Taken(t) /\ Asks(c, "attach", Upload(r, t))
  <2>1. PICK bs : bs = Upload(r, t)
    OBVIOUS
  <2>2. PICK new : new = [op |-> "attach", at |-> "asks", batches |-> bs]
    OBVIOUS
  <2>3. call[c] = Idle /\ call' = [call EXCEPT ![c] = new] /\ UNCHANGED <<cloud, store, sent, attached, made>>
    BY <1>1, <1>7, <2>1, <2>2 DEF Asks, Start
  <2>4. Triple(bs) /\ \E u : ImageAt(bs, u, r, t)
    BY <1>1, <1>4, <2>1, Uploads
  <2>5. PICK u : ImageAt(bs, u, r, t)
    BY <2>4
  <2>6. sent[c] = 0 /\ \A row : ~Carries(c, row)
    BY <2>3, IdleHolds DEF Idle
  <2>7. Waiting' \subseteq Waiting /\ t \notin Waiting' /\ previews' \in Entries /\ Once(previews')
    BY <1>2, <1>3, <1>7, WaitingTokens
  <2>8. InOnePlace(t) /\ DOMAIN made = Token
    BY <1>3 DEF PhotosInv, PhotosTyped, Tracked
  <2>9. attached[t] = 0 /\ (\A d \in Caller : ~Holds(d, t)) /\ r # "none" /\ made'[t] = r /\ DOMAIN made' = Token
    BY <1>7, <2>3, <2>8 DEF InOnePlace
  <2>10. QED
    BY <2>2, <2>3, <2>4, <2>5, <2>6, <2>7, <2>9, UploadBegins
<1>8. QED
  BY <1>1, <1>5, <1>6, <1>7

\* The provider answers with an image: it waits under a new token, or the call goes on to upload it.
LEMMA GenerationEndsKeeps ==
  ASSUME PhotosInv, NEW c \in Caller, GenerationEnds(c) PROVE PhotosInv'
<1>1. PICK t \in Token, r \in Slot["recipe"] :
        /\ r = call[c].op /\ call[c].at = "asks"
        /\ made[t] = "none" /\ made' = [made EXCEPT ![t] = r]
        /\ \/ previews' = Pushed(previews, [token |-> t, age |-> 0]) /\ call' = [call EXCEPT ![c] = Idle]
           \/ /\ r \in Dishes /\ Enough("photo", {r})
              /\ call' = [call EXCEPT ![c] = [op |-> "attach", at |-> "asks", batches |-> Upload(r, t)]]
              /\ UNCHANGED previews
        /\ UNCHANGED <<cloud, store, sent, attached>>
  BY DEF GenerationEnds
<1>2. r # "none" /\ call[c].op # "attach"
  BY <1>1, RecipeToolsAssumption
<1>3. sent[c] = 0 /\ \A row : ~Carries(c, row)
  BY <1>1, <1>2, IdleHolds
<1>4. DOMAIN made' = Token /\ made'[t] = r /\ \A x \in Token \ {t} : made'[x] = made[x]
  BY <1>1 DEF PhotosInv, PhotosTyped
<1>5. attached[t] = 0 /\ t \notin Waiting /\ \A d \in Caller : ~Holds(d, t)
  BY <1>1 DEF PhotosInv, Tracked, InOnePlace
<1>6. previews \in Entries /\ Once(previews) /\ DOMAIN call = Caller /\ PhotoRows(cloud) /\ PhotoRows(store)
  BY DEF PhotosInv, PhotosTyped
<1>7. CASE previews' = Pushed(previews, [token |-> t, age |-> 0]) /\ call' = [call EXCEPT ![c] = Idle]
  <2>1. PICK e : e = [token |-> t, age |-> 0]
    OBVIOUS
  <2>2. e \in Preview /\ e.token = t /\ e.token \notin Tokens(previews)
    BY <1>5, <2>1, WaitingTokens DEF Preview
  <2>3. previews' \in Entries /\ Once(previews') /\ Waiting' \subseteq Waiting \cup {t}
    BY <1>6, <1>7, <2>1, <2>2, PushedOnce, WaitingTokens
  <2>4. call'[c] = Idle /\ DOMAIN call' = Caller /\ \A d \in Caller \ {c} : call'[d] = call[d]
    BY <1>6, <1>7
  <2>5. \A d \in Caller \ {c} : (PhotoCall(d)' <=> PhotoCall(d)) /\ (ImageSent(d)' <=> ImageSent(d))
    BY <1>1, <2>4 DEF PhotoCall, ImageSent, Batches
  <2>6. \A d \in Caller : \A row : Carries(d, row)' => Carries(d, row) /\ d # c
    <3>1. \A row : ~Carries(c, row)'
      BY <2>4 DEF Carries, Idle
    <3>2. \A d \in Caller \ {c} : \A row : Carries(d, row)' => Carries(d, row)
      BY <2>4 DEF Carries, Batches
    <3>3. QED
      BY <3>1, <3>2
  <2>7. \A d \in Caller : \A x : Holds(d, x)' => Holds(d, x) /\ d # c
    BY <2>6 DEF Holds
  <2>8. PhotosTyped'
    <3>1. PhotoCall(c)'
      BY <1>1, <1>3, <2>4 DEF PhotoCall
    <3>2. QED
      BY <1>1, <1>4, <2>3, <2>4, <2>5, <3>1 DEF PhotosInv, PhotosTyped
  <2>9. ASSUME NEW x \in Token PROVE InOnePlace(x)'
    <3>1. InOnePlace(x)
      BY DEF PhotosInv, Tracked
    <3>2. CASE x = t
      BY <1>1, <1>2, <1>4, <1>5, <2>7, <3>2 DEF InOnePlace
    <3>3. CASE x # t
      <4>1. made'[x] = made[x] /\ attached'[x] = attached[x] /\ (x \in Waiting' => x \in Waiting)
        BY <1>1, <1>4, <2>3, <3>3
      <4>2. \A d \in Caller : Holds(d, x)' /\ ~ImageSent(d)' => Holds(d, x) /\ ~ImageSent(d)
        BY <2>5, <2>7
      <4>3. QED
        BY <2>7, <3>1, <4>1, <4>2 DEF InOnePlace
    <3>4. QED
      BY <3>2, <3>3
  <2>10. \A row : Genuine(row) => Genuine(row)'
    BY <1>1, <1>4 DEF Genuine
  <2>11. AllGenuine'
    BY <1>1, <2>6, <2>10 DEF PhotosInv, AllGenuine
  <2>12. QED
    BY <2>8, <2>9, <2>11 DEF PhotosInv, Tracked
<1>8. CASE /\ r \in Dishes /\ Enough("photo", {r})
           /\ call' = [call EXCEPT ![c] = [op |-> "attach", at |-> "asks", batches |-> Upload(r, t)]]
           /\ UNCHANGED previews
  <2>1. PICK bs : bs = Upload(r, t)
    OBVIOUS
  <2>2. PICK new : new = [op |-> "attach", at |-> "asks", batches |-> bs]
    OBVIOUS
  <2>3. call' = [call EXCEPT ![c] = new] /\ UNCHANGED <<cloud, store, sent, attached, previews>>
    BY <1>1, <1>8, <2>1, <2>2
  <2>4. Triple(bs) /\ \E u : ImageAt(bs, u, r, t)
    BY <1>6, <1>8, <2>1, Uploads
  <2>5. PICK u : ImageAt(bs, u, r, t)
    BY <2>4
  <2>6. Waiting' = Waiting /\ previews' \in Entries /\ Once(previews')
    BY <1>6, <2>3 DEF Waiting
  <2>7. \A x \in Token : made[x] # "none" => made'[x] = made[x]
    BY <1>1, <1>4
  <2>8. QED
    BY <1>2, <1>3, <1>4, <1>5, <2>2, <2>3, <2>4, <2>5, <2>6, <2>7, UploadBegins
<1>9. QED
  BY <1>1, <1>7, <1>8

\* An upload under way has its three batches.
LEMMA Uploading ==
  ASSUME PhotosInv, NEW c \in Caller, call[c].op = "attach"
  PROVE  /\ call[c] = [op |-> "attach", at |-> call[c].at, batches |-> Batches(c)]
         /\ Triple(Batches(c))
         /\ \/ call[c].at \in {"asks", "commits"} /\ sent[c] = 0
            \/ call[c].at = "saves" /\ sent[c] \in {0, 1, 2}
<1>1. call[c] # Idle
  BY DEF Idle
<1>2. /\ call[c] = [op |-> "attach", at |-> call[c].at, batches |-> Batches(c)]
      /\ PhotoCourse("attach", call[c].at, Batches(c), sent[c])
  BY <1>1 DEF PhotosInv, PhotosTyped, PhotoCall
<1>3. QED
  BY <1>2, RecipeToolsAssumption DEF PhotoCourse

\* Recipe and photo are committed, or the process loses them.
LEMMA UploadCommitsKeeps ==
  ASSUME PhotosInv, NEW c \in Caller, UploadCommits(c) PROVE PhotosInv'
<1>1. /\ call[c].at = "commits" /\ call[c].op = "attach" /\ call' = [call EXCEPT ![c] = Idle]
      /\ store' = Applied(Applied(store, call[c].batches[1]), call[c].batches[2]) \/ store' = store
      /\ cloud' = cloud /\ UNCHANGED recipeToolVars
  BY DEF UploadCommits, GivesUp
<1>2. Triple(Batches(c)) /\ sent[c] = 0
  BY <1>1, Uploading
<1>3. PICK b, e : b = Batches(c)[1] /\ e = Batches(c)[2]
  OBVIOUS
<1>4. b.kind = "recipe" /\ Unfiled(b.put) /\ e.kind = "photo"
  BY <1>2, <1>3 DEF Triple
<1>5. PICK once, twice : once = Applied(store, b) /\ twice = Applied(once, e)
  OBVIOUS
<1>6. PhotoRows(once)
  BY <1>4, <1>5, AppliedStocked DEF PhotosInv, PhotosTyped
<1>7. PhotoRows(twice)
  BY <1>4, <1>5, <1>6, AppliedStocked
<1>8. store' = twice \/ store' = store
  BY <1>1, <1>3, <1>5 DEF Batches
<1>9. PhotoRows(cloud') /\ PhotoRows(store')
  <2>1. CASE store' = store
    BY <1>1, <2>1 DEF PhotosInv, PhotosTyped
  <2>2. CASE store' = twice
    BY <1>1, <1>7, <2>2 DEF PhotosInv, PhotosTyped
  <2>3. QED
    BY <1>8, <2>1, <2>2
<1>10. call'[c] = Idle /\ sent'[c] = 0
  BY <1>1, <1>2 DEF PhotosInv, PhotosTyped, recipeToolVars
<1>11. PhotoCall(c)' /\ \A row : ~Carries(c, row)'
  BY <1>10 DEF PhotoCall, Carries, Idle
<1>12. QED
  BY <1>1, <1>9, <1>11, OtherStep

\* How a request of an upload ends: one more has been answered, or the call is over.
Goes(c, n) == \/ /\ call' = call /\ sent' = [sent EXCEPT ![c] = n + 1] /\ n # 2
              \/ /\ call' = [call EXCEPT ![c].at = "commits"] /\ sent' = [sent EXCEPT ![c] = 0] /\ n = 2
              \/ call' = [call EXCEPT ![c] = Idle] /\ sent' = [sent EXCEPT ![c] = 0]

\* The calls after a request of c's.
LEMMA RequestEnds ==
  ASSUME PhotosInv, NEW c \in Caller, call[c].op = "attach", call[c].at = "saves", NEW n, n = sent[c], Goes(c, n)
  PROVE  /\ DOMAIN call' = Caller /\ DOMAIN sent' = Caller
         /\ \A d \in Caller : PhotoCall(d)'
         /\ \A d \in Caller : \A row : Carries(d, row)' => Carries(d, row)
         /\ \A d \in Caller \ {c} : (ImageSent(d) <=> ImageSent(d)') /\ \A row : Carries(d, row)' <=> Carries(d, row)
         /\ ImageSent(c)' <=> (n # 0 /\ call'[c] # Idle)
         /\ call'[c] = Idle => \A row : ~Carries(c, row)'
<1>1. /\ call[c] = [op |-> "attach", at |-> "saves", batches |-> Batches(c)]
      /\ Triple(Batches(c)) /\ n \in {0, 1, 2}
  BY Uploading
<1>2. DOMAIN call = Caller /\ DOMAIN sent = Caller
  BY DEF PhotosInv, PhotosTyped
<1>3. DOMAIN call' = Caller /\ DOMAIN sent' = Caller /\ \A d \in Caller \ {c} : call'[d] = call[d] /\ sent'[d] = sent[d]
  BY <1>2 DEF Goes
<1>4. \A d \in Caller \ {c} : (PhotoCall(d)' <=> PhotoCall(d)) /\ (ImageSent(d) <=> ImageSent(d)')
  BY <1>3 DEF PhotoCall, ImageSent, Batches
<1>5. \A d \in Caller \ {c} : \A row : Carries(d, row)' <=> Carries(d, row)
  BY <1>3 DEF Carries, Batches
<1>6. \A d \in Caller \ {c} : PhotoCall(d)'
  BY <1>4 DEF PhotosInv, PhotosTyped
<1>7. CASE call' = call /\ sent' = [sent EXCEPT ![c] = n + 1] /\ n # 2
  <2>1. call'[c] = call[c] /\ Batches(c)' = Batches(c) /\ sent'[c] = n + 1 /\ sent'[c] \in {1, 2} /\ (sent'[c] = 2 <=> n # 0)
    BY <1>1, <1>2, <1>7 DEF Batches
  <2>2. call'[c] # Idle /\ call'[c].at = "saves" /\ call'[c].op = "attach"
    BY <1>1, <2>1 DEF Idle
  <2>3. PhotoCall(c)'
    BY <1>1, <2>1, <2>2 DEF PhotoCall, PhotoCourse
  <2>4. \A row : Carries(c, row)' => Carries(c, row)
    BY <2>1 DEF Carries
  <2>5. ImageSent(c)' <=> n # 0
    BY <2>1, <2>2 DEF ImageSent
  <2>6. QED
    BY <1>3, <1>4, <1>5, <1>6, <2>2, <2>3, <2>4, <2>5
<1>8. CASE call' = [call EXCEPT ![c].at = "commits"] /\ sent' = [sent EXCEPT ![c] = 0] /\ n = 2
  <2>1. PICK new : new = [call[c] EXCEPT !.at = "commits"]
    OBVIOUS
  <2>2. call'[c] = new /\ new = [op |-> "attach", at |-> "commits", batches |-> Batches(c)] /\ sent'[c] = 0
    BY <1>1, <1>2, <1>8, <2>1
  <2>3. Batches(c)' = Batches(c) /\ call'[c] # Idle /\ call'[c].at = "commits" /\ call'[c].op = "attach"
    BY <2>2 DEF Batches, Idle
  <2>4. PhotoCall(c)'
    BY <1>1, <2>2, <2>3 DEF PhotoCall, PhotoCourse
  <2>5. \A row : Carries(c, row)' => Carries(c, row)
    BY <1>1, <2>3 DEF Carries
  <2>6. ImageSent(c)'
    BY <2>3 DEF ImageSent
  <2>7. QED
    BY <1>3, <1>4, <1>5, <1>6, <1>8, <2>3, <2>4, <2>5, <2>6
<1>9. CASE call' = [call EXCEPT ![c] = Idle] /\ sent' = [sent EXCEPT ![c] = 0]
  <2>1. call'[c] = Idle /\ sent'[c] = 0
    BY <1>2, <1>9
  <2>2. PhotoCall(c)' /\ (\A row : ~Carries(c, row)') /\ ~ImageSent(c)'
    BY <2>1 DEF PhotoCall, Carries, Idle, ImageSent
  <2>3. QED
    BY <1>3, <1>4, <1>5, <1>6, <2>1, <2>2
<1>10. QED
  BY <1>7, <1>8, <1>9 DEF Goes

\* How many photos of token t a batch makes.
Copies(b, t) == Cardinality({u \in DOMAIN b.put : b.put[u].token = t})

\* The photo is at Paprika: its token counts one photo, and no call will make another.
LEMMA PhotoPosted ==
  ASSUME PhotosInv, NEW c \in Caller, call[c].op = "attach", call[c].at = "saves", sent[c] = 1, Goes(c, 1),
         NEW b, b = Batches(c)[2], cloud' = Applied(cloud, b), UNCHANGED <<store, previews, made>>,
         attached' = [t \in Token |-> attached[t] + Copies(b, t)]
  PROVE  PhotosInv'
<1>1. Triple(Batches(c)) /\ b.kind = "photo" /\ \E u : DOMAIN b.put = {u}
  BY Uploading DEF Triple
<1>2. PICK u : DOMAIN b.put = {u}
  BY <1>1
<1>3. /\ DOMAIN call' = Caller /\ DOMAIN sent' = Caller
      /\ \A d \in Caller : PhotoCall(d)'
      /\ \A d \in Caller : \A row : Carries(d, row)' => Carries(d, row)
      /\ \A d \in Caller \ {c} : (ImageSent(d) <=> ImageSent(d)') /\ \A row : Carries(d, row)' <=> Carries(d, row)
      /\ ImageSent(c)' <=> call'[c] # Idle
      /\ call'[c] = Idle => \A row : ~Carries(c, row)'
  BY RequestEnds
<1>4. \A row : Carries(c, row) <=> row = b.put[u]
  BY <1>2 DEF Carries
<1>5. PICK new : new = Applied(cloud, b)
  OBVIOUS
<1>6. /\ PhotoRows(new)
      /\ \A v \in DOMAIN new["photo"] : \/ v \in DOMAIN b.put /\ new["photo"][v] = b.put[v]
                                        \/ v \in DOMAIN cloud["photo"] /\ new["photo"][v] = cloud["photo"][v]
  BY <1>1, <1>5, AppliedStocked DEF PhotosInv, PhotosTyped
<1>7. PhotosTyped'
  BY <1>3, <1>5, <1>6 DEF PhotosInv, PhotosTyped
<1>8. \A t \in Token : Copies(b, t) = IF Holds(c, t) THEN 1 ELSE 0
  <2>1. ASSUME NEW t \in Token PROVE Copies(b, t) = IF Holds(c, t) THEN 1 ELSE 0
    <3>1. Holds(c, t) <=> b.put[u].token = t
      BY <1>4 DEF Holds
    <3>2. CASE Holds(c, t)
      <4>1. {v \in DOMAIN b.put : b.put[v].token = t} = {u}
        BY <1>2, <3>1, <3>2
      <4>2. QED
        BY <3>2, <4>1, FS_Singleton DEF Copies
    <3>3. CASE ~Holds(c, t)
      <4>1. {v \in DOMAIN b.put : b.put[v].token = t} = {}
        BY <1>2, <3>1, <3>3
      <4>2. QED
        BY <3>3, <4>1, FS_EmptySet DEF Copies
    <3>4. QED
      BY <3>2, <3>3
  <2>2. QED
    BY <2>1
<1>9. \A d \in Caller : \A t : Holds(d, t)' => Holds(d, t)
  BY <1>3 DEF Holds
<1>10. \A t : Holds(c, t)' => ImageSent(c)'
  BY <1>3 DEF Holds
<1>11. ASSUME NEW t \in Token PROVE InOnePlace(t)'
  <2>1. InOnePlace(t)
    BY DEF PhotosInv, Tracked
  <2>2. made'[t] = made[t] /\ (t \in Waiting' <=> t \in Waiting)
    BY DEF Waiting
  <2>3. CASE Holds(c, t)
    <3>1. ~ImageSent(c)
      BY DEF ImageSent
    <3>2. attached[t] = 0 /\ made[t] # "none" /\ t \notin Waiting
      BY <2>1, <2>3, <3>1 DEF InOnePlace
    <3>3. attached'[t] = 1
      BY <1>8, <2>3, <3>2
    <3>4. \A d \in Caller : Holds(d, t)' => d = c
      BY <1>9, <2>1, <2>3 DEF InOnePlace
    <3>5. QED
      BY <1>10, <2>2, <3>2, <3>3, <3>4 DEF InOnePlace
  <2>4. CASE ~Holds(c, t)
    <3>1. attached'[t] = attached[t]
      <4>1. attached[t] \in {0, 1} /\ Copies(b, t) = 0
        BY <1>8, <2>1, <2>4 DEF InOnePlace
      <4>2. QED
        BY <4>1
    <3>2. \A d \in Caller : Holds(d, t)' => Holds(d, t) /\ d # c
      BY <1>9, <2>4
    <3>3. \A d \in Caller : Holds(d, t)' /\ ~ImageSent(d)' => Holds(d, t) /\ ~ImageSent(d)
      BY <1>3, <3>2
    <3>4. QED
      BY <2>1, <2>2, <3>1, <3>2, <3>3 DEF InOnePlace
  <2>5. QED
    BY <2>3, <2>4
<1>12. AllGenuine'
  <2>1. \A row : Genuine(row)' <=> Genuine(row)
    BY DEF Genuine
  <2>2. \A v \in DOMAIN new["photo"] : Genuine(new["photo"][v])
    <3>1. ASSUME NEW v \in DOMAIN new["photo"] PROVE Genuine(new["photo"][v])
      <4>1. CASE v \in DOMAIN b.put /\ new["photo"][v] = b.put[v]
        BY <1>2, <1>4, <4>1 DEF PhotosInv, AllGenuine
      <4>2. CASE v \in DOMAIN cloud["photo"] /\ new["photo"][v] = cloud["photo"][v]
        BY <4>2 DEF PhotosInv, AllGenuine
      <4>3. QED
        BY <1>6, <4>1, <4>2
    <3>2. QED
      BY <3>1
  <2>3. \A v \in DOMAIN cloud'["photo"] : Genuine(cloud'["photo"][v])
    BY <1>5, <2>2
  <2>4. \A d \in Caller : \A row : Carries(d, row)' => Genuine(row)'
    BY <1>3, <2>1 DEF PhotosInv, AllGenuine
  <2>5. QED
    BY <2>1, <2>3, <2>4 DEF AllGenuine
<1>13. QED
  BY <1>7, <1>11, <1>12 DEF PhotosInv, Tracked

\* One of the three requests of an upload is made.
LEMMA UploadSavesKeeps ==
  ASSUME PhotosInv, NEW c \in Caller, UploadSaves(c) PROVE PhotosInv'
<1>1. PICK n, b : n = sent[c] /\ b = Batches(c)[n + 1]
  OBVIOUS
<1>2. call[c].at = "saves" /\ call[c].op = "attach" /\ UNCHANGED <<store, previews, made>>
  BY DEF UploadSaves
<1>3. Triple(Batches(c)) /\ n \in {0, 1, 2}
  BY <1>1, <1>2, Uploading
<1>4. cloud' = Applied(cloud, b) \/ cloud' = cloud
  BY <1>1 DEF UploadSaves, Batches
<1>5. Goes(c, n)
  BY <1>1, <1>3 DEF UploadSaves, Goes, GivesUp
<1>6. attached' = IF b.kind = "photo" /\ cloud' # cloud THEN [t \in Token |-> attached[t] + Copies(b, t)] ELSE attached
  BY <1>1 DEF UploadSaves, Batches, Copies
<1>7. /\ DOMAIN call' = Caller /\ DOMAIN sent' = Caller
      /\ \A d \in Caller : PhotoCall(d)'
      /\ \A d \in Caller : \A row : Carries(d, row)' => Carries(d, row)
      /\ \A d \in Caller \ {c} : ImageSent(d) <=> ImageSent(d)'
      /\ ImageSent(c)' <=> (n # 0 /\ call'[c] # Idle)
      /\ call'[c] = Idle => \A row : ~Carries(c, row)'
  BY <1>1, <1>2, <1>5, RequestEnds
<1>8. CASE b.kind = "photo" /\ cloud' # cloud
  <2>1. n = 1 /\ b = Batches(c)[2]
    BY <1>1, <1>3, <1>8 DEF Triple
  <2>2. QED
    BY <1>1, <1>2, <1>4, <1>5, <1>6, <1>8, <2>1, PhotoPosted
<1>9. CASE ~(b.kind = "photo" /\ cloud' # cloud)
  <2>1. PhotoRows(cloud') /\ \A u \in DOMAIN cloud'["photo"] : u \in DOMAIN cloud["photo"] /\ cloud'["photo"][u] = cloud["photo"][u]
    <3>1. CASE cloud' = cloud
      BY <3>1 DEF PhotosInv, PhotosTyped
    <3>2. CASE cloud' # cloud
      <4>1. PICK new : new = Applied(cloud, b)
        OBVIOUS
      <4>2. n \in {0, 2} /\ b.kind = "recipe" /\ Unfiled(b.put)
        BY <1>1, <1>3, <1>9, <3>2 DEF Triple
      <4>3. PhotoRows(new) /\ new["photo"] = cloud["photo"]
        BY <4>1, <4>2, AppliedStocked DEF PhotosInv, PhotosTyped
      <4>4. QED
        BY <1>4, <3>2, <4>1, <4>3
    <3>3. QED
      BY <3>1, <3>2
  <2>2. attached' = attached /\ made' = made /\ Waiting' = Waiting
    BY <1>2, <1>6, <1>9 DEF Waiting
  <2>3. PhotosTyped'
    BY <1>2, <1>7, <2>1, <2>2 DEF PhotosInv, PhotosTyped
  <2>4. ImageSent(c) => n = 2
    BY <1>1, <1>2 DEF ImageSent
  <2>5. \A d \in Caller : ImageSent(d) => ImageSent(d)' \/ \A row : ~Carries(d, row)'
    BY <1>7, <2>4
  <2>6. QED
    BY <1>7, <2>1, <2>2, <2>3, <2>5, NothingMade
<1>10. QED
  BY <1>8, <1>9

----------------------------------------------------------------------------
\* The steps around them.

\* The previews grow older.
LEMMA PreviewsAgeKeeps == ASSUME PhotosInv, PreviewsAge PROVE PhotosInv'
<1>1. PICK old, new : old = previews /\ new = previews'
  OBVIOUS
<1>2. old \in Entries /\ Once(old)
  BY <1>1 DEF PhotosInv, PhotosTyped
<1>3. /\ new = [i \in DOMAIN old |-> [old[i] EXCEPT !.age = IF @ > PreviewTTL THEN @ ELSE @ + 1]]
      /\ UNCHANGED <<cloud, store, call, made, sent, attached>>
  BY <1>1 DEF PreviewsAge, toolVars
<1>4. old \in Seq(Preview) /\ Len(old) \in Nat /\ DOMAIN old = 1..Len(old) /\ \A i \in DOMAIN old : old[i] \in Preview
  BY <1>2 DEF Entries
<1>5. \A i \in DOMAIN old : new[i] \in Preview /\ new[i].token = old[i].token
  BY <1>3, <1>4 DEF Preview
<1>6. new \in Entries
  <2>1. new \in [1..Len(old) -> Preview]
    BY <1>3, <1>4, <1>5
  <2>2. QED
    BY <1>4, <2>1 DEF Entries
<1>7. Once(new) /\ Tokens(new) \subseteq Tokens(old)
  BY <1>2, <1>3, <1>5 DEF Once, Tokens
<1>8. QED
  BY <1>1, <1>3, <1>6, <1>7, WaitingTokens, AroundStep DEF PhotosInv, PhotosTyped

\* A restart leaves no call and no preview.
LEMMA PhotosRestart == ASSUME PhotosInv, RecipeToolsRestart PROVE PhotosInv'
<1>1. /\ call' = [c \in Caller |-> Idle] /\ previews' = <<>> /\ sent' = [c \in Caller |-> 0]
      /\ UNCHANGED <<cloud, store, made, attached>>
  BY DEF RecipeToolsRestart, Restarts
<1>2. \A c \in Caller : call'[c] = Idle /\ sent'[c] = 0
  BY <1>1
<1>3. \A c \in Caller : PhotoCall(c)' /\ \A row : ~Carries(c, row)'
  BY <1>2 DEF PhotoCall, Carries, Idle
<1>4. previews' \in Entries /\ Once(previews') /\ Waiting' = {}
  BY <1>1 DEF Entries, Once, Waiting
<1>5. PhotosTyped'
  BY <1>1, <1>3, <1>4 DEF PhotosInv, PhotosTyped
<1>6. QED
  BY <1>1, <1>3, <1>4, <1>5, NothingMade

\* A reconcile of recipes or photos, and what another device takes.
LEMMA PhotosAround ==
  ASSUME PhotosInv, UNCHANGED recipeToolVars,
         \/ \E k \in {"recipe", "photo"} : Syncs(k)
         \/ \E r \in DOMAIN cloud.recipe : Remote(Drop("recipe", {r}))
  PROVE  PhotosInv'
<1>1. UNCHANGED <<call, previews, made, sent, attached>> /\ Waiting' = Waiting
  BY DEF Syncs, Remote, recipeToolVars, Waiting
<1>2. ASSUME NEW k \in {"recipe", "photo"}, Syncs(k) PROVE PhotosInv'
  <2>1. store' = [store EXCEPT ![k] = cloud[k]] /\ cloud' = cloud
    BY <1>2 DEF Syncs
  <2>2. PhotoRows(store') /\ PhotoRows(cloud')
    BY <2>1 DEF PhotosInv, PhotosTyped, PhotoRows, Unfiled, Kind
  <2>3. QED
    BY <1>1, <2>1, <2>2, AroundStep DEF PhotosInv, PhotosTyped
<1>3. ASSUME NEW r, Remote(Drop("recipe", {r})) PROVE PhotosInv'
  <2>1. PICK b : b = Drop("recipe", {r})
    OBVIOUS
  <2>2. b.kind = "recipe" /\ Unfiled(b.put)
    BY <2>1 DEF Drop, Batch, NoRows, Unfiled
  <2>3. PICK new : new = Applied(cloud, b)
    OBVIOUS
  <2>4. PhotoRows(new) /\ new["photo"] = cloud["photo"]
    BY <2>2, <2>3, AppliedStocked DEF PhotosInv, PhotosTyped
  <2>5. cloud' = new /\ store' = store
    BY <1>3, <2>1, <2>3 DEF Remote
  <2>6. QED
    BY <1>1, <2>4, <2>5, AroundStep DEF PhotosInv, PhotosTyped
<1>4. QED
  BY <1>2, <1>3

----------------------------------------------------------------------------
\* The recipe and category tools make no photos.

\* A call's one batch is of recipes or categories.
Filing(b) == b.kind \in {"category", "recipe"}
FilingCall(c) == \/ call[c] = Idle
                 \/ /\ call[c] = [op |-> call[c].op, at |-> call[c].at, batches |-> Batches(c)]
                    /\ One(Batches(c)) /\ Filing(Batches(c)[1])
NoPhotos == /\ DOMAIN cloud = Kind /\ DOMAIN call = Caller
            /\ DOMAIN cloud["photo"] = {}
            /\ attached = [t \in Token |-> 0]
            /\ \A c \in Caller : FilingCall(c)

\* A call that goes on with its batch, or ends.
LEMMA FilingGoes ==
  ASSUME NoPhotos, UNCHANGED attached, NEW c \in Caller, NEW new, call' = [call EXCEPT ![c] = new],
         new = Idle \/ \E op, at, b : new = [op |-> op, at |-> at, batches |-> <<b>>] /\ Filing(b),
         DOMAIN cloud' = Kind, cloud'["photo"] = cloud["photo"]
  PROVE  NoPhotos'
<1>1. DOMAIN call' = Caller /\ call'[c] = new /\ \A d \in Caller \ {c} : call'[d] = call[d]
  BY DEF NoPhotos
<1>2. \A d \in Caller \ {c} : FilingCall(d)'
  BY <1>1 DEF NoPhotos, FilingCall, Batches
<1>3. FilingCall(c)'
  <2>1. CASE new = Idle
    BY <1>1, <2>1 DEF FilingCall
  <2>2. ASSUME NEW op, NEW at, NEW b, new = [op |-> op, at |-> at, batches |-> <<b>>], Filing(b) PROVE FilingCall(c)'
    <3>1. Batches(c)' = <<b>> /\ call'[c].op = op /\ call'[c].at = at
      BY <1>1, <2>2 DEF Batches
    <3>2. One(<<b>>) /\ <<b>>[1] = b
      BY DEF One
    <3>3. QED
      BY <1>1, <2>2, <3>1, <3>2 DEF FilingCall
  <2>3. QED
    BY <2>1, <2>2
<1>4. QED
  BY <1>1, <1>2, <1>3 DEF NoPhotos

\* A call of one batch begins.
LEMMA FilingStarts ==
  ASSUME NoPhotos, UNCHANGED attached, NEW c \in Caller, NEW op, NEW at, NEW b, Filing(b), Start(c, op, at, <<b>>)
  PROVE  NoPhotos'
<1>1. PICK new : new = [op |-> op, at |-> at, batches |-> <<b>>]
  OBVIOUS
<1>2. call' = [call EXCEPT ![c] = new] /\ cloud' = cloud
  BY <1>1 DEF Start
<1>3. QED
  BY <1>1, <1>2, FilingGoes DEF NoPhotos

\* Each tool of recipes and categories begins with one batch of either.
LEMMA FilingTools ==
  ASSUME NoPhotos, UNCHANGED attached, NEW c \in Caller,
         \/ CreateCategory(c) \/ UpdateCategory(c) \/ DeleteCategory(c)
         \/ CreateRecipe(c) \/ Categorize(c) \/ EditRecipe(c)
         \/ TrashRecipe(c) \/ RestoreRecipe(c) \/ PurgeRecipe(c)
  PROVE  NoPhotos'
<1>1. \A k \in {"category", "recipe"} : \A put : Filing(Put(k, put)) /\ Filing(Drop(k, put))
  BY DEF Filing, Put, Drop, Batch
<1>2. ASSUME NEW k \in {"category", "recipe"}, NEW op, NEW put, Does(c, op, <<Put(k, put)>>) PROVE NoPhotos'
  <2>1. PICK b : b = Put(k, put)
    OBVIOUS
  <2>2. Filing(b) /\ Start(c, op, "saves", <<b>>)
    BY <1>1, <1>2, <2>1 DEF Does
  <2>3. QED
    BY <2>2, FilingStarts
<1>3. ASSUME NEW k \in {"category", "recipe"}, NEW op, NEW at, NEW drop, Start(c, op, at, <<Drop(k, drop)>>) PROVE NoPhotos'
  <2>1. PICK b : b = Drop(k, drop)
    OBVIOUS
  <2>2. Filing(b) /\ Start(c, op, at, <<b>>)
    BY <1>1, <1>3, <2>1
  <2>3. QED
    BY <2>2, FilingStarts
<1>4. CASE CreateCategory(c)
  <2>1. PICK put : Does(c, "category", <<Put("category", put)>>)
    BY <1>4 DEF CreateCategory
  <2>2. QED
    BY <1>2, <2>1
<1>5. CASE UpdateCategory(c)
  <2>1. PICK put : Does(c, "category", <<Put("category", put)>>)
    BY <1>5 DEF UpdateCategory
  <2>2. QED
    BY <1>2, <2>1
<1>6. CASE DeleteCategory(c)
  <2>1. PICK drop : Start(c, "category", "saves", <<Drop("category", drop)>>)
    BY <1>6 DEF DeleteCategory, Does
  <2>2. QED
    BY <1>3, <2>1
<1>7. CASE CreateRecipe(c)
  <2>1. PICK put : Does(c, "recipe", <<Put("recipe", put)>>)
    BY <1>7 DEF CreateRecipe
  <2>2. QED
    BY <1>2, <2>1
<1>8. CASE Categorize(c)
  <2>1. PICK put : Does(c, "recipe", <<Put("recipe", put)>>)
    BY <1>8 DEF Categorize
  <2>2. QED
    BY <1>2, <2>1
<1>9. CASE EditRecipe(c) \/ TrashRecipe(c)
  <2>1. PICK put : Does(c, "recipe", <<Put("recipe", put)>>)
    BY <1>9 DEF EditRecipe, TrashRecipe, Rewrites
  <2>2. QED
    BY <1>2, <2>1
<1>10. CASE RestoreRecipe(c)
  <2>1. PICK put : Does(c, "recipe", <<Put("recipe", put)>>)
    BY <1>10 DEF RestoreRecipe
  <2>2. QED
    BY <1>2, <2>1
<1>11. CASE PurgeRecipe(c)
  <2>1. PICK drop : Start(c, "recipe", "asks", <<Drop("recipe", drop)>>)
    BY <1>11 DEF PurgeRecipe, Asks
  <2>2. QED
    BY <1>3, <2>1
<1>12. QED
  BY <1>4, <1>5, <1>6, <1>7, <1>8, <1>9, <1>10, <1>11

\* Its batch changes categories or recipes.
LEMMA FilingProceeds ==
  ASSUME NoPhotos, UNCHANGED attached, NEW c \in Caller, Proceeds(c) \/ Stops(c) \/ Saves(c) \/ Commits(c)
  PROVE  NoPhotos'
<1>1. PICK op, at, b : call[c] = Idle \/ (call[c] = [op |-> op, at |-> at, batches |-> <<b>>] /\ Filing(b))
  BY DEF NoPhotos, FilingCall, One
<1>2. call[c].at # "idle"
  BY DEF Proceeds, Stops, Saves, Commits, GoesOn
<1>3. call[c] = [op |-> op, at |-> at, batches |-> <<b>>] /\ Filing(b)
  BY <1>1, <1>2 DEF Idle
<1>4. Head(call[c].batches) = b /\ Len(call[c].batches) = 1
  <2>1. Head(<<b>>) = b /\ Len(<<b>>) = 1
    OBVIOUS
  <2>2. QED
    BY <1>3, <2>1
<1>5. PICK new : new = Applied(cloud, b)
  OBVIOUS
<1>6. DOMAIN new = Kind /\ new["photo"] = cloud["photo"]
  BY <1>3, <1>5, AppliedRows DEF NoPhotos, Filing, Kind
<1>7. cloud' = cloud \/ cloud' = new
  BY <1>4, <1>5 DEF Proceeds, Stops, Saves, Commits, GoesOn, Accepted
<1>8. DOMAIN cloud' = Kind /\ cloud'["photo"] = cloud["photo"]
  BY <1>6, <1>7 DEF NoPhotos
<1>9. PICK next : /\ call' = [call EXCEPT ![c] = next]
                  /\ next = Idle \/ next = [call[c] EXCEPT !.at = "saves"] \/ next = [call[c] EXCEPT !.at = "commits"]
  <2>1. PICK s, k : s = [call[c] EXCEPT !.at = "saves"] /\ k = [call[c] EXCEPT !.at = "commits"]
    OBVIOUS
  <2>2. \/ call' = [call EXCEPT ![c] = Idle] \/ call' = [call EXCEPT ![c] = s]
        \/ call' = [call EXCEPT ![c] = k]
    BY <1>4, <2>1 DEF Proceeds, Stops, Saves, Commits, GoesOn, GivesUp
  <2>3. QED
    BY <2>1, <2>2
<1>10. next = Idle \/ \E o, a, e : next = [op |-> o, at |-> a, batches |-> <<e>>] /\ Filing(e)
  BY <1>3, <1>9
<1>11. QED
  BY <1>8, <1>9, <1>10, FilingGoes

----------------------------------------------------------------------------
\* The theorems.

\* However uploads, generations, restarts and edits interleave, and whatever fails: a preview's token is
\* nowhere, in the buffer or with one call, and every photo is of the recipe its preview was made for
\* (features/generated-image-store.ts, recipe/tools/photo-writes.ts).
THEOREM PhotosInvariant == PhotosSpec => []PhotosInv
<1>1. RecipeToolsInit("photos") /\ ToolCallsInit(MaxCalls) => PhotosInv
  <2>1. SUFFICES ASSUME RecipeToolsInit("photos"), ToolCallsInit(MaxCalls) PROVE PhotosInv
    OBVIOUS
  <2>2. /\ store = cloud /\ previews = <<>> /\ made = [t \in Token |-> "none"] /\ sent = [c \in Caller |-> 0]
        /\ attached = [t \in Token |-> 0] /\ call = [c \in Caller |-> Idle]
    BY <2>1 DEF RecipeToolsInit, ToolCallsInit
  <2>3. PICK all : all = [r \in Slot["recipe"] |-> Filed({})]
    OBVIOUS
  <2>4. /\ DOMAIN cloud = Kind /\ DOMAIN cloud["category"] = {} /\ DOMAIN cloud["photo"] = {}
        /\ Unfiled(cloud["recipe"])
    <3>1. cloud = [Empty EXCEPT !.recipe = all]
      BY <2>1, <2>3 DEF RecipeToolsInit
    <3>2. DOMAIN cloud = Kind /\ DOMAIN cloud["category"] = {} /\ DOMAIN cloud["photo"] = {} /\ cloud["recipe"] = all
      BY <2>3, <3>1 DEF Empty, NoRows, Kind
    <3>3. QED
      BY <2>3, <3>2 DEF Unfiled, Filed
  <2>5. PhotoRows(cloud) /\ PhotoRows(store)
    BY <2>2, <2>4 DEF PhotoRows
  <2>6. \A c \in Caller : PhotoCall(c) /\ \A row : ~Carries(c, row)
    BY <2>2 DEF PhotoCall, Carries, Idle
  <2>7. previews \in Entries /\ Once(previews) /\ Waiting = {}
    BY <2>2 DEF Entries, Once, Waiting
  <2>8. Tracked
    BY <2>2, <2>6, <2>7 DEF Tracked, InOnePlace, Holds
  <2>9. QED
    BY <2>2, <2>4, <2>5, <2>6, <2>7, <2>8 DEF PhotosInv, PhotosTyped, AllGenuine
<1>2. PhotosInv /\ [PhotosNext]_<<toolVars, recipeToolVars>> => PhotosInv'
  <2>1. SUFFICES ASSUME PhotosInv, [PhotosNext]_<<toolVars, recipeToolVars>> PROVE PhotosInv'
    OBVIOUS
  <2>2. CASE UNCHANGED <<toolVars, recipeToolVars>>
    <3>1. UNCHANGED <<cloud, store, call, previews, made, sent, attached>> /\ Waiting' = Waiting
      BY <2>2 DEF toolVars, recipeToolVars, Waiting
    <3>2. PhotoRows(cloud') /\ PhotoRows(store') /\ previews' \in Entries /\ Once(previews')
      BY <2>1, <3>1 DEF PhotosInv, PhotosTyped
    <3>3. QED
      BY <2>1, <3>1, <3>2, AroundStep
  <2>3. ASSUME NEW c \in Caller,
               \/ GeneratePhoto(c) \/ GenerationEnds(c) \/ UploadPhoto(c) \/ UploadPreview(c)
               \/ UploadSaves(c) \/ UploadCommits(c) \/ DeletePhoto(c)
        PROVE  PhotosInv'
    BY <2>1, <2>3, GeneratePhotoKeeps, GenerationEndsKeeps, UploadPhotoKeeps, UploadPreviewKeeps,
       UploadSavesKeeps, UploadCommitsKeeps, DeletePhotoKeeps
  <2>4. ASSUME NEW c \in Caller, GenerationFails(c) \/ UploadStops(c) \/ UploadProceeds(c) PROVE PhotosInv'
    BY <2>1, <2>4, CallStops, CallProceeds DEF GenerationFails, UploadStops, UploadProceeds
  <2>5. ASSUME NEW c \in Caller, call[c].op = "photo", Proceeds(c) \/ Stops(c) \/ Saves(c) \/ Commits(c),
               UNCHANGED recipeToolVars
        PROVE  PhotosInv'
    BY <2>1, <2>5, CallProceeds, CallStops, DeletionSaves, DeletionCommits
  <2>6. CASE \/ \E k \in {"recipe", "photo"} : Syncs(k) /\ UNCHANGED recipeToolVars
             \/ \E r \in DOMAIN cloud.recipe : Remote(Drop("recipe", {r})) /\ UNCHANGED recipeToolVars
    BY <2>1, <2>6, PhotosAround
  <2>7. QED
    BY <2>1, <2>2, <2>3, <2>4, <2>5, <2>6, PreviewsAgeKeeps, PhotosRestart DEF PhotosNext
<1>3. QED
  BY <1>1, <1>2, PTL DEF PhotosSpec

\* The recipe and category tools count no photo and make none (recipe/tools/*.ts).
LEMMA CategoriesMakeNoPhotos == CategoriesSpec => []NoPhotos
<1>1. RecipeToolsInit("categories") /\ ToolCallsInit(MaxCalls) => NoPhotos
  <2>1. SUFFICES ASSUME RecipeToolsInit("categories"), ToolCallsInit(MaxCalls) PROVE NoPhotos
    OBVIOUS
  <2>2. PICK all : all = [k \in {1, 2} |-> [parent |-> k - 1]]
    OBVIOUS
  <2>3. cloud = [Empty EXCEPT !.category = all] /\ attached = [t \in Token |-> 0] /\ call = [c \in Caller |-> Idle]
    BY <2>1, <2>2 DEF RecipeToolsInit, ToolCallsInit
  <2>4. DOMAIN cloud = Kind /\ DOMAIN cloud["photo"] = {}
    BY <2>3 DEF Empty, NoRows, Kind
  <2>5. QED
    BY <2>3, <2>4 DEF NoPhotos, FilingCall
<1>2. NoPhotos /\ [CategoriesNext]_<<toolVars, recipeToolVars>> => NoPhotos'
  <2>1. SUFFICES ASSUME NoPhotos, [CategoriesNext]_<<toolVars, recipeToolVars>> PROVE NoPhotos'
    OBVIOUS
  <2>2. ASSUME NEW c \in Caller, UNCHANGED recipeToolVars,
               \/ CreateCategory(c) \/ UpdateCategory(c) \/ DeleteCategory(c)
               \/ CreateRecipe(c) \/ Categorize(c) \/ EditRecipe(c)
               \/ TrashRecipe(c) \/ RestoreRecipe(c) \/ PurgeRecipe(c)
        PROVE  NoPhotos'
    BY <2>1, <2>2, FilingTools DEF recipeToolVars
  <2>3. ASSUME NEW c \in Caller, UNCHANGED recipeToolVars, Proceeds(c) \/ Stops(c) \/ Saves(c) \/ Commits(c) PROVE NoPhotos'
    BY <2>1, <2>3, FilingProceeds DEF recipeToolVars
  <2>4. ASSUME UNCHANGED <<cloud, call, attached>> PROVE NoPhotos'
    BY <2>1, <2>4 DEF NoPhotos, FilingCall, Batches
  <2>5. CASE \/ \E k \in {"category", "recipe"} : Syncs(k) /\ UNCHANGED recipeToolVars
             \/ Reconciles /\ UNCHANGED recipeToolVars
             \/ UNCHANGED <<toolVars, recipeToolVars>>
    BY <2>4, <2>5 DEF Syncs, Reconciles, toolVars, recipeToolVars
  <2>6. CASE RecipeToolsRestart
    BY <2>1, <2>6 DEF NoPhotos, FilingCall, RecipeToolsRestart, Restarts
  <2>7. ASSUME NEW k, Remote(Drop("category", {k})), UNCHANGED recipeToolVars PROVE NoPhotos'
    <3>1. PICK b, new : b = Drop("category", {k}) /\ new = Applied(cloud, b)
      OBVIOUS
    <3>2. b.kind = "category"
      BY <3>1 DEF Drop, Batch
    <3>3. DOMAIN new = Kind /\ new["photo"] = cloud["photo"]
      BY <2>1, <3>1, <3>2, AppliedRows DEF NoPhotos, Kind
    <3>4. cloud' = new /\ UNCHANGED <<call, attached>>
      BY <2>7, <3>1 DEF Remote, recipeToolVars
    <3>5. QED
      BY <2>1, <3>3, <3>4 DEF NoPhotos, FilingCall, Batches
  <2>8. QED
    BY <2>1, <2>2, <2>3, <2>5, <2>6, <2>7 DEF CategoriesNext
<1>3. QED
  BY <1>1, <1>2, PTL DEF CategoriesSpec

\* What holds at every moment of either keeps the tree whole and makes one photo of a preview at most.
LEMMA PhotosWhole == PhotosInv => RecipesWhole
<1>1. SUFFICES ASSUME PhotosInv PROVE RecipesWhole
  OBVIOUS
<1>2. \A t \in Token : attached[t] <= 1
  <2>1. \A t \in Token : attached[t] \in {0, 1}
    BY <1>1 DEF PhotosInv, Tracked, InOnePlace
  <2>2. QED
    BY <2>1
<1>3. PreviewsOnce
  BY <1>1, <1>2 DEF PreviewsOnce, PhotosInv, AllGenuine, Genuine
<1>4. DOMAIN cloud["category"] = {} /\ \A r \in DOMAIN cloud["recipe"] : cloud["recipe"][r].cats = {}
  BY <1>1 DEF PhotosInv, PhotosTyped, PhotoRows, Unfiled
<1>5. CategoriesWhole
  BY <1>4 DEF CategoriesWhole
<1>6. QED
  BY <1>3, <1>5 DEF RecipesWhole

\* For any callers, categories, recipes, previews and cap: the tools of recipes and categories keep the tree
\* whole while the store has missed nothing, and a preview becomes one photo at most, of its own recipe
\* (recipe/tools/*.ts, features/generated-image-store.ts).
THEOREM RecipesWholeHolds == (CategoriesSpec => []RecipesWhole) /\ (PhotosSpec => []RecipesWhole)
<1>1. NoPhotos => PreviewsOnce
  BY DEF NoPhotos, PreviewsOnce
<1>2. CategoriesWhole /\ PreviewsOnce => RecipesWhole
  BY DEF RecipesWhole
<1>3. CategoriesSpec => []RecipesWhole
  BY <1>1, <1>2, CategoriesWholeHolds, CategoriesMakeNoPhotos, PTL
<1>4. PhotosSpec => []RecipesWhole
  BY PhotosWhole, PhotosInvariant, PTL
<1>5. QED
  BY <1>3, <1>4
====
