---- MODULE Drawer ----
(***************************************************************************)
(* What the pantry checklist shows around its rows: the drawer that takes  *)
(* what is out of stock, the question before it is cleared, the groups of  *)
(* what is in stock, and the clone of a row that flies between the two     *)
(* while the row itself is kept invisible.  What the server makes of the   *)
(* calls is Checklists' business: here they are answered either way.       *)
(***************************************************************************)
EXTENDS Naturals, Sequences, FiniteSets, SequencesExt, Functions, Grouping

CONSTANTS
  Item,      \* rows
  Filings,   \* how they may be filed: the aisle of each, a number in alphabetical order
  MaxActs, MaxFeeds   \* how often the user acts and the host sends the list

ASSUME DrawerAssumption == MaxActs \in Nat /\ MaxFeeds \in Nat

NoAisle == 0
Other == 1   \* the aisle, if there is one, that is called what rows without an aisle are shown under

VARIABLES
  rows,      \* of each row shown whether it is in stock and busy
  drawer, confirming, asks,   \* whether the drawer is open, clearing it is being confirmed, and the server asks itself
  flies,     \* whether rows fly at all
  clones,    \* rows in the air: of which one, and whether that one may be shown again
  hidden,    \* rows that are invisible meanwhile
  offer,     \* the row whose Undo is offered, 0 for none
  asked,     \* calls under way
  remains,      \* acts and feeds left
  crossed    \* history only: rows that had two clones at once

drawerVars == <<rows, drawer, confirming, asks, flies, clones, hidden, offer, asked, remains, crossed>>

InStock(rs) == {i \in DOMAIN rs : rs[i].stock}
OutOfStock(rs) == DOMAIN rs \ InStock(rs)
Acted == remains.acts > 0 /\ remains' = [remains EXCEPT !.acts = @ - 1]

\* By aisle, those without one last; a run of one heading is one group.
Sooner(aisle, x, y) == IF (aisle[x] = NoAisle) # (aisle[y] = NoAisle) THEN aisle[y] = NoAisle
                       ELSE IF aisle[x] # aisle[y] THEN aisle[x] < aisle[y] ELSE x < y
Sorted(aisle) == SetToSortSeq(InStock(rows), LAMBDA x, y : Sooner(aisle, x, y))
Heading(aisle) == [i \in Item |-> IF aisle[i] = NoAisle THEN Other ELSE aisle[i]]
Groups(aisle) == groupConsecutive(Sorted(aisle), Heading(aisle))

\* With nothing in stock the drawer opens, with nothing in it it closes and asks no more.
Calm(out, sure) == sure /\ out # {}
Shown(rs, open, sure) ==
  /\ rows' = rs
  /\ drawer' = IF InStock(rs) = {} /\ OutOfStock(rs) # {} THEN TRUE
               ELSE IF OutOfStock(rs) = {} THEN FALSE ELSE open
  /\ confirming' = Calm(OutOfStock(rs), sure)

\* A row takes off once the lists have been drawn anew.  The open drawer and the aisle show it where
\* the clone will land, invisible until then; the closed drawer swallows it.
Fly(i, visibly) ==
  /\ clones' = clones \cup {[of |-> i, n |-> remains.acts, hides |-> visibly, arrived |-> FALSE]}
  /\ hidden' = IF visibly THEN hidden \cup {i} ELSE hidden
  /\ crossed' = IF \E c \in clones : c.of = i THEN crossed \cup {i} ELSE crossed
Stays == UNCHANGED <<clones, hidden, crossed>>

Call(what, i) == [what |-> what, of |-> i, live |-> TRUE, n |-> remains.acts]

----------------------------------------------------------------------------
\* The drawer and the question.

ToggleDrawer ==
  /\ Acted
  /\ OutOfStock(rows) # {}
  /\ drawer' = ~drawer
  /\ confirming' = (confirming /\ drawer')
  /\ UNCHANGED <<rows, asks, flies, clones, hidden, offer, asked, crossed>>

OnClear ==
  /\ drawer /\ ~confirming /\ ~asks
  /\ Acted
  /\ confirming' = TRUE
  /\ UNCHANGED <<rows, drawer, asks, flies, clones, hidden, offer, asked, crossed>>
CancelClear ==
  /\ confirming
  /\ Acted
  /\ confirming' = FALSE
  /\ UNCHANGED <<rows, drawer, asks, flies, clones, hidden, offer, asked, crossed>>
ConfirmOutClear ==
  /\ drawer /\ (confirming \/ asks)
  /\ Acted
  /\ confirming' = FALSE
  /\ asked' = asked \cup {Call("clear", 0)}
  /\ UNCHANGED <<rows, drawer, asks, flies, clones, hidden, offer, crossed>>

----------------------------------------------------------------------------
\* Rows go out of stock and home again.

\* A swiped row has left over the edge and does not fly.
MarkOut == \E i \in InStock(rows), button \in BOOLEAN :
  /\ ~rows[i].busy
  /\ Acted
  /\ Shown([rows EXCEPT ![i].stock = FALSE, ![i].busy = TRUE], drawer, confirming)
  /\ asked' = asked \cup {Call("out", i)}
  /\ IF button /\ flies THEN Fly(i, drawer') ELSE Stays
  /\ UNCHANGED <<asks, flies, offer>>

\* The row, if there is one by now and no call on it is under way; an Undo of what has been swept is called all the same.
Restocks(i) ==
  /\ Acted
  /\ offer' = 0
  /\ IF i \in DOMAIN rows
     THEN IF rows[i].busy THEN UNCHANGED <<rows, drawer, confirming, asked>> /\ Stays
          ELSE /\ Shown([rows EXCEPT ![i].stock = TRUE, ![i].busy = TRUE], drawer, confirming)
               /\ asked' = asked \cup {Call("restock", i)}
               /\ IF flies /\ ~rows[i].stock THEN Fly(i, TRUE) ELSE Stays
     ELSE /\ asked' = asked \cup {Call("restock", i)}
          /\ UNCHANGED <<rows, drawer, confirming>> /\ Stays
  /\ UNCHANGED <<asks, flies>>
DrawerRestock == drawer /\ \E i \in OutOfStock(rows) : Restocks(i)
UndoOut == offer # 0 /\ Restocks(offer)

\* The row appears under its clone as that fades, and once more when it is gone.
MutArrived(c) == hidden
Arrived(c) == hidden \ {c.of}
Arrive == \E c \in clones :
  /\ hidden' = Arrived(c)
  /\ clones' = (clones \ {c}) \cup {[d EXCEPT !.arrived = TRUE] : d \in {e \in {c} : ~e.arrived}}
  /\ UNCHANGED <<rows, drawer, confirming, asks, flies, offer, asked, remains, crossed>>

----------------------------------------------------------------------------
\* Answers and feeds.

\* Out of stock: whatever row has its uid now.  Restocked: the row it was called for, if it is still there.
OutAnswered(c) ==
  /\ c.what = "out"
  /\ asked' = asked \ {c}
  /\ \E ok \in BOOLEAN :
       /\ IF c.of \in DOMAIN rows
          THEN Shown([rows EXCEPT ![c.of].busy = FALSE, ![c.of].stock = IF ok THEN @ ELSE TRUE], drawer, confirming)
          ELSE UNCHANGED <<rows, drawer, confirming>>
       /\ offer' = IF ok THEN c.of ELSE 0
  /\ UNCHANGED <<asks, flies, clones, hidden, remains, crossed>>
RestockAnswered(c) ==
  /\ c.what = "restock"
  /\ asked' = asked \ {c}
  /\ \E ok \in BOOLEAN :
       /\ IF c.of \in DOMAIN rows /\ c.live
          THEN Shown([rows EXCEPT ![c.of].busy = FALSE, ![c.of].stock = ok], drawer, confirming)
          ELSE UNCHANGED <<rows, drawer, confirming>>
       /\ offer' \in IF ok THEN {0, offer} ELSE {0}   \* "Fully stocked." takes its place
  /\ UNCHANGED <<asks, flies, clones, hidden, remains, crossed>>

Receives(rest) ==
  /\ \E here \in SUBSET Item : \E stock \in SUBSET here :
       Shown([i \in here |-> [stock |-> i \in stock, busy |-> FALSE]], drawer, FALSE)
  /\ asked' = {IF c.what = "restock" THEN [c EXCEPT !.live = FALSE] ELSE c : c \in rest}
ReceivePantry ==
  /\ remains.feeds > 0 /\ remains' = [remains EXCEPT !.feeds = @ - 1]
  /\ Receives(asked)
  /\ UNCHANGED <<asks, flies, clones, hidden, offer, crossed>>

\* A clear that failed is said to; otherwise the list is read again, or what was out of stock is swept.
ClearAnswered(c) ==
  /\ c.what = "clear"
  /\ \/ /\ asked' = asked \ {c}
        /\ offer' = 0
     \/ /\ asked' = (asked \ {c}) \cup {[c EXCEPT !.what = "read"]}
        /\ UNCHANGED offer
  /\ UNCHANGED <<rows, drawer, confirming, asks, flies, clones, hidden, remains, crossed>>
RereadAnswered(c) ==
  /\ c.what = "read"
  /\ \/ Shown([i \in InStock(rows) |-> rows[i]], drawer, confirming) /\ asked' = asked \ {c}
     \/ Receives(asked \ {c})
  /\ UNCHANGED <<asks, flies, clones, hidden, offer, remains, crossed>>

\* The offer goes with its toast.
ToastGone == offer # 0 /\ offer' = 0 /\ UNCHANGED <<rows, drawer, confirming, asks, flies, clones, hidden, asked, remains, crossed>>

----------------------------------------------------------------------------

DrawerInit ==
  /\ rows = <<>> /\ drawer = FALSE /\ confirming = FALSE
  /\ asks \in BOOLEAN /\ flies \in BOOLEAN
  /\ clones = {} /\ hidden = {} /\ offer = 0 /\ asked = {} /\ crossed = {}
  /\ remains = [acts |-> MaxActs, feeds |-> MaxFeeds]

DrawerNext ==
  \/ ToggleDrawer \/ OnClear \/ CancelClear \/ ConfirmOutClear
  \/ MarkOut \/ DrawerRestock \/ UndoOut \/ Arrive \/ ReceivePantry \/ ToastGone
  \/ \E c \in asked : OutAnswered(c) \/ RestockAnswered(c) \/ ClearAnswered(c) \/ RereadAnswered(c)

DrawerSpec == DrawerInit /\ [][DrawerNext]_drawerVars

DrawerTypeOK ==
  /\ DOMAIN rows \subseteq Item /\ hidden \subseteq Item /\ offer \in Item \cup {0}
  /\ \A i \in DOMAIN rows : rows[i] \in [stock : BOOLEAN, busy : BOOLEAN]

\* However answers, feeds and flights overlap: what is about to be cleared is on screen; a row is
\* invisible only while a clone of it is in the air, so none stays so; while its clone is on its way it
\* is not seen twice (unless an earlier clone of it still was in the air: its end shows the row); and a
\* row is locked only while a call on it is under way (pantry-checklist/App.svelte).
DrawerRight ==
  /\ confirming => drawer /\ OutOfStock(rows) # {}
  /\ \A i \in hidden : \E c \in clones : c.of = i
  /\ \A c \in clones : c.hides /\ ~c.arrived /\ c.of \notin crossed => c.of \in hidden
  /\ \A i \in DOMAIN rows : rows[i].busy => \E c \in asked : c.of = i

\* However the rows in stock are filed, each is drawn once, and no heading is drawn twice, which "would
\* crash the whole widget" (grocery-checklist/App.svelte 76-82: sorting is said to avoid it in the pantry):
\* but for rows of an aisle called "Other" beside rows without an aisle, with a later aisle between them.
TwoOthers(aisle) == {Other, NoAisle} \subseteq {aisle[i] : i \in InStock(rows)}
                    /\ \E i \in InStock(rows) : aisle[i] > Other
GroupedRight == \A aisle \in Filings : LET gs == Groups(aisle) IN
  /\ IsInjective([g \in DOMAIN gs |-> gs[g].key]) \/ TwoOthers(aisle)
  /\ LET drawn == FlattenSeq([g \in DOMAIN gs |-> gs[g].items])
     IN IsInjective(drawn) /\ ToSet(drawn) = InStock(rows)
====
