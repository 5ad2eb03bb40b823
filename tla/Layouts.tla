---- MODULE Layouts ----
(***************************************************************************)
(* What four widgets draw of the rows they hold: a menu its days, with the *)
(* empty ones taken together; the recipe browser the rows that match, in   *)
(* their order; the week planner a board of types and days and, on a       *)
(* narrow screen, one day of it; the grocery list its aisles.  The host    *)
(* sends rows in any shape, and the user filters, sorts, unfolds, picks a  *)
(* day, marks and puts back.                                               *)
(***************************************************************************)
EXTENDS Naturals, Sequences, FiniteSets, SequencesExt, FiniteSetsExt, Functions, Grouping

CONSTANTS
  Line,      \* rows, positive numbers in the order of their names
  FileOf,    \* the primary category or the aisle of each, 0 for none
  RatingOf,
  LastDay,   \* days of a week; a menu's items lie on days up to LastDay + 1
  MaxTurns, MaxSends   \* how often the user acts and the host sends rows

ASSUME LayoutsAssumption == /\ Line \subseteq Nat \ {0}
                            /\ LastDay \in Nat \ {0}
                            /\ MaxTurns \in Nat /\ MaxSends \in Nat

VARIABLES
  panel,    \* which widget
  rowsOf,   \* the rows in the order they were sent; per row what it is filed under and its mark
            \* (its day on the board, or whether it is bought); the days of the menu, the types of the
            \* planner, or whether the browser's order is the server's ranking
  picks,    \* the browser's category, words, order and unfolded row; the planner's day
  turns

layoutVars == <<panel, rowsOf, picks, turns>>

Day7 == 1..LastDay
Drawn == Range(rowsOf.lines)
FiledAs(x, k) == rowsOf.file[x] = k
Marked(x) == rowsOf.mark[x] = 1
Nothing == [lines |-> <<>>, file |-> FileOf, mark |-> [x \in Line |-> 0], extent |-> 0]
AllShown == [cat |-> 0, words |-> Line, rated |-> FALSE, open |-> 0, day |-> 1]

----------------------------------------------------------------------------
\* The menu: its declared days and those of its items, runs of empty ones as one.

Span == Max({rowsOf.extent} \cup {rowsOf.file[x] : x \in Drawn})
Section(d) == SelectSeq(rowsOf.lines, LAMBDA x : FiledAs(x, d))
Alike(out, items) == out # <<>> /\ items = <<>> /\ Last(out).items = <<>>
DisplaySections ==
  FoldLeft(LAMBDA out, d : IF Alike(out, Section(d))
                           THEN [out EXCEPT ![Len(out)].to = d]
                           ELSE Append(out, [from |-> d, to |-> d, items |-> Section(d)]),
           <<>>, [d \in 1..Span |-> d])

\* The browser: what is in the category and matches the words, in the server's or the chosen order.
ChipRow == {rowsOf.file[x] : x \in Drawn} \ {0}
Matches(x) == x \in picks.words /\ (picks.cat = 0 \/ FiledAs(x, picks.cat))
Ranked == rowsOf.extent = 1
Above(x, y) == IF picks.rated /\ RatingOf[x] # RatingOf[y] THEN RatingOf[x] > RatingOf[y] ELSE x < y
Filtered == LET list == SelectSeq(rowsOf.lines, Matches)
            IN IF Ranked THEN list ELSE SetToSortSeq(Range(list), Above)

\* The planner: a band per type, a cell per day; a meal of no known type is in a band of its own.
Orphan(x) == rowsOf.file[x] \notin 1..rowsOf.extent
InBand(x, b) == IF b = 0 THEN Orphan(x) ELSE FiledAs(x, b)
Cell(b, d) == SelectSeq(rowsOf.lines, LAMBDA x : InBand(x, b) /\ rowsOf.mark[x] = d)
BoardBands == [b \in 1..rowsOf.extent |-> b]
              \o (IF \E d \in Day7 : Cell(0, d) # <<>> THEN <<0>> ELSE <<>>)
Slots == SelectSeq(BoardBands, LAMBDA b : b # 0 \/ Cell(b, picks.day) # <<>>)
FocusedMeals == SelectSeq(rowsOf.lines, LAMBDA x : rowsOf.mark[x] = picks.day)

\* The grocery list: aisles where they first occur, what is bought at the end of each.
Merged(gs) ==
  FoldLeft(LAMBDA out, g : IF \E i \in DOMAIN out : out[i].key = g.key
                           THEN [i \in DOMAIN out |-> IF out[i].key = g.key
                                                      THEN [out[i] EXCEPT !.items = @ \o g.items] ELSE out[i]]
                           ELSE Append(out, g),
           <<>>, gs)
Sunk(items) == SelectSeq(items, LAMBDA x : ~Marked(x)) \o SelectSeq(items, Marked)
AisleGroups == LET gs == Merged(groupConsecutive(rowsOf.lines, rowsOf.file))
               IN [i \in DOMAIN gs |-> [gs[i] EXCEPT !.items = Sunk(@)]]

----------------------------------------------------------------------------
\* The host and the user.

Orders(S) == {s \in UNION {[1..k -> S] : k \in 0..Cardinality(S)} : IsInjective(s)}
Only(S, f) == [x \in Line |-> IF x \in S THEN f[x] ELSE 0]
Few == {S \in SUBSET Line : Cardinality(S) <= 2}
MenuSent == {[Nothing EXCEPT !.lines = SetToSortSeq(S, <), !.file = Only(S, f), !.extent = n] :
               S \in SUBSET Line, f \in [Line -> 1..LastDay + 1], n \in 0..LastDay}
BrowserSent == {[Nothing EXCEPT !.lines = s, !.extent = n] : s \in Orders(Line), n \in {0, 1}}
PlannerSent == {[Nothing EXCEPT !.lines = SetToSortSeq(S, <), !.file = Only(S, f), !.mark = Only(S, d), !.extent = n] :
                  S \in Few, f \in [Line -> 0..2], d \in [Line -> Day7], n \in 0..2}
GrocerySent == {[Nothing EXCEPT !.lines = s, !.mark = Only(Range(s), b)] : s \in Orders(Line), b \in [Line -> {0, 1}]}
Sent == CASE panel = "menu" -> MenuSent
          [] panel = "browser" -> BrowserSent
          [] panel = "planner" -> PlannerSent
          [] panel = "grocery" -> GrocerySent

TurnOf(who) == turns[who] > 0 /\ turns' = [turns EXCEPT ![who] = @ - 1]

\* A fresh result leaves the filters; the order and the day stay.
ReceiveRows ==
  /\ TurnOf("host")
  /\ rowsOf' \in Sent
  /\ picks' = [picks EXCEPT !.cat = 0, !.words = Line, !.open = 0]
  /\ UNCHANGED panel

\* Each way to refine the list folds the open row.
Refines(by) ==
  /\ panel = "browser" /\ Drawn # {}
  /\ TurnOf("user")
  /\ picks' = [by EXCEPT !.open = 0]
  /\ UNCHANGED <<panel, rowsOf>>
SetCategory == \E c \in ChipRow \cup {0} : ChipRow # {} /\ Refines([picks EXCEPT !.cat = c])
OnSearchInput == \E ws \in SUBSET Line : Refines([picks EXCEPT !.words = ws])
ClearFilters == Filtered = <<>> /\ Refines([picks EXCEPT !.cat = 0, !.words = Line])
ToggleSort == ~Ranked /\ Len(rowsOf.lines) > 1 /\ Refines([picks EXCEPT !.rated = ~@])
ToggleRow(x) ==
  /\ panel = "browser" /\ x \in Range(Filtered)
  /\ TurnOf("user")
  /\ picks' = [picks EXCEPT !.open = IF @ = x THEN 0 ELSE x]
  /\ UNCHANGED <<panel, rowsOf>>

PickDay(d) ==
  /\ panel = "planner"
  /\ TurnOf("user")
  /\ picks' = [picks EXCEPT !.day = d]
  /\ UNCHANGED <<panel, rowsOf>>

\* A row is ticked off, or its call fails and it is not.
Ticks(x) ==
  /\ panel = "grocery" /\ x \in Drawn
  /\ TurnOf("user")
  /\ rowsOf' = [rowsOf EXCEPT !.mark[x] = 1 - @]
  /\ UNCHANGED <<panel, picks>>

\* A bought row is put back: a new row y takes its place, or stands beside it if it could not be
\* removed, or is not shown if the host has left it out.
PutsBack(x, y) ==
  /\ panel = "grocery" /\ x \in Drawn /\ Marked(x)
  /\ y \in Line \ Drawn
  /\ TurnOf("user")
  /\ LET i == CHOOSE i \in DOMAIN rowsOf.lines : rowsOf.lines[i] = x
         fresh == [rowsOf EXCEPT !.file[y] = rowsOf.file[x], !.mark[y] = 0]
     IN \/ rowsOf' = [fresh EXCEPT !.lines[i] = y]
        \/ rowsOf' = [fresh EXCEPT !.lines = InsertAt(@, i + 1, y)]
        \/ rowsOf' = [rowsOf EXCEPT !.lines = RemoveAt(@, i)]
  /\ UNCHANGED <<panel, picks>>

LayoutsInit ==
  /\ panel \in {"menu", "browser", "planner", "grocery"}
  /\ rowsOf = Nothing
  /\ picks = AllShown
  /\ turns = [user |-> MaxTurns, host |-> MaxSends]

LayoutsNext ==
  \/ ReceiveRows
  \/ SetCategory \/ OnSearchInput \/ ClearFilters \/ ToggleSort
  \/ \E x \in Line : ToggleRow(x) \/ Ticks(x) \/ (\E y \in Line : PutsBack(x, y))
  \/ \E d \in Day7 : PickDay(d)

LayoutsTypeOK == /\ Drawn \subseteq Line /\ IsInjective(rowsOf.lines)
                 /\ picks.open \in Line \cup {0} /\ picks.day \in Day7

----------------------------------------------------------------------------

\* Together the groups hold every row once.
Parts(groups) == FlattenSeq([i \in DOMAIN groups |-> groups[i].items])
Whole(groups) == IsInjective(Parts(groups)) /\ Range(Parts(groups)) = Drawn

\* A menu shows each of its items once and each of its days in one group, in order, never two empty
\* groups side by side (menu/App.svelte 75-127).
MenuLaidOut ==
  LET gs == DisplaySections IN
  /\ Whole(gs)
  /\ \A d \in 1..Span : Cardinality({i \in DOMAIN gs : d \in gs[i].from..gs[i].to}) = 1
  /\ \A i \in DOMAIN gs : /\ gs[i].items # <<>> => gs[i].from = gs[i].to
                          /\ i > 1 => gs[i].from = gs[i - 1].to + 1 /\ {gs[i].items, gs[i - 1].items} # {<<>>}

\* The open row is one that is shown, the chosen category one that can be unchosen, and a ranking is
\* kept (recipe-browser/App.svelte 97-129, 195-259).
BrowserLaidOut ==
  /\ picks.open \in Range(Filtered) \cup {0}
  /\ picks.cat \in ChipRow \cup {0}
  /\ Range(Filtered) = {x \in Drawn : Matches(x)}
  /\ Ranked => \A x, y \in Range(Filtered) :
       (\E i, j \in DOMAIN Filtered : i < j /\ Filtered[i] = x /\ Filtered[j] = y)
         => \E i, j \in DOMAIN rowsOf.lines : i < j /\ rowsOf.lines[i] = x /\ rowsOf.lines[j] = y

\* "The two views can't disagree about which meals exist" (meal-week-planner/App.svelte 196-198): the
\* board shows every meal of the week once, the narrow view the focused day's column of it, whole.
PlannerLaidOut ==
  /\ Whole(FlattenSeq([b \in DOMAIN BoardBands |-> [d \in Day7 |-> [items |-> Cell(BoardBands[b], d)]]]))
  /\ LET shown == FlattenSeq([i \in DOMAIN Slots |-> Cell(Slots[i], picks.day)])
     IN Range(shown) = Range(FocusedMeals) /\ Len(shown) = Len(FocusedMeals)

\* No two aisles have one key, which "would crash the whole widget" (grocery-checklist/App.svelte
\* 76-82), and each shows its rows once, the bought ones last, however rows were put back.
GroceryLaidOut ==
  LET gs == AisleGroups IN
  /\ Whole(gs)
  /\ \A i, j \in DOMAIN gs : gs[i].key = gs[j].key => i = j
  /\ \A i \in DOMAIN gs : \A a, b \in DOMAIN gs[i].items :
       a < b => (Marked(gs[i].items[a]) => Marked(gs[i].items[b]))

LaidOut == CASE panel = "menu" -> MenuLaidOut
             [] panel = "browser" -> BrowserLaidOut
             [] panel = "planner" -> PlannerLaidOut
             [] panel = "grocery" -> GroceryLaidOut
====
