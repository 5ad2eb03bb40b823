---- MODULE Checklists ----
(***************************************************************************)
(* The pantry and the grocery checklist widgets.  A tap flips a row at     *)
(* once, calls a tool and reverts if that fails; a clear or a move is      *)
(* followed by a re-read; and the host pushes reads of its own, each of    *)
(* which replaces every row.                                               *)
(***************************************************************************)
EXTENDS Naturals

CONSTANTS
  Entry,         \* uids of rows, positive numbers
  MaxTaps, MaxReads, MaxUpsets   \* how often the user acts, the host reads, something goes wrong

ASSUME ChecklistsAssumption == /\ {1, 2} \subseteq Entry /\ Entry \subseteq Nat \ {0}
                               /\ MaxTaps \in Nat /\ MaxReads \in Nat /\ MaxUpsets \in Nat

VARIABLES
  widget,    \* which of the two it is
  shelf,     \* the server's rows: out of stock, or bought
  row,       \* the rows shown: the same, busy, and the read they came with
  flights,   \* calls and reads under way
  named,     \* what each row is of
  undo,      \* the row an Undo toast is about, 0 when there is none
  swiped,    \* the row that is sliding out and will be acted on, 0 when there is none
  reads,     \* reads shown so far
  left,      \* taps, reads and upsets left
  doubted    \* history only: rows the widget cannot know the truth about

checklistVars == <<widget, shelf, row, flights, named, undo, swiped, reads, left, doubted>>

None == [u \in {} |-> FALSE]
Flight(op, u, gen) == [op |-> op, uid |-> u, gen |-> gen, at |-> "sent", new |-> 0, snap |-> None, overtaken |-> FALSE]
Flying == UNION {{f.uid, f.new} : f \in flights}
Done == {u \in DOMAIN row : row[u].done}
With(new, rows) == [u \in DOMAIN new \cup DOMAIN rows |-> IF u \in DOMAIN new THEN new[u] ELSE rows[u]]
Minus(rows, U) == [u \in DOMAIN rows \ U |-> rows[u]]
Differ(s, t) == {u \in Entry : \/ (u \in DOMAIN s) # (u \in DOMAIN t)
                               \/ u \in DOMAIN s /\ u \in DOMAIN t /\ s[u] # t[u]}
Uses(what) == left[what] > 0 /\ left' = [left EXCEPT ![what] = @ - 1]

----------------------------------------------------------------------------
\* The user.

\* The row is flipped if that is what the call does, and locked until the answer, unless a read replaces
\* it before.  Two calls on one row can end either way.
Calls(op, u, done) ==
  /\ ~row[u].busy
  /\ Uses("taps")
  /\ row' = [row EXCEPT ![u].busy = TRUE, ![u].done = done]
  /\ flights' = flights \cup {Flight(op, u, row[u].gen)}
  /\ doubted' = IF u \in Flying THEN doubted \cup {u} \cup ({f.new : f \in {g \in flights : g.uid = u}} \ {0}) ELSE doubted
  /\ UNCHANGED <<widget, shelf, named, reads>>

OnOut(u) == widget = "pantry" /\ u \in DOMAIN row \ Done /\ Calls("out", u, TRUE)
OnRestock(u) == widget = "pantry" /\ u \in Done /\ Calls("restock", u, FALSE)
DoMark(u) == widget = "grocery" /\ u \in DOMAIN row \ Done /\ Calls("mark", u, TRUE)
\* What is still to buy is not put back a second time.
ToBuy(u) == \E v \in DOMAIN row \ Done : named[v] = named[u]
DoReadd(u) == widget = "grocery" /\ u \in Done /\ ~ToBuy(u) /\ Calls("readd", u, TRUE)

Tap(u) ==
  /\ \/ (OnOut(u) \/ DoMark(u) \/ DoReadd(u)) /\ UNCHANGED undo
     \/ OnRestock(u) /\ undo' = 0
  /\ UNCHANGED swiped

\* Undo restocks the row with that uid, whatever it shows by now; a row that is gone is asked for all the same.
Undo ==
  /\ undo # 0
  /\ undo' = 0
  /\ UNCHANGED swiped
  /\ CASE undo \in DOMAIN row /\ row[undo].busy -> UNCHANGED <<widget, shelf, row, flights, named, reads, left, doubted>>
       [] undo \in DOMAIN row /\ ~row[undo].busy ->
          /\ Uses("taps")
          /\ row' = [row EXCEPT ![undo].busy = TRUE, ![undo].done = FALSE]
          /\ flights' = flights \cup {Flight("restock", undo, row[undo].gen)}
          /\ doubted' = IF undo \in Flying \cup (DOMAIN row \ Done) THEN doubted \cup {undo} ELSE doubted
          /\ UNCHANGED <<widget, shelf, named, reads>>
       [] OTHER ->
          /\ Uses("taps")
          /\ flights' = flights \cup {Flight("restock", undo, 0)}
          /\ UNCHANGED <<widget, shelf, row, named, reads, doubted>>

\* A swipe commits a moment after the finger is lifted, on the row that then has the uid.
Swipe(u) ==
  /\ swiped = 0 /\ u \in DOMAIN row \ Done
  /\ widget = "pantry" => ~row[u].busy
  /\ swiped' = u
  /\ UNCHANGED <<widget, shelf, row, flights, named, undo, reads, left, doubted>>
SwipeEnds ==
  /\ swiped # 0
  /\ swiped' = 0
  /\ UNCHANGED undo
  /\ IF \/ swiped \notin DOMAIN row
        \/ row[swiped].busy
        \/ swiped \in Done /\ (widget = "pantry" \/ ToBuy(swiped))
     THEN UNCHANGED <<widget, shelf, row, flights, named, reads, left, doubted>>
     ELSE OnOut(swiped) \/ DoMark(swiped) \/ DoReadd(swiped)

\* Clear, or move to the pantry what is shown as bought; on the host's word or after a second tap.
ConfirmClear ==
  /\ Done # {}
  /\ Uses("taps")
  /\ \/ flights' = flights \cup {Flight("clear", 0, reads)}
     \/ /\ widget = "grocery"
        /\ flights' = flights \cup {[Flight("move", 0, reads) EXCEPT !.snap = [u \in Done |-> TRUE]]}
  /\ UNCHANGED <<widget, shelf, row, named, undo, swiped, reads, doubted>>

----------------------------------------------------------------------------
\* The server.

Possible(f) == f.op \in {"readd", "clear", "move", "reread"} \/ f.uid \in DOMAIN shelf
After(f, n) == CASE f.op \in {"out", "mark"} -> [shelf EXCEPT ![f.uid] = TRUE]
                 [] f.op = "restock" -> [shelf EXCEPT ![f.uid] = FALSE]
                 [] f.op = "readd" -> With([u \in {n} |-> FALSE], shelf)
                 [] f.op = "remove" -> Minus(shelf, {f.uid})
                 [] f.op = "clear" -> Minus(shelf, {u \in DOMAIN shelf : shelf[u]})
                 [] f.op = "move" -> Minus(shelf, DOMAIN f.snap)
                 [] f.op = "reread" -> shelf

Replied(f, at, n) == flights' = (flights \ {f}) \cup
  {[f EXCEPT !.at = at, !.new = IF f.op = "readd" THEN n ELSE @, !.snap = IF f.op = "reread" THEN shelf ELSE @]}

\* A call takes effect, with or without the widget learning of it, or fails; the user may decline a clear or a move.
Lands(f) ==
  /\ f.at = "sent"
  /\ \E n \in IF f.op = "readd" THEN Entry \ (DOMAIN shelf \cup DOMAIN row \cup Flying) ELSE {f.new} :
       \/ /\ Possible(f)
          /\ shelf' = After(f, n)
          /\ named' = IF f.op = "readd" THEN [named EXCEPT ![n] = named[f.uid]] ELSE named
          /\ \/ /\ Replied(f, "ok", n)
                /\ doubted' = IF f.overtaken \/ f.uid \in doubted THEN doubted \cup Differ(shelf, shelf') ELSE doubted
                /\ UNCHANGED left
             \/ /\ Uses("upsets")
                /\ \/ Replied(f, "failed", 0)
                   \/ f.op = "readd" /\ Replied(f, "ok", 0)
                /\ doubted' = doubted \cup Differ(shelf, shelf')
       \/ /\ IF Possible(f) THEN Uses("upsets") ELSE UNCHANGED left
          /\ Replied(f, "failed", 0)
          /\ UNCHANGED <<shelf, named, doubted>>
       \/ /\ f.op \in {"clear", "move"} /\ Replied(f, "ok", 0)
          /\ UNCHANGED <<shelf, named, left, doubted>>
  /\ UNCHANGED <<widget, row, undo, swiped, reads>>

\* A call of the model's, whose result the host pushes.
Push ==
  /\ Uses("reads")
  /\ flights' = flights \cup {[Flight("reread", 0, reads) EXCEPT !.at = "ok", !.snap = shelf]}
  /\ UNCHANGED <<widget, shelf, row, named, undo, swiped, reads, doubted>>

\* Another device, or a call whose result the host does not push.
Elsewhere ==
  /\ Uses("upsets")
  /\ \E u \in DOMAIN shelf :
       /\ shelf' \in {Minus(shelf, {u}), [shelf EXCEPT ![u] = ~@]}
       /\ doubted' = doubted \cup {u}
  /\ UNCHANGED <<widget, row, flights, named, undo, swiped, reads>>

----------------------------------------------------------------------------
\* The answers.

\* Out of stock settles whatever row has the uid now, the others the row that was tapped.
Settled(f) == f.uid \in DOMAIN row /\ (f.op = "out" \/ row[f.uid].gen = f.gen)

Answered(f) ==
  /\ f.at \in {"ok", "failed"} /\ f.op \in {"out", "restock", "mark"}
  /\ row' = IF Settled(f)
            THEN [row EXCEPT ![f.uid].busy = FALSE,
                             ![f.uid].done = IF f.at = "failed" THEN f.op = "restock" ELSE @]
            ELSE row
  /\ undo' = IF f.op = "out" /\ f.at = "ok" THEN f.uid ELSE IF f.at = "failed" THEN 0 ELSE undo
  /\ flights' = flights \ {f}
  /\ UNCHANGED <<widget, shelf, named, swiped, reads, left, doubted>>

\* A new copy is added, then the bought one removed, and the new one shown in its place or beside it.
Readded(f) ==
  /\ f.op = "readd" /\ f.at \in {"ok", "failed"}
  /\ IF f.at = "ok"
     THEN flights' = (flights \ {f}) \cup {[f EXCEPT !.op = "remove", !.at = "sent"]} /\ UNCHANGED row
     ELSE flights' = flights \ {f} /\ row' = IF Settled(f) THEN [row EXCEPT ![f.uid].busy = FALSE] ELSE row
  /\ UNCHANGED <<widget, shelf, named, undo, swiped, reads, left, doubted>>
Removed(f) ==
  /\ f.op = "remove" /\ f.at \in {"ok", "failed"}
  /\ flights' = flights \ {f}
  /\ row' = LET kept == IF f.at = "ok" THEN Minus(row, {f.uid}) ELSE [row EXCEPT ![f.uid].busy = FALSE]
                added == [u \in {f.new} \ {0} |-> [done |-> FALSE, busy |-> FALSE, gen |-> f.gen]]
            IN IF Settled(f) THEN With(added, kept) ELSE row
  /\ UNCHANGED <<widget, shelf, named, undo, swiped, reads, left, doubted>>

\* A clear that was declined looks like one that was not: either way the list is read again.
Reread(f) == /\ flights' = (flights \ {f}) \cup {Flight("reread", 0, reads)}
             /\ UNCHANGED row
Cleared(f) ==
  /\ f.op \in {"clear", "move"} /\ f.at \in {"ok", "failed"}
  /\ IF f.at = "ok" THEN Reread(f) ELSE flights' = flights \ {f} /\ UNCHANGED row
  /\ UNCHANGED <<widget, shelf, named, undo, swiped, reads, left, doubted>>

\* A read replaces every row, and the calls under way lose theirs.
Receive(f) ==
  /\ f.op = "reread" /\ f.at = "ok"
  /\ reads' = reads + 1
  /\ row' = [u \in DOMAIN f.snap |-> [done |-> f.snap[u], busy |-> FALSE, gen |-> reads + 1]]
  /\ flights' = {[g EXCEPT !.overtaken = TRUE] : g \in flights \ {f}}
  /\ doubted' = (doubted \cap Flying) \cup Differ(f.snap, shelf)
  /\ UNCHANGED <<widget, shelf, named, undo, swiped, left>>
\* Without one, the rows that were to go are taken as gone.
SweptView(f) ==
  /\ f.op = "reread" /\ f.at = "failed"
  /\ row' = Minus(row, Done)
  /\ flights' = {[g EXCEPT !.overtaken = TRUE] : g \in flights \ {f}}
  /\ doubted' = Entry
  /\ UNCHANGED <<widget, shelf, named, undo, swiped, reads, left>>

----------------------------------------------------------------------------

ChecklistsInit ==
  /\ widget \in {"pantry", "grocery"}
  /\ shelf = [u \in {1, 2} |-> u = 2]
  /\ row = [u \in DOMAIN shelf |-> [done |-> shelf[u], busy |-> FALSE, gen |-> 1]]
  /\ named = [u \in Entry |-> u]
  /\ flights = {} /\ undo = 0 /\ swiped = 0 /\ reads = 1 /\ doubted = {}
  /\ left = [taps |-> MaxTaps, reads |-> MaxReads, upsets |-> MaxUpsets]

ChecklistsNext ==
  \/ \E u \in DOMAIN row : Tap(u) \/ Swipe(u)
  \/ Undo \/ SwipeEnds \/ ConfirmClear \/ Push \/ Elsewhere
  \/ \E f \in flights : Lands(f) \/ Answered(f) \/ Readded(f) \/ Removed(f) \/ Cleared(f) \/ Receive(f) \/ SweptView(f)

ChecklistsSpec == ChecklistsInit /\ [][ChecklistsNext]_checklistVars

ChecklistsTypeOK ==
  /\ DOMAIN shelf \subseteq Entry /\ DOMAIN row \subseteq Entry
  /\ \A u \in DOMAIN row : row[u].gen \in 1..reads
  /\ undo \in Entry \cup {0} /\ swiped \in Entry \cup {0} /\ doubted \subseteq Entry

\* Once every call and read is answered, each row shown is on the list and looks as it is there, and
\* nothing on the list is missing, however taps, swipes, undos, clears, failures and the host's reads
\* overlapped: save where an answer was lost, a read failed or was out of date when shown, a call
\* landed after a read that replaced its row, two calls were on one row, or an undo came too late. And a row is
\* busy only while a call on it is under way (pantry-checklist and grocery-checklist App.svelte).
ListAgrees ==
  /\ flights = {} =>
       \A u \in Entry \ doubted : /\ (u \in DOMAIN row) = (u \in DOMAIN shelf)
                                  /\ u \in DOMAIN row => row[u].done = shelf[u]
  /\ \A u \in DOMAIN row : row[u].busy => \E f \in flights : f.uid = u /\ f.gen = row[u].gen
====
