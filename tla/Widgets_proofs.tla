--------------------------- MODULE Widgets_proofs ---------------------------
(***************************************************************************)
(* What the checklists of the widgets promise, for any rows, touches,      *)
(* calls and reads: the rows and the server, a row under the finger, and   *)
(* the pantry's drawer.                                                    *)
(***************************************************************************)
EXTENDS Checklists, Swipes, Drawer, TLAPS

(***************************************************************************)
(* The checklists, for any rows and calls: rows and server agree at rest.  *)
(***************************************************************************)

Shelves == UNION {[D -> BOOLEAN] : D \in SUBSET Entry}
RowOps == {"out", "restock", "mark", "readd", "remove", "clear", "move", "reread"}
RowFlight == [op : RowOps, uid : Entry \cup {0}, gen : Nat,
              at : {"sent", "ok", "failed"}, new : Entry \cup {0}, snap : Shelves, overtaken : BOOLEAN]
RowShown == [done : BOOLEAN, busy : BOOLEAN, gen : Nat]

WholeList == {"clear", "move", "reread"}
Flips == {"out", "restock", "mark"}
Target(f) == f.op \in {"out", "mark"}

\* The kinds of the state, and what each of the two widgets calls.
ListsTyped ==
  /\ widget \in {"pantry", "grocery"}
  /\ shelf \in Shelves
  /\ DOMAIN row \subseteq Entry /\ row \in [DOMAIN row -> RowShown]
  /\ flights \subseteq RowFlight
  /\ named \in [Entry -> Entry]
  /\ undo \in Entry \cup {0} /\ (widget = "grocery" => undo = 0)
  /\ swiped \in Entry \cup {0}
  /\ reads \in Nat \ {0} /\ doubted \subseteq Entry
  /\ left \in [taps : Nat, reads : Nat, upsets : Nat]

\* What a call is about, and which read the row it was made on came with: the rows shown all came with the last one.
CallsRight ==
  /\ \A u \in DOMAIN row : row[u].gen = reads
  /\ \A f \in flights :
       /\ f.uid = 0 <=> f.op \in WholeList
       /\ f.new # 0 => f.op \in {"readd", "remove"} /\ f.new # f.uid
       /\ f.op = "readd" /\ f.at # "ok" => f.new = 0
       /\ f.op \in {"out", "restock"} => widget = "pantry"
       /\ f.op \in {"mark", "readd", "remove", "move"} => widget = "grocery"
       /\ f.gen <= reads
       /\ f.gen # reads => f.overtaken \/ (f.gen = 0 /\ f.op = "restock")

Current(f) == f.gen = reads
About(f, u) == u \in {f.uid, f.new}

\* The row of a call is there until a read replaces it, and what it adds is not there yet; in the grocery list
\* the row is locked, by this call alone.
RowHeld(f) ==
  /\ f.op \notin WholeList =>
       /\ f.uid \in DOMAIN row
       /\ widget = "grocery" => row[f.uid].busy /\ \A h \in flights : Current(h) /\ h.uid = f.uid => h = f
  /\ f.new # 0 => f.new \notin DOMAIN row /\ \A h \in flights : Current(h) /\ h.new = f.new => h = f
RowsHeld == doubted # Entry => \A f \in flights : Current(f) => RowHeld(f)

\* What is not in doubt has one call under way, or is gone from the pantry for good.
OneCall ==
  /\ \A u \in Entry \ doubted : widget = "grocery" \/ u \in DOMAIN row \cup DOMAIN shelf =>
       \A f, h \in flights : About(f, u) /\ About(h, u) => f = h
  /\ \A f \in flights : f.gen = 0 /\ f.uid \in Entry \ doubted => f.uid \notin DOMAIN shelf

\* Whatever the rows say, the list is about to be read again.
Rereads == \E f \in flights : f.op = "reread" \/ (f.op \in WholeList /\ f.at = "ok")

\* A row under a call shows what the call is to bring about, and the server what it has brought about.
Awaits(f) ==
  LET u == f.uid IN
  /\ u \in DOMAIN row
  /\ f.op \in Flips => /\ row[u].done = Target(f)
                       /\ u \in DOMAIN shelf => shelf[u] = IF f.at = "ok" THEN Target(f) ELSE ~Target(f)
  /\ f.op \in {"readd", "remove"} => /\ row[u].done
                                     /\ u \in DOMAIN shelf => shelf[u] /\ ~(f.op = "remove" /\ f.at = "ok")

\* What is not in doubt is shown as it is, but for what a call or a read under way is going to put right.
Agrees(u) ==
  /\ \A f \in flights : Current(f) /\ f.uid = u => Awaits(f)
  /\ u \in DOMAIN row /\ u \in DOMAIN shelf =>
       row[u].done = shelf[u] \/ \E f \in flights : Current(f) /\ f.uid = u
  /\ u \in DOMAIN row /\ u \notin DOMAIN shelf =>
       Rereads \/ \E f \in flights : Current(f) /\ f.uid = u /\ f.op = "remove" /\ f.at = "ok"
  /\ u \in DOMAIN shelf /\ u \notin DOMAIN row => \E f \in flights : Current(f) /\ f.new = u
  /\ \A f \in flights : Current(f) /\ f.new = u =>
       /\ u \notin DOMAIN row
       /\ u \in DOMAIN shelf => ~shelf[u]
       /\ u \notin DOMAIN shelf => Rereads
  /\ \A f \in flights : f.op = "out" /\ f.uid = u /\ f.at # "ok" /\ u \in DOMAIN shelf => ~shelf[u]
AllAgree == \A u \in Entry \ doubted : Agrees(u)

\* A locked row has a call under way.
RowsLocked == \A u \in DOMAIN row : row[u].busy => \E f \in flights : f.uid = u /\ Current(f)

ListsInv == ListsTyped /\ CallsRight /\ RowsHeld /\ OneCall /\ AllAgree /\ RowsLocked

\* A shelf is a function of some of the rows.
LEMMA ShelfIs ==
  ASSUME NEW s
  PROVE  s \in Shelves <=> DOMAIN s \subseteq Entry /\ s \in [DOMAIN s -> BOOLEAN]
<1>1. ASSUME s \in Shelves PROVE DOMAIN s \subseteq Entry /\ s \in [DOMAIN s -> BOOLEAN]
  <2>1. PICK D \in SUBSET Entry : s \in [D -> BOOLEAN]
    BY <1>1 DEF Shelves
  <2> QED BY <2>1
<1>2. ASSUME DOMAIN s \subseteq Entry, s \in [DOMAIN s -> BOOLEAN] PROVE s \in Shelves
  BY <1>2 DEF Shelves
<1> QED BY <1>1, <1>2

\* What is left when some rows go.
LEMMA MinusIs ==
  ASSUME NEW s, NEW U
  PROVE  DOMAIN Minus(s, U) = DOMAIN s \ U /\ \A u \in DOMAIN s \ U : Minus(s, U)[u] = s[u]
  BY DEF Minus

\* What is taken off a shelf leaves a shelf.
LEMMA MinusShelf == \A s \in Shelves : \A U : Minus(s, U) \in Shelves
<1> SUFFICES ASSUME NEW s \in Shelves, NEW U PROVE Minus(s, U) \in Shelves
  OBVIOUS
<1>1. DOMAIN s \subseteq Entry /\ s \in [DOMAIN s -> BOOLEAN]
  BY ShelfIs
<1>2. Minus(s, U) \in [DOMAIN s \ U -> BOOLEAN]
  BY <1>1 DEF Minus
<1> QED BY <1>1, <1>2 DEF Shelves

\* Two shelves differ where one has what the other has not, or has otherwise.
LEMMA DifferIs ==
  ASSUME NEW s, NEW t, NEW u \in Entry, u \notin Differ(s, t)
  PROVE  (u \in DOMAIN s <=> u \in DOMAIN t) /\ (u \in DOMAIN s => s[u] = t[u])
  BY DEF Differ

\* A call that begins.
LEMMA FlightIs ==
  ASSUME NEW op \in RowOps, NEW u \in Entry \cup {0}, NEW gen \in Nat, NEW h,
         h = [op |-> op, uid |-> u, gen |-> gen, at |-> "sent", new |-> 0, snap |-> None, overtaken |-> FALSE]
  PROVE  /\ h \in RowFlight /\ h.op = op /\ h.uid = u /\ h.gen = gen
         /\ h.at = "sent" /\ h.new = 0 /\ h.overtaken = FALSE
<1>1. None \in Shelves
  BY ShelfIs DEF None
<1> QED BY <1>1 DEF RowFlight

\* One of the counters goes down.
LEMMA UsesIs ==
  ASSUME ListsTyped, NEW what \in {"taps", "reads", "upsets"}, Uses(what)
  PROVE  left' \in [taps : Nat, reads : Nat, upsets : Nat]
<1>1. PICK l \in [taps : Nat, reads : Nat, upsets : Nat] : l = left
  BY DEF ListsTyped
<1>2. l[what] > 0 /\ left' = [l EXCEPT ![what] = @ - 1]
  BY <1>1 DEF Uses
<1>3. l[what] - 1 \in Nat
  BY <1>2
<1> QED BY <1>2, <1>3

\* A row whose call, read and shelf stay as they are agrees as before.
LEMMA AgreesStill ==
  ASSUME NEW u \in Entry, Agrees(u), reads' = reads,
         u \in DOMAIN row' <=> u \in DOMAIN row, u \in DOMAIN row => row'[u].done = row[u].done,
         u \in DOMAIN shelf' <=> u \in DOMAIN shelf, u \in DOMAIN shelf => shelf'[u] = shelf[u],
         Rereads => Rereads',
         \A f \in flights : About(f, u) /\ Current(f) => f \in flights',
         \A f \in flights' : About(f, u) =>
            \/ f \in flights
            \/ ~Current(f) /\ (f.op = "out" /\ f.at # "ok" /\ u \in DOMAIN shelf => ~shelf[u])
  PROVE  Agrees(u)'
<1>0. \A f : Current(f)' <=> Current(f)
  BY DEF Current
<1>1. \A f \in flights' : Current(f)' /\ f.uid = u => Awaits(f)'
  <2> SUFFICES ASSUME NEW f \in flights', Current(f), f.uid = u PROVE Awaits(f)'
    BY <1>0
  <2>1. f \in flights /\ Awaits(f)
    BY DEF About, Agrees
  <2>2. u \in DOMAIN row /\ u \in DOMAIN row' /\ row'[u].done = row[u].done
    BY <2>1 DEF Awaits
  <2>3. f.op \in Flips => row'[u].done = Target(f) /\ (u \in DOMAIN shelf' => shelf'[u] = IF f.at = "ok" THEN Target(f) ELSE ~Target(f))
    BY <2>1, <2>2 DEF Awaits
  <2>4. f.op \in {"readd", "remove"} => row'[u].done /\ (u \in DOMAIN shelf' => shelf'[u] /\ ~(f.op = "remove" /\ f.at = "ok"))
    BY <2>1, <2>2 DEF Awaits
  <2> QED BY <2>2, <2>3, <2>4 DEF Awaits, Target
<1>2. u \in DOMAIN row' /\ u \in DOMAIN shelf' =>
        row'[u].done = shelf'[u] \/ \E f \in flights' : Current(f)' /\ f.uid = u
  BY <1>0 DEF Agrees, About
<1>3. u \in DOMAIN row' /\ u \notin DOMAIN shelf' =>
        Rereads' \/ \E f \in flights' : Current(f)' /\ f.uid = u /\ f.op = "remove" /\ f.at = "ok"
  BY <1>0 DEF Agrees, About
<1>4. u \in DOMAIN shelf' /\ u \notin DOMAIN row' => \E f \in flights' : Current(f)' /\ f.new = u
  BY <1>0 DEF Agrees, About
<1>5. \A f \in flights' : Current(f)' /\ f.new = u =>
        /\ u \notin DOMAIN row'
        /\ u \in DOMAIN shelf' => ~shelf'[u]
        /\ u \notin DOMAIN shelf' => Rereads'
  <2> SUFFICES ASSUME NEW f \in flights', Current(f), f.new = u
               PROVE  u \notin DOMAIN row' /\ (u \in DOMAIN shelf' => ~shelf'[u]) /\ (u \notin DOMAIN shelf' => Rereads')
    BY <1>0
  <2>1. f \in flights
    BY DEF About
  <2> QED BY <2>1 DEF Agrees
<1>6. \A f \in flights' : f.op = "out" /\ f.uid = u /\ f.at # "ok" /\ u \in DOMAIN shelf' => ~shelf'[u]
  BY DEF Agrees, About
<1> QED BY <1>1, <1>2, <1>3, <1>4, <1>5, <1>6 DEF Agrees

\* Every call is of this kind, and what is not in doubt is known.
LEMMA ListsFacts ==
  ASSUME ListsInv
  PROVE  /\ ListsTyped /\ CallsRight /\ RowsHeld /\ OneCall /\ AllAgree /\ RowsLocked
         /\ 0 \notin Entry /\ reads \in Nat \ {0}
         /\ \A f \in flights : f \in RowFlight /\ f.uid \in Entry \cup {0} /\ f.new \in Entry \cup {0} /\ f.gen \in Nat
                               /\ f.at \in {"sent", "ok", "failed"} /\ f.snap \in Shelves /\ f.overtaken \in BOOLEAN
  BY ChecklistsAssumption DEF ListsInv, ListsTyped, RowFlight

\* The offer of an Undo and a row that slides are no business of the others.
LEMMA AsideStep ==
  ASSUME ListsInv, UNCHANGED <<widget, shelf, row, flights, named, reads, doubted>>,
         undo' \in Entry \cup {0}, widget = "grocery" => undo' = 0, swiped' \in Entry \cup {0},
         left' \in [taps : Nat, reads : Nat, upsets : Nat]
  PROVE  ListsInv'
<1>1. ListsTyped'
  BY DEF ListsInv, ListsTyped
<1>2. CallsRight' /\ RowsLocked'
  BY DEF ListsInv, CallsRight, RowsLocked, Current
<1>3. RowsHeld' /\ OneCall'
  BY DEF ListsInv, RowsHeld, RowHeld, OneCall, Current
<1>4. AllAgree'
  <2> SUFFICES ASSUME NEW u \in Entry \ doubted PROVE Agrees(u)'
    BY DEF AllAgree
  <2>1. Agrees(u) /\ (Rereads => Rereads')
    BY DEF ListsInv, AllAgree, Rereads
  <2> QED BY <2>1, AgreesStill
<1> QED BY <1>1, <1>2, <1>3, <1>4 DEF ListsInv

\* A call that goes on, or has an answer, leaves a row as it was on both sides.
LEMMA AgreesReplied ==
  ASSUME NEW u \in Entry, Agrees(u), reads' = reads, row' = row,
         u \in DOMAIN shelf' <=> u \in DOMAIN shelf, u \in DOMAIN shelf => shelf'[u] = shelf[u],
         NEW f \in flights, NEW h, flights' = (flights \ {f}) \cup {h}, Rereads => Rereads',
         h.uid = f.uid, h.gen = f.gen, h.new = u <=> f.new = u,
         f.uid = u /\ Awaits(f) => Awaits(h),
         f.uid = u => ~(f.op = "remove" /\ f.at = "ok"),
         h.op = "out" /\ h.at # "ok" => f.op = "out" /\ f.at # "ok"
  PROVE  Agrees(u)'
<1>0. \A k : Current(k)' <=> Current(k)
  BY DEF Current
<1>1. \A k \in flights' : Current(k)' /\ k.uid = u => Awaits(k)'
  <2> SUFFICES ASSUME NEW k \in flights', Current(k), k.uid = u PROVE Awaits(k)'
    BY <1>0
  <2>1. Awaits(k)
    <3>1. CASE k \in flights
      BY <3>1 DEF Agrees
    <3>2. CASE k = h
      <4>1. Current(f) /\ f.uid = u
        BY <3>2 DEF Current
      <4> QED BY <4>1, <3>2 DEF Agrees
    <3> QED BY <3>1, <3>2
  <2>2. u \in DOMAIN row'
    BY <2>1 DEF Awaits
  <2>3. k.op \in Flips => row'[u].done = Target(k) /\ (u \in DOMAIN shelf' => shelf'[u] = IF k.at = "ok" THEN Target(k) ELSE ~Target(k))
    BY <2>1, <2>2 DEF Awaits
  <2>4. k.op \in {"readd", "remove"} => row'[u].done /\ (u \in DOMAIN shelf' => shelf'[u] /\ ~(k.op = "remove" /\ k.at = "ok"))
    BY <2>1, <2>2 DEF Awaits
  <2> QED BY <2>2, <2>3, <2>4 DEF Awaits, Target
<1>2. u \in DOMAIN row' /\ u \in DOMAIN shelf' =>
        row'[u].done = shelf'[u] \/ \E k \in flights' : Current(k)' /\ k.uid = u
  BY DEF Agrees, Current
<1>3. u \in DOMAIN row' /\ u \notin DOMAIN shelf' =>
        Rereads' \/ \E k \in flights' : Current(k)' /\ k.uid = u /\ k.op = "remove" /\ k.at = "ok"
  BY <1>0 DEF Agrees
<1>4. u \in DOMAIN shelf' /\ u \notin DOMAIN row' => \E k \in flights' : Current(k)' /\ k.new = u
  BY DEF Agrees, Current
<1>5. \A k \in flights' : Current(k)' /\ k.new = u =>
        /\ u \notin DOMAIN row'
        /\ u \in DOMAIN shelf' => ~shelf'[u]
        /\ u \notin DOMAIN shelf' => Rereads'
  <2> SUFFICES ASSUME NEW k \in flights', Current(k), k.new = u
               PROVE  u \notin DOMAIN row' /\ (u \in DOMAIN shelf' => ~shelf'[u]) /\ (u \notin DOMAIN shelf' => Rereads')
    BY <1>0
  <2>1. PICK q \in flights : Current(q) /\ q.new = u
    BY DEF Current
  <2> QED BY <2>1 DEF Agrees
<1>6. \A k \in flights' : k.op = "out" /\ k.uid = u /\ k.at # "ok" /\ u \in DOMAIN shelf' => ~shelf'[u]
  BY DEF Agrees
<1> QED BY <1>1, <1>2, <1>3, <1>4, <1>5, <1>6 DEF Agrees

\* A row no call is about.
LEMMA AgreesAlone ==
  ASSUME NEW u \in Entry, \A f \in flights' : ~About(f, u),
         u \in DOMAIN row' /\ u \in DOMAIN shelf' => row'[u].done = shelf'[u],
         u \in DOMAIN row' /\ u \notin DOMAIN shelf' => Rereads',
         u \in DOMAIN shelf' => u \in DOMAIN row'
  PROVE  Agrees(u)'
<1>1. \A f \in flights' : f.uid # u /\ f.new # u
  BY DEF About
<1> QED BY <1>1 DEF Agrees

\* A row that went from the server, when the list is about to be read again.
LEMMA AgreesGone ==
  ASSUME NEW u \in Entry, Agrees(u), reads' = reads, row' = row, u \notin DOMAIN shelf', Rereads',
         \A f \in flights' : About(f, u) => f \in flights
  PROVE  Agrees(u)'
<1>0. \A k : Current(k)' <=> Current(k)
  BY DEF Current
<1>1. \A k \in flights' : Current(k)' /\ k.uid = u => Awaits(k)'
  <2> SUFFICES ASSUME NEW k \in flights', Current(k), k.uid = u PROVE Awaits(k)'
    BY <1>0
  <2>1. Awaits(k)
    BY DEF Agrees, About
  <2>2. u \in DOMAIN row'
    BY <2>1 DEF Awaits
  <2>3. k.op \in Flips => row'[u].done = Target(k)
    BY <2>1, <2>2 DEF Awaits
  <2>4. k.op \in {"readd", "remove"} => row'[u].done
    BY <2>1, <2>2 DEF Awaits
  <2> QED BY <2>2, <2>3, <2>4 DEF Awaits, Target
<1>2. \A k \in flights' : Current(k)' /\ k.new = u => u \notin DOMAIN row'
  BY <1>0 DEF Agrees, About
<1> QED BY <1>1, <1>2 DEF Agrees

\* A clear, a move or a read of the list begins or ends.
LEMMA WholeListStep ==
  ASSUME ListsInv, Rereads => Rereads',
         \A h \in flights' \ flights : h \in RowFlight /\ h.op \in WholeList /\ h.uid = 0 /\ h.new = 0 /\ h.gen = reads
                                      /\ (h.op = "move" => widget = "grocery"),
         \A f \in flights : f.op \notin WholeList => f \in flights',
         UNCHANGED <<widget, shelf, row, named, undo, swiped, reads, doubted>>,
         left' \in [taps : Nat, reads : Nat, upsets : Nat]
  PROVE  ListsInv'
<1>0. /\ ListsTyped /\ CallsRight /\ RowsHeld /\ OneCall /\ AllAgree /\ RowsLocked
      /\ 0 \notin Entry /\ reads \in Nat \ {0}
      /\ \A h \in WholeList : h \notin {"readd", "out", "restock", "mark", "remove"}
  BY ListsFacts DEF WholeList
<1>a. \A f \in flights', u \in Entry : About(f, u) => f \in flights
  BY <1>0 DEF About
<1>b. \A f \in flights, u \in Entry : About(f, u) => f \in flights'
  BY <1>0 DEF About, CallsRight
<1>1. ListsTyped'
  BY <1>0 DEF ListsTyped
<1>2. CallsRight'
  <2> SUFFICES ASSUME NEW f \in flights', f \notin flights
               PROVE  /\ f.uid = 0 <=> f.op \in WholeList
                      /\ f.new # 0 => f.op \in {"readd", "remove"} /\ f.new # f.uid
                      /\ f.op = "readd" /\ f.at # "ok" => f.new = 0
                      /\ f.op \in {"out", "restock"} => widget = "pantry"
                      /\ f.op \in {"mark", "readd", "remove", "move"} => widget = "grocery"
                      /\ f.gen <= reads
                      /\ f.gen # reads => f.overtaken \/ (f.gen = 0 /\ f.op = "restock")
    BY <1>0 DEF CallsRight
  <2> QED BY <1>0
<1>3. RowsHeld'
  <2> SUFFICES ASSUME doubted # Entry, NEW f \in flights', Current(f)
               PROVE  RowHeld(f)'
    BY DEF RowsHeld, Current
  <2>1. CASE f \in flights
    <3>1. RowHeld(f)
      BY <1>0, <2>1 DEF RowsHeld
    <3>2. \A h \in flights' : h \in flights \/ (h.uid = 0 /\ h.new = 0)
      OBVIOUS
    <3>3. f.op \notin WholeList => f.uid # 0
      BY <1>0, <2>1 DEF CallsRight
    <3> QED BY <3>1, <3>2, <3>3 DEF RowHeld, Current
  <2>2. CASE f \notin flights
    BY <2>2 DEF RowHeld
  <2> QED BY <2>1, <2>2
<1>4. OneCall'
  <2>1. \A f \in flights' : f.gen = 0 /\ f.uid \in Entry \ doubted => f.uid \notin DOMAIN shelf
    BY <1>0 DEF OneCall
  <2>2. \A u \in Entry \ doubted : widget = "grocery" \/ u \in DOMAIN row \cup DOMAIN shelf =>
          \A f, k \in flights' : About(f, u) /\ About(k, u) => f = k
    BY <1>0, <1>a DEF OneCall
  <2> QED BY <2>1, <2>2 DEF OneCall, About
<1>5. AllAgree'
  <2> SUFFICES ASSUME NEW u \in Entry \ doubted PROVE Agrees(u)'
    BY DEF AllAgree
  <2>1. Agrees(u)
    BY <1>0 DEF AllAgree
  <2> QED BY <2>1, <1>a, <1>b, AgreesStill
<1>6. RowsLocked'
  <2> SUFFICES ASSUME NEW u \in DOMAIN row, row[u].busy PROVE \E f \in flights' : f.uid = u /\ Current(f)
    BY DEF RowsLocked, Current
  <2>1. PICK f \in flights : f.uid = u /\ Current(f)
    BY <1>0 DEF RowsLocked
  <2>2. u \in Entry
    BY <1>0 DEF ListsTyped
  <2> QED BY <2>1, <2>2, <1>b DEF About
<1> QED BY <1>1, <1>2, <1>3, <1>4, <1>5, <1>6 DEF ListsInv

\* A call of the model's, whose result the host pushes.
LEMMA PushStep == ListsInv /\ Push => ListsInv'
<1> SUFFICES ASSUME ListsInv, Push PROVE ListsInv'
  OBVIOUS
<1>1. ListsTyped /\ reads \in Nat /\ shelf \in Shelves
  BY DEF ListsInv, ListsTyped
<1> DEFINE f == Flight("reread", 0, reads)
<1>2. f \in RowFlight /\ f.op = "reread" /\ f.uid = 0 /\ f.new = 0 /\ f.gen = reads
  <2>1. "reread" \in RowOps /\ 0 \in Entry \cup {0}
    BY DEF RowOps
  <2> HIDE DEF f
  <2>2. f = Flight("reread", 0, reads)
    BY DEF f
  <2> QED BY <1>1, <2>1, <2>2, FlightIs DEF Flight
<1> HIDE DEF f
<1>3. PICK h : h = [f EXCEPT !.at = "ok", !.snap = shelf]
  OBVIOUS
<1>4. h \in RowFlight /\ h.op = "reread" /\ h.uid = 0 /\ h.new = 0 /\ h.gen = reads
  BY ONLY <1>1, <1>2, <1>3 DEF RowFlight
<1>5. flights' = flights \cup {h} /\ UNCHANGED <<widget, shelf, row, named, undo, swiped, reads, doubted>> /\ Uses("reads")
  BY <1>3 DEF Push, f
<1>6. left' \in [taps : Nat, reads : Nat, upsets : Nat]
  BY <1>1, <1>5, UsesIs
<1>7. Rereads => Rereads'
  BY <1>5 DEF Rereads
<1> QED BY <1>4, <1>5, <1>6, <1>7, WholeListStep DEF WholeList

\* A clear or a move is asked for.
LEMMA ConfirmClearStep == ListsInv /\ ConfirmClear => ListsInv'
<1> SUFFICES ASSUME ListsInv, ConfirmClear PROVE ListsInv'
  OBVIOUS
<1>1. ListsTyped /\ reads \in Nat /\ DOMAIN row \subseteq Entry
  BY DEF ListsInv, ListsTyped
<1>2. UNCHANGED <<widget, shelf, row, named, undo, swiped, reads, doubted>> /\ Uses("taps")
  BY DEF ConfirmClear
<1>3. left' \in [taps : Nat, reads : Nat, upsets : Nat]
  BY <1>1, <1>2, UsesIs
<1>4. PICK h : /\ flights' = flights \cup {h} /\ h \in RowFlight
               /\ h.op \in {"clear", "move"} /\ h.uid = 0 /\ h.new = 0 /\ h.gen = reads /\ (h.op = "move" => widget = "grocery")
  <2>0. "clear" \in RowOps /\ "move" \in RowOps /\ 0 \in Entry \cup {0}
    BY DEF RowOps
  <2>1. CASE flights' = flights \cup {Flight("clear", 0, reads)}
    <3>1. PICK h : h = Flight("clear", 0, reads)
      OBVIOUS
    <3>2. h \in RowFlight /\ h.op = "clear" /\ h.uid = 0 /\ h.new = 0 /\ h.gen = reads
      BY <1>1, <2>0, <3>1, FlightIs DEF Flight
    <3> QED BY <2>1, <3>1, <3>2
  <2>2. CASE widget = "grocery" /\ flights' = flights \cup {[Flight("move", 0, reads) EXCEPT !.snap = [u \in Done |-> TRUE]]}
    <3>1. PICK f : f = Flight("move", 0, reads)
      OBVIOUS
    <3>2. f \in RowFlight /\ f.op = "move" /\ f.uid = 0 /\ f.new = 0 /\ f.gen = reads
      BY <1>1, <2>0, <3>1, FlightIs DEF Flight
    <3>3. PICK s : s = [u \in Done |-> TRUE]
      OBVIOUS
    <3>4. s \in Shelves
      <4>1. Done \subseteq Entry
        BY <1>1 DEF Done
      <4> QED BY <4>1, <3>3, ShelfIs
    <3>5. PICK h : h = [f EXCEPT !.snap = s]
      OBVIOUS
    <3>6. h \in RowFlight /\ h.op = "move" /\ h.uid = 0 /\ h.new = 0 /\ h.gen = reads
      BY ONLY <3>2, <3>4, <3>5 DEF RowFlight
    <3> QED BY <2>2, <3>1, <3>3, <3>5, <3>6
  <2> QED BY <2>1, <2>2 DEF ConfirmClear
<1>5. Rereads => Rereads'
  BY <1>4 DEF Rereads
<1> QED BY <1>2, <1>3, <1>4, <1>5, WholeListStep DEF WholeList

\* The answer to a clear or a move: the list is read again, unless it failed.
LEMMA ClearedStep == ASSUME ListsInv, NEW f \in flights, Cleared(f) PROVE ListsInv'
<1>1. ListsTyped /\ reads \in Nat /\ left' \in [taps : Nat, reads : Nat, upsets : Nat]
  BY DEF ListsInv, ListsTyped, Cleared
<1>2. UNCHANGED <<widget, shelf, row, named, undo, swiped, reads, doubted>> /\ f.op \in {"clear", "move"}
  BY DEF Cleared, Reread
<1>3. CASE f.at = "ok"
  <2>1. PICK h : h = Flight("reread", 0, reads)
    OBVIOUS
  <2>2. "reread" \in RowOps /\ 0 \in Entry \cup {0}
    BY DEF RowOps
  <2>3. h \in RowFlight /\ h.op = "reread" /\ h.uid = 0 /\ h.new = 0 /\ h.gen = reads
    BY <1>1, <2>1, <2>2, FlightIs DEF Flight
  <2>4. flights' = (flights \ {f}) \cup {h}
    BY <1>3, <2>1 DEF Cleared, Reread
  <2>5. Rereads'
    BY <2>3, <2>4 DEF Rereads
  <2> QED BY <1>1, <1>2, <2>3, <2>4, <2>5, WholeListStep DEF WholeList
<1>4. CASE f.at = "failed"
  <2>1. flights' = flights \ {f}
    BY <1>4 DEF Cleared
  <2>2. Rereads => Rereads'
    BY <1>2, <1>4, <2>1 DEF Rereads
  <2> QED BY <1>1, <1>2, <2>1, <2>2, WholeListStep DEF WholeList
<1> QED BY <1>3, <1>4 DEF Cleared

\* Another device writes: its row is in doubt.
LEMMA ElsewhereStep == ListsInv /\ Elsewhere => ListsInv'
<1> SUFFICES ASSUME ListsInv, Elsewhere PROVE ListsInv'
  OBVIOUS
<1>0. ListsTyped /\ CallsRight /\ RowsHeld /\ OneCall /\ AllAgree /\ RowsLocked
  BY ListsFacts
<1>1. PICK u \in DOMAIN shelf : shelf' \in {Minus(shelf, {u}), [shelf EXCEPT ![u] = ~@]} /\ doubted' = doubted \cup {u}
  BY DEF Elsewhere
<1>2. UNCHANGED <<widget, row, flights, named, undo, swiped, reads>> /\ left' \in [taps : Nat, reads : Nat, upsets : Nat]
  BY <1>0, UsesIs DEF Elsewhere
<1>3. DOMAIN shelf \subseteq Entry /\ shelf \in [DOMAIN shelf -> BOOLEAN]
  BY <1>0, ShelfIs DEF ListsTyped
<1>4. /\ shelf' \in Shelves /\ DOMAIN shelf' \subseteq DOMAIN shelf
      /\ \A v \in Entry \ {u} : (v \in DOMAIN shelf' <=> v \in DOMAIN shelf) /\ (v \in DOMAIN shelf => shelf'[v] = shelf[v])
  <2>1. CASE shelf' = Minus(shelf, {u})
    BY <1>0, <2>1, MinusIs, MinusShelf DEF ListsTyped
  <2>2. CASE shelf' = [shelf EXCEPT ![u] = ~@]
    <3>1. shelf' \in [DOMAIN shelf -> BOOLEAN]
      BY <1>3, <2>2
    <3>2. shelf' \in Shelves
      BY <1>3, <3>1 DEF Shelves
    <3> QED BY <1>3, <2>2, <3>1, <3>2
  <2> QED BY <1>1, <2>1, <2>2
<1>5. ListsTyped'
  BY <1>0, <1>1, <1>2, <1>3, <1>4 DEF ListsTyped
<1>6. CallsRight' /\ RowsLocked'
  BY <1>0, <1>2 DEF CallsRight, RowsLocked, Current
<1>7. RowsHeld'
  BY <1>0, <1>1, <1>2, <1>3 DEF RowsHeld, RowHeld, Current, ListsTyped
<1>8. OneCall'
  BY <1>0, <1>1, <1>2, <1>4 DEF OneCall, About
<1>9. AllAgree'
  <2> SUFFICES ASSUME NEW v \in Entry \ doubted' PROVE Agrees(v)'
    BY DEF AllAgree
  <2>1. v \in Entry \ doubted /\ v # u
    BY <1>1
  <2>2. Agrees(v) /\ (Rereads => Rereads')
    BY <1>0, <1>2, <2>1 DEF AllAgree, Rereads
  <2> QED BY <1>2, <1>4, <2>1, <2>2, AgreesStill
<1> QED BY <1>5, <1>6, <1>7, <1>8, <1>9 DEF ListsInv

\* A call on a row that no call has: the row is locked, and shows what the call is to bring about.
LEMMA CallStep ==
  ASSUME ListsInv, NEW u \in DOMAIN row, ~row[u].busy, NEW op, NEW d \in BOOLEAN,
         \/ op = "out" /\ widget = "pantry" /\ d = TRUE /\ ~row[u].done
         \/ op = "restock" /\ widget = "pantry" /\ d = FALSE /\ (u \notin doubted' => row[u].done)
         \/ op = "mark" /\ widget = "grocery" /\ d = TRUE /\ ~row[u].done
         \/ op = "readd" /\ widget = "grocery" /\ d = TRUE /\ row[u].done,
         row' = [row EXCEPT ![u].busy = TRUE, ![u].done = d],
         flights' = flights \cup {Flight(op, u, row[u].gen)},
         doubted \subseteq doubted', doubted' \subseteq Entry, u \in Flying => u \in doubted',
         UNCHANGED <<widget, shelf, named, reads>>, left' \in [taps : Nat, reads : Nat, upsets : Nat],
         undo' \in Entry \cup {0}, widget = "grocery" => undo' = 0, swiped' \in Entry \cup {0}
  PROVE  ListsInv'
<1>0. /\ ListsTyped /\ CallsRight /\ RowsHeld /\ OneCall /\ AllAgree /\ RowsLocked
      /\ 0 \notin Entry /\ reads \in Nat \ {0}
  BY ListsFacts
<1>a. /\ DOMAIN row \subseteq Entry /\ row \in [DOMAIN row -> RowShown] /\ u \in Entry /\ u # 0
  BY <1>0 DEF ListsTyped
<1>b. /\ DOMAIN row' = DOMAIN row /\ row' \in [DOMAIN row -> RowShown]
      /\ row'[u].busy /\ row'[u].done = d /\ row'[u].gen = row[u].gen
      /\ \A v \in DOMAIN row \ {u} : row'[v] = row[v]
  <2>1. PICK x \in RowShown : x = row[u]
    BY <1>a
  <2>2. PICK y : y = [x EXCEPT !.busy = TRUE, !.done = d]
    OBVIOUS
  <2>3. y \in RowShown /\ y.busy /\ y.done = d /\ y.gen = x.gen
    BY ONLY x \in RowShown, d \in BOOLEAN, <2>2 DEF RowShown
  <2>4. row' = [row EXCEPT ![u] = y]
    BY <2>1, <2>2
  <2> QED BY <1>a, <2>1, <2>3, <2>4
<1>c. row[u].gen = reads
  BY <1>0 DEF CallsRight
<1>d. PICK h : h = Flight(op, u, reads)
  OBVIOUS
<1>e. op \in {"out", "restock", "mark", "readd"} /\ op \in RowOps
  BY DEF RowOps
<1>f. h \in RowFlight /\ h.op = op /\ h.uid = u /\ h.gen = reads /\ h.at = "sent" /\ h.new = 0
  <2>1. h = [op |-> op, uid |-> u, gen |-> reads, at |-> "sent", new |-> 0, snap |-> None, overtaken |-> FALSE]
    BY <1>d DEF Flight
  <2>2. None \in Shelves
    BY ShelfIs DEF None
  <2> QED BY ONLY <1>0, <1>a, <1>e, <2>1, <2>2 DEF RowFlight
<1>g. flights' = flights \cup {h} /\ op \notin WholeList /\ op # "remove"
  BY <1>c, <1>d, <1>e DEF WholeList
<1>h. \A v \in Entry : About(h, v) <=> v = u
  BY <1>0, <1>f DEF About
<1>i. u \notin doubted' => \A f \in flights : ~About(f, u)
  BY DEF Flying, About
<1>j. Rereads => Rereads'
  BY <1>g DEF Rereads
<1>1. ListsTyped'
  BY <1>0, <1>a, <1>b, <1>f, <1>g DEF ListsTyped
<1>2. CallsRight'
  <2>1. \A v \in DOMAIN row' : row'[v].gen = reads
    BY <1>0, <1>b DEF CallsRight
  <2>2. /\ h.uid # 0 /\ h.new = 0 /\ h.gen = reads /\ h.op \notin WholeList
        /\ h.op \in {"out", "restock"} => widget = "pantry"
        /\ h.op \in {"mark", "readd", "remove", "move"} => widget = "grocery"
    BY <1>a, <1>f, <1>g
  <2> QED BY <1>0, <1>g, <2>1, <2>2 DEF CallsRight
<1>3. RowsHeld'
  <2> SUFFICES ASSUME doubted' # Entry, NEW f \in flights', Current(f)
               PROVE  RowHeld(f)'
    BY DEF RowsHeld, Current
  <2>0. \A k \in flights : Current(k) => RowHeld(k)
    BY <1>0 DEF RowsHeld, ListsTyped
  <2>1. \A k \in flights : k.uid = u => k.op \notin WholeList
    BY <1>0, <1>a DEF CallsRight
  <2>2. widget = "grocery" => \A k \in flights : Current(k) => k.uid # u
    BY <2>0, <2>1 DEF RowHeld
  <2>3. \A k : Current(k)' <=> Current(k)
    BY DEF Current
  <2>4. CASE f \in flights
    <3>1. RowHeld(f)
      BY <2>0, <2>4
    <3>2. f.op \notin WholeList => f.uid \in DOMAIN row' /\ (widget = "grocery" => row'[f.uid].busy)
      BY <1>b, <3>1 DEF RowHeld
    <3>3. f.op \notin WholeList /\ widget = "grocery" => \A k \in flights' : Current(k) /\ k.uid = f.uid => k = f
      BY <1>f, <1>g, <2>2, <2>4, <3>1 DEF RowHeld
    <3>4. f.new # 0 => f.new \notin DOMAIN row' /\ \A k \in flights' : Current(k) /\ k.new = f.new => k = f
      BY <1>b, <1>f, <1>g, <3>1 DEF RowHeld
    <3> QED BY <2>3, <3>2, <3>3, <3>4 DEF RowHeld
  <2>5. CASE f = h
    BY <1>b, <1>f, <1>g, <2>2, <2>3, <2>5 DEF RowHeld
  <2> QED BY <1>g, <2>4, <2>5
<1>4. OneCall'
  <2>1. \A f \in flights' : f.gen = 0 /\ f.uid \in Entry \ doubted' => f.uid \notin DOMAIN shelf
    BY <1>0, <1>f, <1>g DEF OneCall
  <2>2. ASSUME NEW v \in Entry \ doubted', widget = "grocery" \/ v \in DOMAIN row \cup DOMAIN shelf
        PROVE  \A f, k \in flights' : About(f, v) /\ About(k, v) => f = k
    <3>1. CASE v = u
      BY <1>g, <1>i, <3>1
    <3>2. CASE v # u
      BY <1>0, <1>g, <1>h, <2>2, <3>2 DEF OneCall
    <3> QED BY <3>1, <3>2
  <2> QED BY <1>b, <2>1, <2>2 DEF OneCall, About
<1>5. AllAgree'
  <2> SUFFICES ASSUME NEW v \in Entry \ doubted' PROVE Agrees(v)'
    BY DEF AllAgree
  <2>1. Agrees(v)
    BY <1>0 DEF AllAgree
  <2>2. CASE v # u
    <3>1. \A f \in flights' : About(f, v) => f \in flights
      BY <1>g, <1>h, <2>2
    <3> QED BY <1>b, <1>g, <1>j, <2>1, <2>2, <3>1, AgreesStill
  <2>3. CASE v = u
    <3>1. \A f \in flights : f.uid # u /\ f.new # u
      BY <1>i, <2>3 DEF About
    <3>2. u \in DOMAIN shelf => row[u].done = shelf[u]
      BY <2>1, <2>3, <3>1 DEF Agrees
    <3>3. u \notin DOMAIN shelf => Rereads
      BY <2>1, <2>3, <3>1 DEF Agrees
    <3>4. u \notin doubted' /\ UNCHANGED shelf /\ row'[u].done = d /\ u \in DOMAIN row'
      BY <1>b, <2>3
    <3>5. row[u].done \in BOOLEAN
      BY <1>a DEF RowShown
    <3>6. op \in Flips => d = Target(h) /\ (u \in DOMAIN shelf => shelf[u] = ~d)
      BY <1>f, <3>2, <3>4, <3>5 DEF Flips, Target
    <3>7. op = "readd" => d = TRUE /\ (u \in DOMAIN shelf => shelf[u])
      BY <3>2, <3>4, <3>5
    <3>8. Awaits(h)'
      BY <1>f, <1>g, <3>4, <3>6, <3>7 DEF Awaits, Target
    <3>9. h.op = "out" /\ u \in DOMAIN shelf => ~shelf[u]
      BY <1>f, <3>2, <3>5
    <3>10. \A f \in flights' : (f.uid = u => f = h) /\ f.new # u
      BY <1>a, <1>f, <1>g, <3>1
    <3>11. h \in flights' /\ Current(h)' /\ h.uid = u
      BY <1>f, <1>g DEF Current
    <3> QED BY <1>j, <2>3, <3>3, <3>4, <3>8, <3>9, <3>10, <3>11 DEF Agrees
  <2> QED BY <2>2, <2>3
<1>6. RowsLocked'
  <2> SUFFICES ASSUME NEW v \in DOMAIN row', row'[v].busy PROVE \E f \in flights' : f.uid = v /\ Current(f)
    BY DEF RowsLocked, Current
  <2>1. CASE v = u
    BY <1>f, <1>g, <2>1 DEF Current
  <2>2. CASE v # u
    BY <1>0, <1>b, <1>g, <2>2 DEF RowsLocked
  <2> QED BY <2>1, <2>2
<1> QED BY <1>1, <1>2, <1>3, <1>4, <1>5, <1>6 DEF ListsInv

\* A call of the user's, and what it may be in doubt of.
LEMMA CallsStep ==
  ASSUME ListsInv, NEW u \in DOMAIN row, NEW op, NEW d \in BOOLEAN, Calls(op, u, d),
         \/ op = "out" /\ widget = "pantry" /\ d = TRUE /\ ~row[u].done
         \/ op = "restock" /\ widget = "pantry" /\ d = FALSE /\ row[u].done
         \/ op = "mark" /\ widget = "grocery" /\ d = TRUE /\ ~row[u].done
         \/ op = "readd" /\ widget = "grocery" /\ d = TRUE /\ row[u].done,
         undo' \in Entry \cup {0}, widget = "grocery" => undo' = 0, swiped' \in Entry \cup {0}
  PROVE  ListsInv'
<1>0. ListsTyped /\ u \in Entry
  BY DEF ListsInv, ListsTyped
<1>1. /\ ~row[u].busy /\ Uses("taps")
      /\ row' = [row EXCEPT ![u].busy = TRUE, ![u].done = d]
      /\ flights' = flights \cup {Flight(op, u, row[u].gen)}
      /\ UNCHANGED <<widget, shelf, named, reads>>
  BY DEF Calls
<1>2. left' \in [taps : Nat, reads : Nat, upsets : Nat]
  BY <1>0, <1>1, UsesIs
<1>3. doubted \subseteq doubted' /\ doubted' \subseteq Entry /\ (u \in Flying => u \in doubted')
  <2>1. doubted \subseteq Entry /\ \A f \in flights : f.new \in Entry \cup {0}
    BY <1>0, ListsFacts DEF ListsTyped
  <2>2. CASE u \in Flying
    <3>1. doubted' = doubted \cup {u} \cup ({f.new : f \in {q \in flights : q.uid = u}} \ {0})
      BY <2>2 DEF Calls
    <3>2. {f.new : f \in {q \in flights : q.uid = u}} \ {0} \subseteq Entry
      BY <2>1
    <3> QED BY <1>0, <2>1, <3>1, <3>2
  <2>3. CASE u \notin Flying
    <3>1. doubted' = doubted
      BY <2>3 DEF Calls
    <3> QED BY <2>1, <2>3, <3>1
  <2> QED BY <2>2, <2>3
<1> QED BY <1>1, <1>2, <1>3, CallStep

\* A tap.
LEMMA OnOutStep ==
  ASSUME ListsInv, NEW u \in DOMAIN row, OnOut(u) \/ DoMark(u) \/ DoReadd(u), undo' = undo, swiped' \in Entry \cup {0}
  PROVE  ListsInv'
<1>1. undo' \in Entry \cup {0} /\ (widget = "grocery" => undo' = 0)
  BY DEF ListsInv, ListsTyped
<1>2. CASE OnOut(u)
  <2>1. Calls("out", u, TRUE) /\ widget = "pantry" /\ ~row[u].done
    BY <1>2 DEF OnOut, Done
  <2> QED BY <1>1, <2>1, CallsStep
<1>3. CASE DoMark(u)
  <2>1. Calls("mark", u, TRUE) /\ widget = "grocery" /\ ~row[u].done
    BY <1>3 DEF DoMark, Done
  <2> QED BY <1>1, <2>1, CallsStep
<1>4. CASE DoReadd(u)
  <2>1. Calls("readd", u, TRUE) /\ widget = "grocery" /\ row[u].done
    BY <1>4 DEF DoReadd, Done
  <2> QED BY <1>1, <2>1, CallsStep
<1> QED BY <1>2, <1>3, <1>4

\* A row is tapped.
LEMMA TapStep == ASSUME ListsInv, NEW u \in DOMAIN row, Tap(u) PROVE ListsInv'
<1>1. swiped' \in Entry \cup {0}
  BY DEF Tap, ListsInv, ListsTyped
<1>2. CASE (OnOut(u) \/ DoMark(u) \/ DoReadd(u)) /\ UNCHANGED undo
  BY <1>1, <1>2, OnOutStep
<1>3. CASE OnRestock(u) /\ undo' = 0
  <2>1. Calls("restock", u, FALSE) /\ widget = "pantry" /\ row[u].done
    BY <1>3 DEF OnRestock, Done
  <2>2. undo' \in Entry \cup {0} /\ (widget = "grocery" => undo' = 0)
    BY <1>3
  <2> QED BY <1>1, <2>1, <2>2, CallsStep
<1> QED BY <1>2, <1>3 DEF Tap

\* A swipe, and its commit a moment later.
LEMMA SwipeStep == ASSUME ListsInv, NEW u \in DOMAIN row, Swipe(u) PROVE ListsInv'
<1>1. UNCHANGED <<widget, shelf, row, flights, named, undo, reads, left, doubted>> /\ swiped' = u
  BY DEF Swipe
<1>2. /\ u \in Entry /\ undo' \in Entry \cup {0} /\ (widget = "grocery" => undo' = 0)
      /\ left' \in [taps : Nat, reads : Nat, upsets : Nat]
  BY <1>1 DEF ListsInv, ListsTyped
<1> QED BY <1>1, <1>2, AsideStep

\* Its slide is over, and the row acts.
LEMMA SwipeEndsStep == ListsInv /\ SwipeEnds => ListsInv'
<1> SUFFICES ASSUME ListsInv, SwipeEnds PROVE ListsInv'
  OBVIOUS
<1>1. swiped' = 0 /\ undo' = undo
  BY DEF SwipeEnds
<1>2. CASE UNCHANGED <<widget, shelf, row, flights, named, undo, reads, left, doubted>>
  <2>1. /\ undo' \in Entry \cup {0} /\ (widget = "grocery" => undo' = 0)
        /\ left' \in [taps : Nat, reads : Nat, upsets : Nat]
    BY <1>2 DEF ListsInv, ListsTyped
  <2> QED BY <1>1, <1>2, <2>1, AsideStep
<1>3. CASE swiped \in DOMAIN row /\ (OnOut(swiped) \/ DoMark(swiped) \/ DoReadd(swiped))
  BY <1>1, <1>3, OnOutStep
<1> QED BY <1>1, <1>2, <1>3 DEF SwipeEnds

\* Undo: the row is restocked whatever it shows, and one that is gone from the screen is gone from the pantry.
LEMMA UndoStep == ListsInv /\ Undo => ListsInv'
<1> SUFFICES ASSUME ListsInv, Undo PROVE ListsInv'
  OBVIOUS
<1>0. /\ ListsTyped /\ CallsRight /\ RowsHeld /\ OneCall /\ AllAgree /\ RowsLocked
      /\ 0 \notin Entry /\ reads \in Nat \ {0}
  BY ListsFacts
<1>1. /\ undo \in Entry /\ widget = "pantry" /\ undo' = 0 /\ swiped' = swiped /\ swiped' \in Entry \cup {0}
      /\ undo' \in Entry \cup {0} /\ (widget = "grocery" => undo' = 0)
  BY <1>0 DEF Undo, ListsTyped
<1>2. CASE undo \in DOMAIN row /\ row[undo].busy
  <2>1. UNCHANGED <<widget, shelf, row, flights, named, reads, left, doubted>>
    BY <1>2 DEF Undo
  <2>2. left' \in [taps : Nat, reads : Nat, upsets : Nat]
    BY <1>0, <2>1 DEF ListsTyped
  <2> QED BY <1>1, <2>1, <2>2, AsideStep
<1>3. CASE undo \in DOMAIN row /\ ~row[undo].busy
  <2>1. /\ Uses("taps") /\ row' = [row EXCEPT ![undo].busy = TRUE, ![undo].done = FALSE]
        /\ flights' = flights \cup {Flight("restock", undo, row[undo].gen)}
        /\ doubted' = IF undo \in Flying \cup (DOMAIN row \ Done) THEN doubted \cup {undo} ELSE doubted
        /\ UNCHANGED <<widget, shelf, named, reads>>
    BY <1>3 DEF Undo
  <2>2. doubted \subseteq doubted' /\ doubted' \subseteq Entry /\ (undo \in Flying => undo \in doubted')
    BY <1>0, <1>1, <2>1 DEF ListsTyped
  <2>3. undo \notin doubted' => row[undo].done
    BY <1>3, <2>1 DEF Done
  <2>4. left' \in [taps : Nat, reads : Nat, upsets : Nat]
    BY <1>0, <2>1, UsesIs
  <2> QED BY <1>1, <1>3, <2>1, <2>2, <2>3, <2>4, CallStep
<1>4. CASE undo \notin DOMAIN row
  <2>1. /\ Uses("taps") /\ flights' = flights \cup {Flight("restock", undo, 0)}
        /\ UNCHANGED <<widget, shelf, row, named, reads, doubted>>
    BY <1>4 DEF Undo
  <2>2. left' \in [taps : Nat, reads : Nat, upsets : Nat]
    BY <1>0, <2>1, UsesIs
  <2>3. PICK h : h = Flight("restock", undo, 0)
    OBVIOUS
  <2>4. h \in RowFlight /\ h.op = "restock" /\ h.uid = undo /\ h.gen = 0 /\ h.new = 0
    <3>1. "restock" \in RowOps
      BY DEF RowOps
    <3> QED BY <1>1, <2>3, <3>1, FlightIs DEF Flight
  <2>5. flights' = flights \cup {h} /\ h.op \notin WholeList
    BY <2>1, <2>3, <2>4 DEF WholeList
  <2>6. ~Current(h) /\ ~Current(h)'
    BY <1>0, <2>1, <2>4 DEF Current
  <2>7. undo \in Entry \ doubted => undo \notin DOMAIN shelf
    <3> SUFFICES ASSUME undo \in Entry \ doubted, undo \in DOMAIN shelf PROVE FALSE
      OBVIOUS
    <3>1. PICK f \in flights : f.new = undo
      BY <1>0, <1>4 DEF AllAgree, Agrees
    <3> QED BY <1>0, <1>1, <3>1 DEF CallsRight
  <2>8. ListsTyped'
    BY <1>0, <1>1, <2>1, <2>2, <2>4, <2>5 DEF ListsTyped
  <2>9. CallsRight'
    <3>1. h.uid # 0 /\ h.new = 0 /\ h.gen = 0 /\ h.op = "restock" /\ h.op \notin WholeList /\ 0 <= reads
      BY <1>0, <1>1, <2>4, <2>5
    <3> QED BY <1>0, <1>1, <2>1, <2>5, <3>1 DEF CallsRight
  <2>10. RowsHeld'
    BY <1>0, <2>1, <2>5, <2>6 DEF RowsHeld, RowHeld, Current
  <2>11. OneCall'
    <3>1. \A f \in flights' : f.gen = 0 /\ f.uid \in Entry \ doubted => f.uid \notin DOMAIN shelf
      BY <1>0, <2>4, <2>5, <2>7 DEF OneCall
    <3>2. ASSUME NEW v \in Entry \ doubted, v \in DOMAIN row \cup DOMAIN shelf
          PROVE  \A f, k \in flights' : About(f, v) /\ About(k, v) => f = k
      <4>1. ~About(h, v)
        BY <1>0, <1>4, <2>4, <2>7, <3>2 DEF About
      <4> QED BY <1>0, <2>5, <3>2, <4>1 DEF OneCall
    <3> QED BY <1>1, <2>1, <3>1, <3>2 DEF OneCall, About
  <2>12. AllAgree'
    <3> SUFFICES ASSUME NEW v \in Entry \ doubted PROVE Agrees(v)'
      BY <2>1 DEF AllAgree
    <3>1. Agrees(v) /\ (Rereads => Rereads')
      BY <1>0, <2>5 DEF AllAgree, Rereads
    <3>2. \A f \in flights' : About(f, v) => f \in flights \/ (~Current(f) /\ f.op # "out")
      BY <2>4, <2>5, <2>6
    <3> QED BY <2>1, <2>5, <3>1, <3>2, AgreesStill
  <2>13. RowsLocked'
    BY <1>0, <2>1, <2>5 DEF RowsLocked, Current
  <2> QED BY <2>8, <2>9, <2>10, <2>11, <2>12, <2>13 DEF ListsInv
<1> QED BY <1>2, <1>3, <1>4

\* What a call does to the list on the server.
LEMMA AfterIs ==
  ASSUME shelf \in Shelves, NEW f \in RowFlight, Possible(f), NEW n, f.op = "readd" => n \in Entry \ DOMAIN shelf, shelf' = After(f, n)
  PROVE  /\ shelf' \in Shelves
         /\ f.op \in Flips => DOMAIN shelf' = DOMAIN shelf /\ f.uid \in DOMAIN shelf /\ shelf'[f.uid] = Target(f)
                              /\ \A u \in DOMAIN shelf \ {f.uid} : shelf'[u] = shelf[u]
         /\ f.op = "readd" => DOMAIN shelf' = DOMAIN shelf \cup {n} /\ shelf'[n] = FALSE /\ \A u \in DOMAIN shelf : shelf'[u] = shelf[u]
         /\ f.op = "remove" => DOMAIN shelf' = DOMAIN shelf \ {f.uid} /\ f.uid \in DOMAIN shelf /\ \A u \in DOMAIN shelf' : shelf'[u] = shelf[u]
         /\ f.op \in WholeList => DOMAIN shelf' \subseteq DOMAIN shelf /\ \A u \in DOMAIN shelf' : shelf'[u] = shelf[u]
         /\ f.op = "reread" => shelf' = shelf
<1>1. DOMAIN shelf \subseteq Entry /\ shelf \in [DOMAIN shelf -> BOOLEAN]
  BY ShelfIs
<1>2. CASE f.op \in Flips
  <2>1. PICK b \in BOOLEAN : b <=> Target(f)
    OBVIOUS
  <2>2. shelf' = [shelf EXCEPT ![f.uid] = b] /\ f.uid \in DOMAIN shelf
    <3>1. CASE b = TRUE
      BY <1>2, <2>1, <3>1 DEF After, Possible, Target, Flips
    <3>2. CASE b = FALSE
      BY <1>2, <2>1, <3>2 DEF After, Possible, Target, Flips
    <3> QED BY <3>1, <3>2
  <2>3. shelf' \in [DOMAIN shelf -> BOOLEAN] /\ DOMAIN shelf' = DOMAIN shelf /\ shelf'[f.uid] = b /\ \A u \in DOMAIN shelf \ {f.uid} : shelf'[u] = shelf[u]
    BY <1>1, <2>1, <2>2
  <2>4. shelf' \in Shelves
    BY <1>1, <2>3 DEF Shelves
  <2>5. b = Target(f)
    BY <2>1 DEF Target
  <2> QED BY <1>2, <2>2, <2>3, <2>4, <2>5 DEF Flips, WholeList
<1>3. CASE f.op = "readd"
  <2>1. shelf' = With([u \in {n} |-> FALSE], shelf)
    BY <1>3 DEF After
  <2>2. /\ DOMAIN shelf' = DOMAIN shelf \cup {n} /\ shelf'[n] = FALSE /\ \A u \in DOMAIN shelf : shelf'[u] = shelf[u]
        /\ shelf' \in [DOMAIN shelf \cup {n} -> BOOLEAN]
    BY <1>1, <1>3, <2>1 DEF With
  <2>3. shelf' \in Shelves
    BY <1>1, <1>3, <2>2 DEF Shelves
  <2> QED BY <1>3, <2>2, <2>3 DEF Flips, WholeList
<1>4. CASE f.op = "remove"
  <2>1. shelf' = Minus(shelf, {f.uid}) /\ f.uid \in DOMAIN shelf
    BY <1>4 DEF After, Possible
  <2>2. DOMAIN shelf' = DOMAIN shelf \ {f.uid} /\ \A u \in DOMAIN shelf' : shelf'[u] = shelf[u]
    BY <2>1 DEF Minus
  <2>3. shelf' \in Shelves
    BY <2>1, MinusShelf
  <2> QED BY <1>4, <2>1, <2>2, <2>3 DEF Flips, WholeList
<1>5. CASE f.op = "clear" \/ f.op = "move"
  <2>1. PICK U : shelf' = Minus(shelf, U)
    BY <1>5 DEF After
  <2>2. DOMAIN shelf' \subseteq DOMAIN shelf /\ \A u \in DOMAIN shelf' : shelf'[u] = shelf[u]
    BY <2>1 DEF Minus
  <2>3. shelf' \in Shelves
    BY <2>1, MinusShelf
  <2> QED BY <1>5, <2>2, <2>3 DEF Flips, WholeList
<1>6. CASE f.op = "reread"
  <2>1. shelf' = shelf
    BY <1>6 DEF After
  <2> QED BY <1>6, <2>1 DEF Flips, WholeList
<1>7. f.op \in RowOps
  BY DEF RowFlight
<1> QED BY <1>2, <1>3, <1>4, <1>5, <1>6, <1>7 DEF RowOps, Flips

\* A call the server has answered is the same call.
LEMMA ReplyKeeps ==
  ASSUME ListsInv, NEW f \in flights, f.at = "sent", NEW h \in RowFlight,
         h.op = f.op, h.uid = f.uid, h.gen = f.gen, h.overtaken = f.overtaken,
         NEW M, M \cap Flying = {}, M # {} => widget = "grocery",
         h.new = f.new \/ (f.op = "readd" /\ h.at = "ok" /\ h.new \in M /\ h.new \notin DOMAIN row),
         flights' = (flights \ {f}) \cup {h}, UNCHANGED <<widget, row, undo, swiped, reads>>,
         shelf' \in Shelves, DOMAIN shelf' \subseteq DOMAIN shelf \cup M,
         named' \in [Entry -> Entry], left' \in [taps : Nat, reads : Nat, upsets : Nat],
         doubted \subseteq doubted', doubted' \subseteq Entry
  PROVE  ListsTyped' /\ CallsRight' /\ RowsHeld' /\ OneCall' /\ RowsLocked' /\ (Rereads => Rereads')
<1>0. /\ ListsTyped /\ CallsRight /\ RowsHeld /\ OneCall /\ AllAgree /\ RowsLocked
      /\ 0 \notin Entry /\ reads \in Nat \ {0}
  BY ListsFacts
<1>a. \A k \in flights : k.uid \notin M /\ k.new \notin M
  BY DEF Flying
<1>b. \A k : Current(k)' <=> Current(k)
  BY DEF Current
<1>c. Current(h) <=> Current(f)
  BY DEF Current
<1>1. ListsTyped'
  BY <1>0 DEF ListsTyped
<1>2. CallsRight'
  <2>1. h.new # 0 => h.op \in {"readd", "remove"} /\ h.new # h.uid
    BY <1>0, <1>a DEF CallsRight
  <2>2. h.op = "readd" /\ h.at # "ok" => h.new = 0
    BY <1>0 DEF CallsRight
  <2> QED BY <1>0, <2>1, <2>2 DEF CallsRight
<1>3. RowsHeld'
  <2> SUFFICES ASSUME doubted' # Entry, NEW k \in flights', Current(k) PROVE RowHeld(k)'
    BY <1>b DEF RowsHeld
  <2>0. \A q \in flights : Current(q) => RowHeld(q)
    BY <1>0 DEF RowsHeld, ListsTyped
  <2>1. PICK q \in flights : Current(q) /\ q.op = k.op /\ q.uid = k.uid /\ ((k = q /\ q # f) \/ (k = h /\ q = f))
    BY <1>c
  <2>2. RowHeld(q)
    BY <2>0, <2>1
  <2>3. k.op \notin WholeList =>
          /\ k.uid \in DOMAIN row
          /\ widget = "grocery" => row[k.uid].busy /\ \A j \in flights' : Current(j) /\ j.uid = k.uid => j = k
    <3>1. ASSUME k.op \notin WholeList, widget = "grocery", NEW j \in flights', Current(j), j.uid = k.uid PROVE j = k
      <4>1. PICK i \in flights : Current(i) /\ i.uid = j.uid /\ ((j = i /\ i # f) \/ (j = h /\ i = f))
        BY <1>c, <3>1
      <4>2. i = q
        BY <2>1, <2>2, <3>1, <4>1 DEF RowHeld
      <4> QED BY <2>1, <4>1, <4>2
    <3> QED BY <2>1, <2>2, <3>1 DEF RowHeld
  <2>4. k.new # 0 => k.new \notin DOMAIN row /\ \A j \in flights' : Current(j) /\ j.new = k.new => j = k
    <3> SUFFICES ASSUME k.new # 0 PROVE k.new \notin DOMAIN row /\ \A j \in flights' : Current(j) /\ j.new = k.new => j = k
      OBVIOUS
    <3>1. CASE k.new \in M
      <4>1. k = h
        BY <1>a, <2>1, <3>1
      <4>2. \A j \in flights' : j.new = k.new => j = h
        BY <1>a, <3>1
      <4>3. k.new \notin DOMAIN row
        BY <1>a, <3>1, <4>1
      <4> QED BY <4>1, <4>2, <4>3
    <3>2. CASE k.new \notin M
      <4>1. k.new = q.new
        BY <2>1, <3>2
      <4>2. ASSUME NEW j \in flights', Current(j), j.new = k.new PROVE j = k
        <5>1. PICK i \in flights : Current(i) /\ i.new = j.new /\ ((j = i /\ i # f) \/ (j = h /\ i = f))
          BY <1>c, <3>2, <4>2
        <5>2. i = q
          BY <2>1, <2>2, <4>1, <4>2, <5>1 DEF RowHeld
        <5> QED BY <2>1, <5>1, <5>2
      <4> QED BY <2>2, <4>1, <4>2 DEF RowHeld
    <3> QED BY <3>1, <3>2
  <2> QED BY <1>b, <2>3, <2>4 DEF RowHeld
<1>4. OneCall'
  <2>1. ASSUME NEW v \in Entry \ doubted', widget = "grocery" \/ v \in DOMAIN row \cup DOMAIN shelf', NEW k \in flights', NEW j \in flights',
               About(k, v), About(j, v)
        PROVE  k = j
    <3>1. CASE v \in M
      BY <1>a, <2>1, <3>1 DEF About
    <3>2. CASE v \notin M
      <4>1. widget = "grocery" \/ v \in DOMAIN row \cup DOMAIN shelf
        BY <2>1, <3>2
      <4>2. PICK q \in flights : About(q, v) /\ ((k = q /\ q # f) \/ (k = h /\ q = f))
        BY <2>1, <3>2 DEF About
      <4>3. PICK i \in flights : About(i, v) /\ ((j = i /\ i # f) \/ (j = h /\ i = f))
        BY <2>1, <3>2 DEF About
      <4>4. q = i
        BY <1>0, <4>1, <4>2, <4>3 DEF OneCall
      <4> QED BY <4>2, <4>3, <4>4
    <3> QED BY <3>1, <3>2
  <2>2. ASSUME NEW k \in flights', k.gen = 0, k.uid \in Entry \ doubted' PROVE k.uid \notin DOMAIN shelf'
    <3>1. PICK q \in flights : q.gen = 0 /\ q.uid = k.uid
      BY <2>2
    <3> QED BY <1>0, <1>a, <2>2, <3>1 DEF OneCall
  <2> QED BY <2>1, <2>2 DEF OneCall, About
<1>5. RowsLocked'
  BY <1>0, <1>b, <1>c DEF RowsLocked
<1>6. Rereads => Rereads'
  BY DEF Rereads
<1> QED BY <1>1, <1>2, <1>3, <1>4, <1>5, <1>6

\* The answer to a call, where the server has not changed what the row is about.
LEMMA AnswerAgrees ==
  ASSUME ListsInv, NEW f \in flights, f.at = "sent", NEW h, h.op = f.op, h.uid = f.uid, h.gen = f.gen, h.at # "sent",
         flights' = (flights \ {f}) \cup {h}, reads' = reads, row' = row, Rereads => Rereads',
         NEW u \in Entry \ doubted, u \in DOMAIN shelf' <=> u \in DOMAIN shelf, u \in DOMAIN shelf => shelf'[u] = shelf[u],
         h.new = u <=> f.new = u, f.uid = u => h.at # "ok" \/ f.op = "readd"
  PROVE  Agrees(u)'
<1>1. Agrees(u)
  BY ListsFacts DEF AllAgree
<1>2. f.uid = u /\ Awaits(f) => Awaits(h)
  BY DEF Awaits, Flips, Target
<1> QED BY <1>1, <1>2, AgreesReplied

\* A call took effect, and the widget is told so.
LEMMA DoneStep ==
  ASSUME ListsInv, NEW f \in flights, f.at = "sent", NEW n,
         n \in IF f.op = "readd" THEN Entry \ (DOMAIN shelf \cup DOMAIN row \cup Flying) ELSE {f.new},
         Possible(f), shelf' = After(f, n), NEW h \in RowFlight,
         h.op = f.op, h.uid = f.uid, h.gen = f.gen, h.overtaken = f.overtaken, h.at = "ok", h.new = n,
         flights' = (flights \ {f}) \cup {h}, UNCHANGED <<widget, row, undo, swiped, reads>>,
         named' \in [Entry -> Entry], left' \in [taps : Nat, reads : Nat, upsets : Nat],
         doubted' = IF f.overtaken \/ f.uid \in doubted THEN doubted \cup Differ(shelf, shelf') ELSE doubted
  PROVE  ListsInv'
<1>0. /\ ListsTyped /\ CallsRight /\ RowsHeld /\ OneCall /\ AllAgree /\ RowsLocked
      /\ 0 \notin Entry /\ reads \in Nat \ {0}
      /\ f \in RowFlight /\ shelf \in Shelves /\ doubted \subseteq Entry
  BY ListsFacts DEF ListsTyped
<1>b. f.op = "readd" => n \in Entry \ DOMAIN shelf /\ n \notin DOMAIN row /\ n \notin Flying
  OBVIOUS
<1>c. /\ shelf' \in Shelves
      /\ f.op \in Flips => DOMAIN shelf' = DOMAIN shelf /\ f.uid \in DOMAIN shelf /\ shelf'[f.uid] = Target(f)
                           /\ \A u \in DOMAIN shelf \ {f.uid} : shelf'[u] = shelf[u]
      /\ f.op = "readd" => DOMAIN shelf' = DOMAIN shelf \cup {n} /\ shelf'[n] = FALSE /\ \A u \in DOMAIN shelf : shelf'[u] = shelf[u]
      /\ f.op = "remove" => DOMAIN shelf' = DOMAIN shelf \ {f.uid} /\ f.uid \in DOMAIN shelf /\ \A u \in DOMAIN shelf' : shelf'[u] = shelf[u]
      /\ f.op \in WholeList => DOMAIN shelf' \subseteq DOMAIN shelf /\ \A u \in DOMAIN shelf' : shelf'[u] = shelf[u]
      /\ f.op = "reread" => shelf' = shelf
  BY <1>0, <1>b, AfterIs
<1>d. f.op \in Flips \cup {"readd", "remove"} \cup WholeList
  BY <1>0 DEF RowFlight, RowOps, Flips, WholeList
<1>e. /\ Flips \cap WholeList = {} /\ "readd" \notin Flips \cup WholeList /\ "remove" \notin Flips \cup WholeList
      /\ "out" \in Flips /\ "restock" \in Flips /\ "reread" \in WholeList
  BY DEF Flips, WholeList
<1>f. PICK M : M = IF f.op = "readd" THEN {n} ELSE {}
  OBVIOUS
<1>g. DOMAIN shelf' \subseteq DOMAIN shelf \cup M
  BY <1>c, <1>d, <1>f
<1>h. M \cap Flying = {} /\ (M # {} => widget = "grocery")
  BY <1>0, <1>b, <1>f DEF CallsRight
<1>i. doubted \subseteq doubted' /\ doubted' \subseteq Entry
  BY <1>0 DEF Differ
<1>j. h.new = f.new \/ (f.op = "readd" /\ h.at = "ok" /\ h.new \in M /\ h.new \notin DOMAIN row)
  BY <1>b, <1>f
<1>1. ListsTyped' /\ CallsRight' /\ RowsHeld' /\ OneCall' /\ RowsLocked' /\ (Rereads => Rereads')
  BY <1>c, <1>g, <1>h, <1>i, <1>j, ReplyKeeps
<1>2. ASSUME NEW u \in Entry \ doubted' PROVE Agrees(u)'
  <2>0. /\ Agrees(u) /\ u \notin doubted /\ u # 0
        /\ f.overtaken \/ f.uid \in doubted => u \notin Differ(shelf, shelf')
    BY <1>0, <1>2, <1>i DEF AllAgree
  <2>1. f.overtaken \/ f.uid \in doubted => (u \in DOMAIN shelf <=> u \in DOMAIN shelf') /\ (u \in DOMAIN shelf => shelf[u] = shelf'[u])
    BY <2>0, DifferIs
  <2>2. CASE f.op \in Flips
    <3>0. f.new = 0 /\ h.new = 0 /\ f.op # "readd" /\ f.op # "remove" /\ f.op \notin WholeList
      BY <1>0, <1>e, <2>2 DEF CallsRight
    <3>1. CASE u # f.uid
      BY <1>1, <1>c, <2>0, <2>2, <3>0, <3>1, AnswerAgrees
    <3>2. CASE u = f.uid /\ Current(f)
      <4>1. Awaits(f)
        BY <2>0, <3>2 DEF Agrees
      <4>2. u \in DOMAIN row /\ row[u].done = Target(f)
        BY <2>2, <3>2, <4>1 DEF Awaits
      <4>3. \A k \in flights : About(k, u) => k = f
        BY <1>0, <1>2, <2>0, <3>2, <4>2 DEF OneCall, About
      <4>4. \A k \in flights' : About(k, u) => k = h
        BY <4>3
      <4>5. h \in flights' /\ h.uid = u /\ h.new # u
        BY <2>0, <3>0, <3>2
      <4>6. u \in DOMAIN row' /\ u \in DOMAIN shelf' /\ row'[u].done = Target(h) /\ shelf'[u] = Target(h)
        BY <1>c, <2>2, <3>2, <4>2 DEF Target
      <4>7. Awaits(h)'
        BY <3>0, <4>5, <4>6 DEF Awaits, Target
      <4>8. \A k \in flights' : (k.uid = u => k = h) /\ k.new # u
        BY <4>4, <4>5 DEF About
      <4> QED BY <4>6, <4>7, <4>8 DEF Agrees
    <3>3. CASE u = f.uid /\ ~Current(f)
      <4>1. f.overtaken
        BY <1>0, <1>c, <2>0, <2>2, <3>3 DEF CallsRight, OneCall, Current
      <4>2. \A k \in flights : About(k, u) /\ Current(k) => k \in flights'
        BY <3>3
      <4>3. \A k \in flights' : About(k, u) => k \in flights \/ (~Current(k) /\ k.at = "ok")
        BY <3>3 DEF Current
      <4> QED BY <1>1, <2>0, <2>1, <4>1, <4>2, <4>3, AgreesStill
    <3> QED BY <3>1, <3>2, <3>3
  <2>3. CASE f.op = "readd"
    <3>1. CASE u # n
      <4>1. f.new # u => h.new # u
        BY <3>1
      <4>2. f.new = u => FALSE
        BY <1>0, <2>0, <2>3 DEF CallsRight
      <4> QED BY <1>1, <1>c, <2>0, <2>3, <3>1, <4>1, <4>2, AnswerAgrees
    <3>2. CASE u = n
      <4>1. \A k \in flights : k.uid # u /\ k.new # u
        BY <1>b, <2>3, <3>2 DEF Flying
      <4>2. ~f.overtaken
        BY <1>b, <1>c, <2>1, <2>3, <3>2
      <4>3. Current(f) /\ Current(h)'
        BY <1>0, <2>3, <4>2 DEF CallsRight, Current
      <4>4. u \notin DOMAIN row' /\ u \in DOMAIN shelf' /\ ~shelf'[u]
        BY <1>b, <1>c, <2>3, <3>2
      <4>5. \A k \in flights' : k.uid # u
        BY <4>1
      <4> QED BY <3>2, <4>3, <4>4, <4>5 DEF Agrees
    <3> QED BY <3>1, <3>2
  <2>4. CASE f.op = "remove"
    <3>0. h.new = f.new
      BY <2>4
    <3>1. CASE u # f.uid
      BY <1>1, <1>c, <2>0, <2>4, <3>0, <3>1, AnswerAgrees
    <3>2. CASE u = f.uid
      <4>1. u \in DOMAIN shelf /\ u \notin DOMAIN shelf'
        BY <1>c, <2>4, <3>2
      <4>2. ~f.overtaken
        BY <2>1, <4>1
      <4>3. Current(f) /\ Current(h)' /\ widget = "grocery" /\ f.new # u
        BY <1>0, <2>0, <2>4, <3>2, <4>2 DEF CallsRight, Current
      <4>4. Awaits(f)
        BY <2>0, <3>2, <4>3 DEF Agrees
      <4>5. u \in DOMAIN row' /\ row'[u].done
        BY <2>4, <3>2, <4>4 DEF Awaits
      <4>6. \A k \in flights : About(k, u) => k = f
        BY <1>0, <1>2, <2>0, <3>2, <4>3 DEF OneCall, About
      <4>7. \A k \in flights' : (k.uid = u => k = h) /\ k.new # u
        BY <3>0, <4>3, <4>6 DEF About
      <4>8. Awaits(h)'
        BY <1>e, <2>4, <3>2, <4>1, <4>5 DEF Awaits
      <4> QED BY <2>4, <3>2, <4>1, <4>3, <4>5, <4>7, <4>8 DEF Agrees
    <3> QED BY <3>1, <3>2
  <2>5. CASE f.op \in WholeList
    <3>0. f.uid = 0 /\ f.new = 0 /\ h.new = 0 /\ f.op # "readd"
      BY <1>0, <1>e, <2>5 DEF CallsRight
    <3>1. CASE u \in DOMAIN shelf => u \in DOMAIN shelf'
      BY <1>1, <1>c, <2>0, <2>5, <3>0, <3>1, AnswerAgrees
    <3>2. CASE u \in DOMAIN shelf /\ u \notin DOMAIN shelf'
      <4>1. Rereads'
        BY <2>5 DEF Rereads
      <4>2. \A k \in flights' : About(k, u) => k \in flights
        BY <2>0, <3>0 DEF About
      <4> QED BY <2>0, <3>2, <4>1, <4>2, AgreesGone
    <3> QED BY <3>1, <3>2
  <2> QED BY <1>d, <2>2, <2>3, <2>4, <2>5
<1> QED BY <1>1, <1>2 DEF ListsInv, AllAgree

\* A call took effect unseen, or not at all.
LEMMA UnseenStep ==
  ASSUME ListsInv, NEW f \in flights, f.at = "sent", NEW n,
         n \in IF f.op = "readd" THEN Entry \ (DOMAIN shelf \cup DOMAIN row \cup Flying) ELSE {f.new},
         \/ Possible(f) /\ shelf' = After(f, n) /\ doubted' = doubted \cup Differ(shelf, shelf')
         \/ UNCHANGED <<shelf, doubted>>,
         NEW h \in RowFlight, h.op = f.op, h.uid = f.uid, h.gen = f.gen, h.overtaken = f.overtaken, h.new = f.new,
         h.at = "failed" \/ (h.at = "ok" /\ f.op \in {"readd", "clear", "move"}),
         flights' = (flights \ {f}) \cup {h}, UNCHANGED <<widget, row, undo, swiped, reads>>,
         named' \in [Entry -> Entry], left' \in [taps : Nat, reads : Nat, upsets : Nat]
  PROVE  ListsInv'
<1>0. /\ ListsTyped /\ CallsRight /\ RowsHeld /\ OneCall /\ AllAgree /\ RowsLocked
      /\ 0 \notin Entry /\ reads \in Nat \ {0}
      /\ f \in RowFlight /\ shelf \in Shelves /\ doubted \subseteq Entry
  BY ListsFacts DEF ListsTyped
<1>a. PICK M : M = IF f.op = "readd" THEN {n} ELSE {}
  OBVIOUS
<1>b. shelf' \in Shelves /\ DOMAIN shelf' \subseteq DOMAIN shelf \cup M
  <2>1. CASE Possible(f) /\ shelf' = After(f, n)
    <3>1. f.op = "readd" => n \in Entry \ DOMAIN shelf
      OBVIOUS
    <3>2. f.op \in Flips \cup {"readd", "remove"} \cup WholeList
      BY <1>0 DEF RowFlight, RowOps, Flips, WholeList
    <3>3. /\ shelf' \in Shelves
          /\ f.op \in Flips => DOMAIN shelf' = DOMAIN shelf
          /\ f.op = "readd" => DOMAIN shelf' = DOMAIN shelf \cup {n}
          /\ f.op = "remove" => DOMAIN shelf' = DOMAIN shelf \ {f.uid}
          /\ f.op \in WholeList => DOMAIN shelf' \subseteq DOMAIN shelf
      BY <1>0, <2>1, <3>1, AfterIs
    <3> QED BY <1>a, <3>2, <3>3
  <2>2. CASE UNCHANGED <<shelf, doubted>>
    BY <1>0, <2>2
  <2> QED BY <2>1, <2>2
<1>c. M \cap Flying = {} /\ (M # {} => widget = "grocery")
  BY <1>0, <1>a DEF CallsRight
<1>d. doubted \subseteq doubted' /\ doubted' \subseteq Entry
  BY <1>0 DEF Differ
<1>1. ListsTyped' /\ CallsRight' /\ RowsHeld' /\ OneCall' /\ RowsLocked' /\ (Rereads => Rereads')
  BY <1>b, <1>c, <1>d, ReplyKeeps
<1>2. ASSUME NEW u \in Entry \ doubted' PROVE Agrees(u)'
  <2>1. u \in Entry \ doubted /\ u # 0
    BY <1>0, <1>2, <1>d
  <2>2. (u \in DOMAIN shelf' <=> u \in DOMAIN shelf) /\ (u \in DOMAIN shelf => shelf'[u] = shelf[u])
    <3>1. CASE doubted' = doubted \cup Differ(shelf, shelf')
      BY <1>2, <3>1, DifferIs
    <3>2. CASE UNCHANGED <<shelf, doubted>>
      BY <3>2
    <3> QED BY <3>1, <3>2
  <2>3. f.uid = u => h.at # "ok" \/ f.op = "readd"
    BY <1>0, <2>1 DEF CallsRight, WholeList
  <2> QED BY <1>1, <2>1, <2>2, <2>3, AnswerAgrees
<1> QED BY <1>1, <1>2 DEF ListsInv, AllAgree

\* What an answer says of the call.
LEMMA RepliedIs ==
  ASSUME NEW f \in RowFlight, shelf \in Shelves, NEW end \in {"ok", "failed"}, NEW n \in Entry \cup {0}, Replied(f, end, n)
  PROVE  \E h \in RowFlight : /\ flights' = (flights \ {f}) \cup {h}
                              /\ h.op = f.op /\ h.uid = f.uid /\ h.gen = f.gen /\ h.overtaken = f.overtaken /\ h.at = end
                              /\ h.new = IF f.op = "readd" THEN n ELSE f.new
<1>1. PICK m \in Entry \cup {0} : m = IF f.op = "readd" THEN n ELSE f.new
  BY DEF RowFlight
<1>2. PICK s \in Shelves : s = IF f.op = "reread" THEN shelf ELSE f.snap
  BY DEF RowFlight
<1>3. PICK h : h = [f EXCEPT !.at = end, !.new = m, !.snap = s]
  OBVIOUS
<1>4. /\ h \in RowFlight /\ h.op = f.op /\ h.uid = f.uid /\ h.gen = f.gen /\ h.overtaken = f.overtaken
      /\ h.at = end /\ h.new = m
  BY ONLY <1>1, <1>2, <1>3, f \in RowFlight, end \in {"ok", "failed"} DEF RowFlight
<1>5. flights' = (flights \ {f}) \cup {h}
  BY <1>1, <1>2, <1>3 DEF Replied
<1> QED BY <1>1, <1>4, <1>5

\* The server takes a call.
LEMMA LandsStep == ASSUME ListsInv, NEW f \in flights, Lands(f) PROVE ListsInv'
<1>0. /\ ListsTyped /\ CallsRight /\ 0 \notin Entry
      /\ f \in RowFlight /\ shelf \in Shelves /\ f.uid \in Entry \cup {0} /\ f.new \in Entry \cup {0} /\ f.overtaken \in BOOLEAN
  BY ListsFacts DEF ListsTyped
<1>1. PICK n : /\ n \in IF f.op = "readd" THEN Entry \ (DOMAIN shelf \cup DOMAIN row \cup Flying) ELSE {f.new}
               /\ \/ /\ Possible(f)
                     /\ shelf' = After(f, n)
                     /\ named' = IF f.op = "readd" THEN [named EXCEPT ![n] = named[f.uid]] ELSE named
                     /\ \/ /\ Replied(f, "ok", n)
                           /\ doubted' = IF f.overtaken \/ f.uid \in doubted THEN doubted \cup Differ(shelf, shelf') ELSE doubted
                           /\ UNCHANGED left
                        \/ /\ Uses("upsets")
                           /\ \/ Replied(f, "failed", 0)
                              \/ f.op = "readd" /\ Replied(f, "ok", 0)
                           /\ doubted' = doubted \cup Differ(shelf, shelf')
                  \/ /\ IF Possible(f) THEN Uses("upsets") ELSE UNCHANGED left
                     /\ Replied(f, "failed", 0)
                     /\ UNCHANGED <<shelf, named, doubted>>
                  \/ /\ f.op \in {"clear", "move"} /\ Replied(f, "ok", 0)
                     /\ UNCHANGED <<shelf, named, left, doubted>>
  BY DEF Lands
<1>2. f.at = "sent" /\ UNCHANGED <<widget, row, undo, swiped, reads>>
  BY DEF Lands
<1>3. n \in Entry \cup {0} /\ 0 \in Entry \cup {0} /\ (f.op = "readd" => f.new = 0 /\ n \in Entry)
  BY <1>0, <1>1, <1>2 DEF CallsRight
<1>4. left' \in [taps : Nat, reads : Nat, upsets : Nat]
  <2>1. Uses("upsets") \/ UNCHANGED left
    BY <1>1
  <2> QED BY <1>0, <2>1, UsesIs DEF ListsTyped
<1>5. named' \in [Entry -> Entry]
  <2>1. f.op = "readd" => f.uid \in Entry
    BY <1>0 DEF CallsRight, WholeList
  <2>2. named' = named \/ (f.op = "readd" /\ named' = [named EXCEPT ![n] = named[f.uid]])
    BY <1>1
  <2> QED BY <1>0, <2>1, <2>2 DEF ListsTyped
<1>6. CASE /\ Possible(f) /\ shelf' = After(f, n) /\ Replied(f, "ok", n)
           /\ doubted' = IF f.overtaken \/ f.uid \in doubted THEN doubted \cup Differ(shelf, shelf') ELSE doubted
  <2>1. PICK h \in RowFlight : /\ flights' = (flights \ {f}) \cup {h}
                               /\ h.op = f.op /\ h.uid = f.uid /\ h.gen = f.gen /\ h.overtaken = f.overtaken /\ h.at = "ok"
                               /\ h.new = IF f.op = "readd" THEN n ELSE f.new
    BY <1>0, <1>3, <1>6, RepliedIs
  <2>2. h.new = n
    BY <1>1, <2>1
  <2> QED BY <1>1, <1>2, <1>4, <1>5, <1>6, <2>1, <2>2, DoneStep
<1>7. CASE /\ \/ Possible(f) /\ shelf' = After(f, n) /\ doubted' = doubted \cup Differ(shelf, shelf')
              \/ UNCHANGED <<shelf, doubted>>
           /\ \/ Replied(f, "failed", 0)
              \/ f.op \in {"readd", "clear", "move"} /\ Replied(f, "ok", 0)
  <2>1. PICK h \in RowFlight : /\ flights' = (flights \ {f}) \cup {h}
                               /\ h.op = f.op /\ h.uid = f.uid /\ h.gen = f.gen /\ h.overtaken = f.overtaken
                               /\ h.at = "failed" \/ (h.at = "ok" /\ f.op \in {"readd", "clear", "move"})
                               /\ h.new = IF f.op = "readd" THEN 0 ELSE f.new
    <3>1. CASE Replied(f, "failed", 0)
      BY <1>0, <1>3, <3>1, RepliedIs
    <3>2. CASE f.op \in {"readd", "clear", "move"} /\ Replied(f, "ok", 0)
      BY <1>0, <1>3, <3>2, RepliedIs
    <3> QED BY <1>7, <3>1, <3>2
  <2>2. h.new = f.new
    BY <1>3, <2>1
  <2> QED BY <1>1, <1>2, <1>4, <1>5, <1>7, <2>1, <2>2, UnseenStep
<1>8. CASE /\ Possible(f) /\ shelf' = After(f, n) /\ doubted' = doubted \cup Differ(shelf, shelf')
           /\ Replied(f, "failed", 0) \/ (f.op = "readd" /\ Replied(f, "ok", 0))
  BY <1>7, <1>8
<1>9. CASE UNCHANGED <<shelf, doubted>> /\ Replied(f, "failed", 0)
  BY <1>7, <1>9
<1>10. CASE UNCHANGED <<shelf, doubted>> /\ f.op \in {"clear", "move"} /\ Replied(f, "ok", 0)
  BY <1>7, <1>10
<1> QED BY <1>1, <1>6, <1>8, <1>9, <1>10

\* The widget hears of a flip: the row is unlocked, and put back if the call failed.
LEMMA AnsweredStep == ASSUME ListsInv, NEW f \in flights, Answered(f) PROVE ListsInv'
<1>0. /\ ListsTyped /\ CallsRight /\ RowsHeld /\ OneCall /\ AllAgree /\ RowsLocked
      /\ 0 \notin Entry /\ reads \in Nat \ {0}
      /\ f \in RowFlight /\ f.uid \in Entry \cup {0} /\ f.at \in {"ok", "failed"}
      /\ DOMAIN row \subseteq Entry /\ row \in [DOMAIN row -> RowShown]
  BY ListsFacts DEF ListsTyped, Answered
<1>a. /\ f.op \in Flips /\ f.op \notin WholeList /\ f.op # "readd" /\ f.op # "remove" /\ f.op # "reread"
      /\ f.uid # 0 /\ f.uid \in Entry /\ f.new = 0
  BY <1>0 DEF Answered, Flips, WholeList, CallsRight
<1>b. /\ flights' = flights \ {f} /\ UNCHANGED <<widget, shelf, named, swiped, reads, left, doubted>>
      /\ undo' = IF f.op = "out" /\ f.at = "ok" THEN f.uid ELSE IF f.at = "failed" THEN 0 ELSE undo
  BY DEF Answered
<1>c. /\ DOMAIN row' = DOMAIN row /\ row' \in [DOMAIN row -> RowShown]
      /\ \A v \in DOMAIN row : row'[v].gen = row[v].gen
      /\ \A v \in DOMAIN row : v # f.uid \/ ~Settled(f) => row'[v] = row[v]
      /\ Settled(f) => /\ ~row'[f.uid].busy /\ f.uid \in DOMAIN row
                      /\ row'[f.uid].done = IF f.at = "failed" THEN f.op = "restock" ELSE row[f.uid].done
  <2>1. CASE Settled(f)
    <3>1. f.uid \in DOMAIN row
      BY <2>1 DEF Settled
    <3>2. PICK x \in RowShown : x = row[f.uid]
      BY <1>0, <3>1
    <3>3. PICK d : d = IF f.at = "failed" THEN f.op = "restock" ELSE x.done
      OBVIOUS
    <3>4. d \in BOOLEAN
      BY <3>2, <3>3 DEF RowShown
    <3>5. PICK y : y = [x EXCEPT !.busy = FALSE, !.done = d]
      OBVIOUS
    <3>6. y \in RowShown /\ ~y.busy /\ y.done = d /\ y.gen = x.gen
      BY ONLY x \in RowShown, <3>4, <3>5 DEF RowShown
    <3>7. row' = [row EXCEPT ![f.uid] = y]
      BY <2>1, <3>2, <3>3, <3>5 DEF Answered
    <3> QED BY <1>0, <2>1, <3>1, <3>2, <3>3, <3>6, <3>7
  <2>2. CASE ~Settled(f)
    BY <1>0, <2>2 DEF Answered
  <2> QED BY <2>1, <2>2
<1>d. Settled(f) => f.op = "out" \/ Current(f)
  BY <1>0 DEF Settled, CallsRight, Current
<1>e. \A k : Current(k)' <=> Current(k)
  BY <1>b DEF Current
<1>f. Rereads => Rereads'
  BY <1>a, <1>b DEF Rereads
<1>1. ListsTyped'
  <2>1. undo' \in Entry \cup {0} /\ (widget = "grocery" => undo' = 0)
    BY <1>0, <1>a, <1>b DEF ListsTyped, CallsRight
  <2> QED BY <1>0, <1>b, <1>c, <2>1 DEF ListsTyped
<1>2. CallsRight'
  BY <1>0, <1>b, <1>c DEF CallsRight
<1>3. RowsHeld'
  <2> SUFFICES ASSUME doubted # Entry, NEW k \in flights', Current(k) PROVE RowHeld(k)'
    BY <1>b, <1>e DEF RowsHeld
  <2>1. RowHeld(k) /\ k # f /\ k \in flights
    BY <1>0, <1>b DEF RowsHeld
  <2>2. ASSUME widget = "grocery", k.op \notin WholeList PROVE row'[k.uid].busy
    <3>1. row[k.uid].busy /\ k.uid \in DOMAIN row
      BY <2>1, <2>2 DEF RowHeld
    <3>2. k.uid # f.uid \/ ~Settled(f)
      BY <1>0, <1>d, <2>1, <2>2 DEF RowHeld, CallsRight
    <3> QED BY <1>c, <3>1, <3>2
  <2> QED BY <1>b, <1>c, <1>e, <2>1, <2>2 DEF RowHeld
<1>4. OneCall'
  BY <1>0, <1>b, <1>c DEF OneCall, About
<1>5. AllAgree'
  <2> SUFFICES ASSUME NEW u \in Entry \ doubted PROVE Agrees(u)'
    BY <1>b DEF AllAgree
  <2>1. Agrees(u) /\ u # 0
    BY <1>0 DEF AllAgree
  <2>2. CASE u # f.uid
    <3>1. \A k \in flights : About(k, u) /\ Current(k) => k \in flights'
      BY <1>a, <1>b, <2>1, <2>2 DEF About
    <3> QED BY <1>b, <1>c, <1>f, <2>1, <2>2, <3>1, AgreesStill
  <2>3. CASE u = f.uid /\ ~Current(f) /\ ~Settled(f)
    <3>1. \A k \in flights : About(k, u) /\ Current(k) => k \in flights'
      BY <1>b, <2>3
    <3> QED BY <1>b, <1>c, <1>f, <2>1, <2>3, <3>1, AgreesStill
  <2>4. CASE u = f.uid /\ (Current(f) \/ Settled(f))
    <3>1. u \in DOMAIN row /\ Settled(f)
      <4>1. CASE Current(f)
        <5>1. u \in DOMAIN row
          BY <2>1, <2>4, <4>1 DEF Agrees, Awaits
        <5> QED BY <1>0, <2>4, <4>1, <5>1 DEF Settled, CallsRight, Current
      <4>2. CASE Settled(f)
        BY <2>4, <4>2 DEF Settled
      <4> QED BY <2>4, <4>1, <4>2
    <3>2. \A k \in flights : About(k, u) => k = f
      BY <1>0, <2>4, <3>1 DEF OneCall, About
    <3>3. \A k \in flights' : ~About(k, u)
      BY <1>b, <3>2
    <3>4. u \notin DOMAIN shelf => Rereads'
      BY <1>a, <1>f, <2>1, <3>1, <3>2 DEF Agrees, About
    <3>5. ASSUME u \in DOMAIN shelf PROVE row'[u].done = shelf[u]
      <4>0. row[u].done \in BOOLEAN /\ shelf[u] \in BOOLEAN
        BY <1>0, <3>1, <3>5, ShelfIs DEF RowShown, ListsTyped
      <4>1. CASE Current(f)
        <5>1. row[u].done = Target(f) /\ shelf[u] = IF f.at = "ok" THEN Target(f) ELSE ~Target(f)
          BY <1>a, <2>1, <2>4, <3>5, <4>1 DEF Agrees, Awaits
        <5> QED BY <1>0, <1>a, <1>c, <2>4, <3>1, <4>0, <5>1 DEF Target, Flips
      <4>2. CASE ~Current(f)
        <5>1. row[u].done = shelf[u]
          BY <2>1, <3>1, <3>2, <3>5, <4>2 DEF Agrees, About
        <5>2. f.op = "out" /\ (f.at # "ok" => ~shelf[u])
          BY <1>d, <2>1, <2>4, <3>1, <3>5, <4>2 DEF Agrees
        <5> QED BY <1>0, <1>c, <2>4, <3>1, <4>0, <5>1, <5>2
      <4> QED BY <4>1, <4>2
    <3> QED BY <1>b, <1>c, <3>1, <3>3, <3>4, <3>5, AgreesAlone
  <2> QED BY <2>2, <2>3, <2>4
<1>6. RowsLocked'
  <2> SUFFICES ASSUME NEW v \in DOMAIN row, row'[v].busy PROVE \E k \in flights' : k.uid = v /\ Current(k)
    BY <1>c, <1>e DEF RowsLocked
  <2>1. v # f.uid \/ ~Settled(f)
    BY <1>c
  <2>2. PICK k \in flights : k.uid = v /\ Current(k)
    BY <1>0, <1>c, <2>1 DEF RowsLocked
  <2>3. k # f
    <3>1. CASE v # f.uid
      BY <2>2, <3>1
    <3>2. CASE v = f.uid /\ ~Settled(f)
      <4>1. ~Current(f)
        BY <1>0, <3>2 DEF Settled, CallsRight, Current
      <4> QED BY <2>2, <4>1
    <3> QED BY <2>1, <3>1, <3>2
  <2> QED BY <1>b, <2>2, <2>3
<1> QED BY <1>1, <1>2, <1>3, <1>4, <1>5, <1>6 DEF ListsInv

\* The widget hears of a copy that was added: the bought one is removed, or, if that failed, unlocked.
LEMMA ReaddedStep == ASSUME ListsInv, NEW f \in flights, Readded(f) PROVE ListsInv'
<1>0. /\ ListsTyped /\ CallsRight /\ RowsHeld /\ OneCall /\ AllAgree /\ RowsLocked
      /\ 0 \notin Entry /\ reads \in Nat \ {0}
      /\ f \in RowFlight /\ f.uid \in Entry \cup {0} /\ f.op = "readd" /\ f.at \in {"ok", "failed"}
      /\ DOMAIN row \subseteq Entry /\ row \in [DOMAIN row -> RowShown]
  BY ListsFacts DEF ListsTyped, Readded
<1>a. widget = "grocery" /\ f.uid # 0 /\ f.op \notin WholeList /\ f.op \notin Flips /\ (f.at # "ok" => f.new = 0)
  BY <1>0 DEF CallsRight, Flips, WholeList
<1>b. UNCHANGED <<widget, shelf, named, undo, swiped, reads, left, doubted>>
  BY DEF Readded
<1>c. \A k : Current(k)' <=> Current(k)
  BY <1>b DEF Current
<1>1. CASE f.at = "ok"
  <2>1. PICK h : h = [f EXCEPT !.op = "remove", !.at = "sent"]
    OBVIOUS
  <2>2. "remove" \in RowOps
    BY DEF RowOps
  <2>3. /\ h \in RowFlight /\ h.op = "remove" /\ h.at = "sent" /\ h.uid = f.uid /\ h.new = f.new /\ h.gen = f.gen
        /\ h.overtaken = f.overtaken
    BY ONLY <1>0, <2>1, <2>2 DEF RowFlight
  <2>4. flights' = (flights \ {f}) \cup {h} /\ row' = row
    BY <1>1, <2>1 DEF Readded
  <2>5. Rereads => Rereads'
    BY <1>0, <1>a, <2>4 DEF Rereads
  <2>6. h.op \notin WholeList /\ (Current(h) <=> Current(f))
    BY <2>3 DEF WholeList, Current
  <2>7. ListsTyped'
    BY <1>0, <1>b, <2>3, <2>4 DEF ListsTyped
  <2>8. CallsRight'
    <3>1. /\ h.uid # 0 /\ (h.new # 0 => h.new # h.uid) /\ h.gen <= reads
          /\ h.gen # reads => h.overtaken
      BY <1>0, <1>a, <2>3 DEF CallsRight
    <3> QED BY <1>0, <1>a, <1>b, <2>3, <2>4, <2>6, <3>1 DEF CallsRight
  <2>9. RowsHeld'
    <3> SUFFICES ASSUME doubted # Entry, NEW k \in flights', Current(k) PROVE RowHeld(k)'
      BY <1>b, <1>c DEF RowsHeld
    <3>1. \A q \in flights : Current(q) => RowHeld(q)
      BY <1>0 DEF RowsHeld
    <3>2. PICK q \in flights : /\ Current(q) /\ q.uid = k.uid /\ q.new = k.new /\ (q.op \in WholeList <=> k.op \in WholeList)
                               /\ (k = q /\ q # f) \/ (k = h /\ q = f)
      BY <1>a, <2>3, <2>4, <2>6
    <3>3. RowHeld(q)
      BY <3>1, <3>2
    <3>4. ASSUME NEW j \in flights', Current(j), (j.uid = k.uid /\ k.op \notin WholeList) \/ (j.new = k.new /\ k.new # 0) PROVE j = k
      <4>1. PICK i \in flights : Current(i) /\ i.uid = j.uid /\ i.new = j.new /\ ((j = i /\ i # f) \/ (j = h /\ i = f))
        BY <2>3, <2>4, <2>6, <3>4
      <4>2. i = q
        BY <1>a, <3>2, <3>3, <3>4, <4>1 DEF RowHeld
      <4> QED BY <3>2, <4>1, <4>2
    <3>5. /\ k.op \notin WholeList => k.uid \in DOMAIN row /\ row[k.uid].busy
          /\ k.new # 0 => k.new \notin DOMAIN row
      BY <1>a, <3>2, <3>3 DEF RowHeld
    <3> QED BY <1>a, <1>b, <1>c, <2>4, <3>4, <3>5 DEF RowHeld
  <2>10. OneCall'
    <3>1. ASSUME NEW v \in Entry \ doubted, NEW k \in flights', NEW j \in flights', About(k, v), About(j, v) PROVE k = j
      <4>1. PICK q \in flights : About(q, v) /\ ((k = q /\ q # f) \/ (k = h /\ q = f))
        BY <2>3, <2>4, <3>1 DEF About
      <4>2. PICK i \in flights : About(i, v) /\ ((j = i /\ i # f) \/ (j = h /\ i = f))
        BY <2>3, <2>4, <3>1 DEF About
      <4>3. q = i
        BY <1>0, <1>a, <4>1, <4>2 DEF OneCall
      <4> QED BY <4>1, <4>2, <4>3
    <3>2. \A k \in flights' : k.gen = 0 /\ k.uid \in Entry \ doubted => k.uid \notin DOMAIN shelf
      BY <1>0, <2>3, <2>4 DEF OneCall
    <3> QED BY <1>b, <3>1, <3>2 DEF OneCall, About
  <2>11. AllAgree'
    <3> SUFFICES ASSUME NEW u \in Entry \ doubted PROVE Agrees(u)'
      BY <1>b DEF AllAgree
    <3>1. Agrees(u)
      BY <1>0 DEF AllAgree
    <3>2. f.uid = u /\ Awaits(f) => Awaits(h)
      BY <1>0, <2>3 DEF Awaits, Flips
    <3> QED BY <1>0, <1>b, <2>3, <2>4, <2>5, <3>1, <3>2, AgreesReplied
  <2>12. RowsLocked'
    BY <1>0, <1>c, <2>3, <2>4, <2>6 DEF RowsLocked
  <2> QED BY <2>7, <2>8, <2>9, <2>10, <2>11, <2>12 DEF ListsInv
<1>2. CASE f.at = "failed"
  <2>1. flights' = flights \ {f} /\ row' = IF Settled(f) THEN [row EXCEPT ![f.uid].busy = FALSE] ELSE row
    BY <1>2 DEF Readded
  <2>2. /\ DOMAIN row' = DOMAIN row /\ row' \in [DOMAIN row -> RowShown]
        /\ \A v \in DOMAIN row : row'[v].gen = row[v].gen /\ row'[v].done = row[v].done
        /\ \A v \in DOMAIN row : v # f.uid \/ ~Settled(f) => row'[v] = row[v]
        /\ Settled(f) => ~row'[f.uid].busy
    <3>1. CASE Settled(f)
      <4>1. f.uid \in DOMAIN row
        BY <3>1 DEF Settled
      <4>2. PICK x \in RowShown : x = row[f.uid]
        BY <1>0, <4>1
      <4>3. PICK y : y = [x EXCEPT !.busy = FALSE]
        OBVIOUS
      <4>4. y \in RowShown /\ ~y.busy /\ y.done = x.done /\ y.gen = x.gen
        BY ONLY x \in RowShown, <4>3 DEF RowShown
      <4>5. row' = [row EXCEPT ![f.uid] = y]
        BY <2>1, <3>1, <4>2, <4>3
      <4>6. /\ DOMAIN row' = DOMAIN row /\ row' \in [DOMAIN row -> RowShown] /\ row'[f.uid] = y
            /\ \A v \in DOMAIN row : v # f.uid => row'[v] = row[v]
        BY <1>0, <4>1, <4>4, <4>5
      <4>7. \A v \in DOMAIN row : row'[v].gen = row[v].gen /\ row'[v].done = row[v].done
        BY <4>2, <4>4, <4>6
      <4> QED BY <3>1, <4>4, <4>6, <4>7
    <3>2. CASE ~Settled(f)
      BY <1>0, <2>1, <3>2
    <3> QED BY <3>1, <3>2
  <2>3. (Settled(f) => Current(f)) /\ (Current(f) /\ f.uid \in DOMAIN row => Settled(f))
    BY <1>0 DEF Settled, CallsRight, Current
  <2>4. Rereads => Rereads'
    BY <1>0, <1>a, <2>1 DEF Rereads
  <2>5. ListsTyped'
    BY <1>0, <1>b, <2>1, <2>2 DEF ListsTyped
  <2>6. CallsRight'
    BY <1>0, <1>b, <2>1, <2>2 DEF CallsRight
  <2>7. RowsHeld'
    <3> SUFFICES ASSUME doubted # Entry, NEW k \in flights', Current(k) PROVE RowHeld(k)'
      BY <1>b, <1>c DEF RowsHeld
    <3>1. RowHeld(k) /\ k # f /\ k \in flights
      BY <1>0, <2>1 DEF RowsHeld
    <3>2. ASSUME k.op \notin WholeList PROVE row'[k.uid].busy
      <4>1. row[k.uid].busy /\ k.uid \in DOMAIN row
        BY <1>a, <3>1, <3>2 DEF RowHeld
      <4>2. k.uid # f.uid \/ ~Settled(f)
        BY <1>a, <2>3, <3>1, <3>2 DEF RowHeld
      <4> QED BY <2>2, <4>1, <4>2
    <3> QED BY <1>b, <1>c, <2>1, <2>2, <3>1, <3>2 DEF RowHeld
  <2>8. OneCall'
    BY <1>0, <1>b, <2>1, <2>2 DEF OneCall, About
  <2>9. AllAgree'
    <3> SUFFICES ASSUME NEW u \in Entry \ doubted PROVE Agrees(u)'
      BY <1>b DEF AllAgree
    <3>1. Agrees(u) /\ u # 0
      BY <1>0 DEF AllAgree
    <3>2. CASE u # f.uid \/ ~Current(f)
      <4>1. \A k \in flights : About(k, u) /\ Current(k) => k \in flights'
        BY <1>2, <1>a, <2>1, <3>1, <3>2 DEF About
      <4> QED BY <1>b, <2>1, <2>2, <2>4, <3>1, <4>1, AgreesStill
    <3>3. CASE u = f.uid /\ Current(f)
      <4>1. Awaits(f)
        BY <3>1, <3>3 DEF Agrees
      <4>2. u \in DOMAIN row /\ row[u].done /\ (u \in DOMAIN shelf => shelf[u])
        BY <1>0, <3>3, <4>1 DEF Awaits
      <4>3. \A k \in flights : About(k, u) => k = f
        BY <1>0, <1>a, <3>3 DEF OneCall, About
      <4>4. u \notin DOMAIN shelf => Rereads'
        BY <1>0, <2>4, <3>1, <4>2, <4>3 DEF Agrees, About
      <4>5. u \in DOMAIN shelf => row'[u].done = shelf[u]
        <5>1. u \in DOMAIN shelf => shelf[u] \in BOOLEAN
          BY <1>0, ShelfIs DEF ListsTyped
        <5>2. row[u].done \in BOOLEAN
          BY <1>0, <4>2 DEF RowShown
        <5> QED BY <2>2, <4>2, <5>1, <5>2
      <4>6. \A k \in flights' : ~About(k, u)
        BY <2>1, <4>3
      <4> QED BY <1>b, <2>2, <4>2, <4>4, <4>5, <4>6, AgreesAlone
    <3> QED BY <3>2, <3>3
  <2>10. RowsLocked'
    <3> SUFFICES ASSUME NEW v \in DOMAIN row, row'[v].busy PROVE \E k \in flights' : k.uid = v /\ Current(k)
      BY <1>c, <2>2 DEF RowsLocked
    <3>1. v # f.uid \/ ~Settled(f)
      BY <2>2
    <3>2. PICK k \in flights : k.uid = v /\ Current(k)
      BY <1>0, <2>2, <3>1 DEF RowsLocked
    <3>3. k # f
      BY <2>3, <3>1, <3>2
    <3> QED BY <2>1, <3>2, <3>3
  <2> QED BY <2>5, <2>6, <2>7, <2>8, <2>9, <2>10 DEF ListsInv
<1> QED BY <1>0, <1>1, <1>2

\* What the screen shows when a bought row was removed, or was not: the copy that was added is there in either case.
LEMMA RemovedRow ==
  ASSUME ListsInv, NEW f \in flights, Removed(f), Settled(f)
  PROVE  /\ f.uid \in DOMAIN row /\ Current(f)
         /\ DOMAIN row' = (IF f.at = "ok" THEN DOMAIN row \ {f.uid} ELSE DOMAIN row) \cup ({f.new} \ {0})
         /\ DOMAIN row' \subseteq Entry /\ row' \in [DOMAIN row' -> RowShown]
         /\ \A v \in DOMAIN row' : row'[v].gen = reads
         /\ f.new # 0 => ~row'[f.new].busy /\ ~row'[f.new].done
         /\ f.at # "ok" => ~row'[f.uid].busy /\ row'[f.uid].done = row[f.uid].done
         /\ \A v \in DOMAIN row \ {f.uid, f.new} : row'[v] = row[v]
<1>0. /\ ListsTyped /\ CallsRight /\ 0 \notin Entry /\ reads \in Nat
      /\ f \in RowFlight /\ f.uid \in Entry \cup {0} /\ f.new \in Entry \cup {0} /\ f.op = "remove" /\ f.at \in {"ok", "failed"}
      /\ DOMAIN row \subseteq Entry /\ row \in [DOMAIN row -> RowShown]
  BY ListsFacts DEF ListsTyped, Removed
<1>1. f.uid \in DOMAIN row /\ row[f.uid].gen = f.gen /\ f.gen = reads /\ f.uid # f.new
  BY <1>0 DEF Settled, CallsRight
<1>2. PICK x \in RowShown : x = row[f.uid]
  BY <1>0, <1>1
<1>3. PICK y : y = [x EXCEPT !.busy = FALSE]
  OBVIOUS
<1>4. y \in RowShown /\ ~y.busy /\ y.done = x.done /\ y.gen = x.gen
  BY ONLY x \in RowShown, <1>3 DEF RowShown
<1>5. PICK z : z = [done |-> FALSE, busy |-> FALSE, gen |-> f.gen]
  OBVIOUS
<1>6. z \in RowShown /\ ~z.busy /\ ~z.done /\ z.gen = reads
  BY <1>0, <1>1, <1>5 DEF RowShown
<1>7. PICK kept : kept = IF f.at = "ok" THEN Minus(row, {f.uid}) ELSE [row EXCEPT ![f.uid] = y]
  OBVIOUS
<1>8. PICK added : added = [u \in {f.new} \ {0} |-> z]
  OBVIOUS
<1>9. row' = With(added, kept)
  BY <1>2, <1>3, <1>5, <1>7, <1>8 DEF Removed
<1>10. /\ DOMAIN kept = IF f.at = "ok" THEN DOMAIN row \ {f.uid} ELSE DOMAIN row
       /\ \A v \in DOMAIN row \ {f.uid} : kept[v] = row[v]
       /\ f.at # "ok" => kept[f.uid] = y
  <2>1. CASE f.at = "ok"
    <3>1. kept = Minus(row, {f.uid})
      BY <1>7, <2>1
    <3> QED BY <2>1, <3>1 DEF Minus
  <2>2. CASE f.at # "ok"
    <3>1. kept = [row EXCEPT ![f.uid] = y]
      BY <1>7, <2>2
    <3> QED BY <1>0, <1>1, <2>2, <3>1
  <2> QED BY <2>1, <2>2
<1>11. /\ DOMAIN row' = DOMAIN kept \cup ({f.new} \ {0}) /\ row' = [v \in DOMAIN row' |-> row'[v]]
       /\ f.new # 0 => row'[f.new] = z
       /\ \A v \in DOMAIN kept \ {f.new} : row'[v] = kept[v]
  BY <1>0, <1>8, <1>9, <1>10 DEF With
<1>12. DOMAIN row' \subseteq Entry
  BY <1>0, <1>10, <1>11
<1>13. \A v \in DOMAIN row' : row'[v] \in RowShown /\ row'[v].gen = reads
  <2> SUFFICES ASSUME NEW v \in DOMAIN row' PROVE row'[v] \in RowShown /\ row'[v].gen = reads
    OBVIOUS
  <2>1. CASE v = f.new
    BY <1>0, <1>6, <1>11, <1>12, <2>1
  <2>2. CASE v = f.uid
    BY <1>1, <1>2, <1>4, <1>10, <1>11, <2>2
  <2>3. CASE v # f.new /\ v # f.uid
    BY <1>0, <1>10, <1>11, <2>3 DEF CallsRight
  <2> QED BY <2>1, <2>2, <2>3
<1>14. row' \in [DOMAIN row' -> RowShown]
  BY <1>11, <1>13
<1>15. f.at # "ok" => ~row'[f.uid].busy /\ row'[f.uid].done = row[f.uid].done
  BY <1>1, <1>2, <1>4, <1>10, <1>11
<1>16. \A v \in DOMAIN row \ {f.uid, f.new} : row'[v] = row[v]
  BY <1>10, <1>11
<1> QED BY <1>1, <1>6, <1>10, <1>11, <1>12, <1>13, <1>14, <1>15, <1>16 DEF Current

\* The answer to the removal comes, and the old row goes.
LEMMA RemovedStep == ASSUME ListsInv, NEW f \in flights, Removed(f) PROVE ListsInv'
<1>0. /\ ListsTyped /\ CallsRight /\ RowsHeld /\ OneCall /\ AllAgree /\ RowsLocked
      /\ 0 \notin Entry /\ reads \in Nat \ {0}
      /\ f \in RowFlight /\ f.uid \in Entry \cup {0} /\ f.new \in Entry \cup {0} /\ f.op = "remove" /\ f.at \in {"ok", "failed"}
      /\ DOMAIN row \subseteq Entry /\ row \in [DOMAIN row -> RowShown]
  BY ListsFacts DEF ListsTyped, Removed
<1>a. widget = "grocery" /\ f.uid # 0 /\ f.op \notin WholeList /\ f.op \notin Flips /\ f.uid # f.new
  BY <1>0 DEF CallsRight, Flips, WholeList
<1>b. UNCHANGED <<widget, shelf, named, undo, swiped, reads, left, doubted>> /\ flights' = flights \ {f}
  BY DEF Removed
<1>c. \A k : Current(k)' <=> Current(k)
  BY <1>b DEF Current
<1>d. Rereads => Rereads'
  BY <1>0, <1>a, <1>b DEF Rereads
<1>e. ~Settled(f) => row' = row
  BY DEF Removed
<1>1. ListsTyped'
  <2>1. DOMAIN row' \subseteq Entry /\ row' \in [DOMAIN row' -> RowShown]
    BY <1>0, <1>e, RemovedRow
  <2> QED BY <1>0, <1>b, <2>1 DEF ListsTyped
<1>2. CallsRight'
  <2>1. \A v \in DOMAIN row' : row'[v].gen = reads
    BY <1>0, <1>e, RemovedRow DEF CallsRight
  <2> QED BY <1>0, <1>b, <2>1 DEF CallsRight
<1>3. RowsHeld'
  <2> SUFFICES ASSUME doubted # Entry, NEW k \in flights', Current(k) PROVE RowHeld(k)'
    BY <1>b, <1>c DEF RowsHeld
  <2>1. RowHeld(k) /\ k # f /\ k \in flights /\ (Current(f) => RowHeld(f))
    BY <1>0, <1>b DEF RowsHeld
  <2>2. CASE Settled(f)
    <3>1. /\ Current(f)
          /\ DOMAIN row' = (IF f.at = "ok" THEN DOMAIN row \ {f.uid} ELSE DOMAIN row) \cup ({f.new} \ {0})
          /\ \A v \in DOMAIN row \ {f.uid, f.new} : row'[v] = row[v]
      BY <2>2, RemovedRow
    <3>2. ASSUME k.op \notin WholeList PROVE k.uid \in DOMAIN row' /\ row'[k.uid].busy
      <4>1. k.uid \in DOMAIN row /\ row[k.uid].busy /\ k.uid # f.uid
        BY <1>a, <2>1, <3>1, <3>2 DEF RowHeld
      <4>2. k.uid # f.new
        BY <1>0, <2>1, <3>1, <4>1 DEF RowHeld
      <4> QED BY <3>1, <4>1, <4>2
    <3>3. k.new # 0 => k.new \notin DOMAIN row'
      BY <2>1, <3>1 DEF RowHeld
    <3> QED BY <1>b, <1>c, <2>1, <3>2, <3>3 DEF RowHeld
  <2>3. CASE ~Settled(f)
    BY <1>b, <1>c, <1>e, <2>1, <2>3 DEF RowHeld
  <2> QED BY <2>2, <2>3
<1>4. OneCall'
  BY <1>0, <1>a, <1>b DEF OneCall, About
<1>5. AllAgree'
  <2> SUFFICES ASSUME NEW u \in Entry \ doubted PROVE Agrees(u)'
    BY <1>b DEF AllAgree
  <2>1. Agrees(u) /\ u # 0 /\ doubted # Entry
    BY <1>0 DEF AllAgree
  <2>2. CASE ~Settled(f)
    <3>1. ~Current(f)
      <4> SUFFICES ASSUME Current(f) PROVE FALSE
        OBVIOUS
      <4>1. f.uid \in DOMAIN row
        BY <1>0, <1>a, <2>1 DEF RowsHeld, RowHeld
      <4> QED BY <1>0, <2>2, <4>1 DEF Settled, CallsRight, Current
    <3>2. \A k \in flights : About(k, u) /\ Current(k) => k \in flights'
      BY <1>b, <3>1
    <3> QED BY <1>b, <1>d, <1>e, <2>1, <2>2, <3>2, AgreesStill
  <2>3. CASE Settled(f)
    <3>1. /\ f.uid \in DOMAIN row /\ Current(f)
          /\ DOMAIN row' = (IF f.at = "ok" THEN DOMAIN row \ {f.uid} ELSE DOMAIN row) \cup ({f.new} \ {0})
          /\ f.new # 0 => ~row'[f.new].done
          /\ f.at # "ok" => row'[f.uid].done = row[f.uid].done
          /\ \A v \in DOMAIN row \ {f.uid, f.new} : row'[v] = row[v]
          /\ row' \in [DOMAIN row' -> RowShown]
      BY <2>3, RemovedRow
    <3>2. About(f, u) => \A k \in flights' : ~About(k, u)
      BY <1>0, <1>a, <1>b DEF OneCall, About
    <3>3. u \in DOMAIN shelf => shelf[u] \in BOOLEAN
      BY <1>0, ShelfIs DEF ListsTyped
    <3>4. CASE u # f.uid /\ u # f.new
      <4>1. \A k \in flights : About(k, u) /\ Current(k) => k \in flights'
        BY <1>b, <3>4 DEF About
      <4>2. (u \in DOMAIN row' <=> u \in DOMAIN row) /\ (u \in DOMAIN row => row'[u].done = row[u].done)
        BY <3>1, <3>4
      <4> QED BY <1>b, <1>d, <2>1, <4>1, <4>2, AgreesStill
    <3>5. CASE u = f.uid
      <4>1. Awaits(f)
        BY <2>1, <3>1, <3>5 DEF Agrees
      <4>2. row[u].done /\ (u \in DOMAIN shelf => shelf[u] /\ f.at # "ok")
        BY <1>0, <3>5, <4>1 DEF Awaits
      <4>3. CASE f.at = "ok"
        <5>1. u \notin DOMAIN row' /\ u \notin DOMAIN shelf'
          BY <1>a, <1>b, <3>1, <3>5, <4>2, <4>3
        <5> QED BY <3>2, <3>5, <5>1, AgreesAlone DEF About
      <4>4. CASE f.at # "ok"
        <5>1. u \in DOMAIN row' /\ row'[u].done = row[u].done
          BY <3>1, <3>5, <4>4
        <5>2. row'[u].done \in BOOLEAN
          BY <3>1, <5>1 DEF RowShown
        <5>3. u \in DOMAIN shelf => row'[u].done = shelf'[u]
          BY <1>b, <3>3, <4>2, <5>1, <5>2
        <5>4. u \notin DOMAIN shelf => Rereads'
          <6>1. \A k \in flights : About(k, u) => k = f
            BY <1>b, <3>2, <3>5 DEF About
          <6> QED BY <1>d, <2>1, <3>1, <3>5, <4>4, <6>1 DEF Agrees, About
        <5> QED BY <1>b, <3>2, <3>5, <5>1, <5>3, <5>4, AgreesAlone DEF About
      <4> QED BY <4>3, <4>4
    <3>6. CASE u = f.new
      <4>1. u \in DOMAIN row' /\ ~row'[u].done /\ row'[u].done \in BOOLEAN
        BY <2>1, <3>1, <3>6 DEF RowShown
      <4>2. (u \in DOMAIN shelf => ~shelf[u]) /\ (u \notin DOMAIN shelf => Rereads')
        BY <1>d, <2>1, <3>1, <3>6 DEF Agrees
      <4>3. u \in DOMAIN shelf => row'[u].done = shelf'[u]
        BY <1>b, <3>3, <4>1, <4>2
      <4> QED BY <1>b, <3>2, <3>6, <4>1, <4>2, <4>3, AgreesAlone DEF About
    <3> QED BY <3>4, <3>5, <3>6
  <2> QED BY <2>2, <2>3
<1>6. RowsLocked'
  <2> SUFFICES ASSUME NEW v \in DOMAIN row', row'[v].busy PROVE \E k \in flights' : k.uid = v /\ Current(k)
    BY <1>c DEF RowsLocked
  <2>1. CASE Settled(f)
    <3>1. /\ DOMAIN row' = (IF f.at = "ok" THEN DOMAIN row \ {f.uid} ELSE DOMAIN row) \cup ({f.new} \ {0})
          /\ f.new # 0 => ~row'[f.new].busy
          /\ f.at # "ok" => ~row'[f.uid].busy
          /\ \A w \in DOMAIN row \ {f.uid, f.new} : row'[w] = row[w]
      BY <2>1, RemovedRow
    <3>2. v # f.uid /\ v # f.new /\ v \in DOMAIN row /\ row[v].busy
      <4>1. v # f.new
        BY <1>0, <1>1, <3>1 DEF ListsTyped
      <4> QED BY <3>1, <4>1
    <3>3. PICK k \in flights : k.uid = v /\ Current(k)
      BY <1>0, <3>2 DEF RowsLocked
    <3> QED BY <1>b, <3>2, <3>3
  <2>2. CASE ~Settled(f)
    <3>1. v \in DOMAIN row /\ row[v].busy
      BY <1>e, <2>2
    <3>2. PICK k \in flights : k.uid = v /\ Current(k)
      BY <1>0, <3>1 DEF RowsLocked
    <3>3. k # f
      BY <1>0, <2>2, <3>1, <3>2 DEF Settled, CallsRight, Current
    <3> QED BY <1>b, <3>2, <3>3
  <2> QED BY <2>1, <2>2
<1> QED BY <1>1, <1>2, <1>3, <1>4, <1>5, <1>6 DEF ListsInv

\* A call that a read or a failed one overtakes is otherwise as it was.
LEMMA OvertakenIs ==
  ASSUME NEW f \in flights, \A q \in flights : q \in RowFlight, flights' = {[q EXCEPT !.overtaken = TRUE] : q \in flights \ {f}}
  PROVE  /\ \A h \in flights' : /\ h \in RowFlight /\ h.overtaken
                               /\ \E q \in flights \ {f} : /\ h = [q EXCEPT !.overtaken = TRUE] /\ h.op = q.op /\ h.uid = q.uid
                                                          /\ h.gen = q.gen /\ h.at = q.at /\ h.new = q.new
         /\ \A q \in flights \ {f} : \E h \in flights' : h.uid = q.uid /\ h.gen = q.gen
<1>1. ASSUME NEW q \in RowFlight, NEW h, h = [q EXCEPT !.overtaken = TRUE]
      PROVE  h \in RowFlight /\ h.overtaken /\ h.op = q.op /\ h.uid = q.uid /\ h.gen = q.gen /\ h.at = q.at /\ h.new = q.new
  BY ONLY <1>1 DEF RowFlight
<1>2. ASSUME NEW h \in flights'
      PROVE  /\ h \in RowFlight /\ h.overtaken
             /\ \E q \in flights \ {f} : /\ h = [q EXCEPT !.overtaken = TRUE] /\ h.op = q.op /\ h.uid = q.uid
                                        /\ h.gen = q.gen /\ h.at = q.at /\ h.new = q.new
  <2>1. PICK q \in flights \ {f} : h = [q EXCEPT !.overtaken = TRUE]
    OBVIOUS
  <2>2. q \in RowFlight
    BY <2>1
  <2>3. h \in RowFlight /\ h.overtaken /\ h.op = q.op /\ h.uid = q.uid /\ h.gen = q.gen /\ h.at = q.at /\ h.new = q.new
    BY <1>1, <2>1, <2>2
  <2> QED BY <2>1, <2>3
<1>3. ASSUME NEW q \in flights \ {f} PROVE \E h \in flights' : h.uid = q.uid /\ h.gen = q.gen
  <2>1. PICK h : h = [q EXCEPT !.overtaken = TRUE]
    OBVIOUS
  <2>2. h \in flights' /\ q \in RowFlight
    BY <2>1
  <2> QED BY <1>1, <2>1, <2>2
<1> QED BY <1>2, <1>3

\* A read is shown: every row is as it was read, and the calls under way are none of its.
LEMMA ReceiveStep == ASSUME ListsInv, NEW f \in flights, Receive(f) PROVE ListsInv'
<1>0. /\ ListsTyped /\ CallsRight /\ RowsHeld /\ OneCall /\ AllAgree /\ RowsLocked
      /\ 0 \notin Entry /\ reads \in Nat \ {0}
      /\ f.snap \in Shelves /\ shelf \in Shelves /\ f.op = "reread"
      /\ \A q \in flights : q \in RowFlight /\ q.gen \in Nat /\ q.uid \in Entry \cup {0} /\ q.new \in Entry \cup {0}
  BY ListsFacts DEF ListsTyped, Receive
<1>a. /\ UNCHANGED <<widget, shelf, named, undo, swiped, left>> /\ reads' = reads + 1 /\ reads' \in Nat \ {0}
      /\ row' = [u \in DOMAIN f.snap |-> [done |-> f.snap[u], busy |-> FALSE, gen |-> reads + 1]]
      /\ flights' = {[q EXCEPT !.overtaken = TRUE] : q \in flights \ {f}}
      /\ doubted' = (doubted \cap Flying) \cup Differ(f.snap, shelf)
  BY <1>0 DEF Receive
<1>b. \A h \in flights' : /\ h \in RowFlight /\ h.overtaken
                         /\ \E q \in flights \ {f} : /\ h = [q EXCEPT !.overtaken = TRUE] /\ h.op = q.op /\ h.uid = q.uid
                                                    /\ h.gen = q.gen /\ h.at = q.at /\ h.new = q.new
  BY <1>0, <1>a, OvertakenIs
<1>c. \A h \in flights' : ~Current(h)'
  BY <1>0, <1>a, <1>b DEF CallsRight, Current
<1>d. DOMAIN f.snap \subseteq Entry /\ f.snap \in [DOMAIN f.snap -> BOOLEAN]
  BY <1>0, ShelfIs
<1>e. /\ DOMAIN row' = DOMAIN f.snap
      /\ \A u \in DOMAIN row' : row'[u] = [done |-> f.snap[u], busy |-> FALSE, gen |-> reads']
      /\ row' = [u \in DOMAIN row' |-> row'[u]]
  BY <1>a
<1>f. \A u \in DOMAIN row' : row'[u] \in RowShown /\ row'[u].done = f.snap[u] /\ ~row'[u].busy /\ row'[u].gen = reads'
  <2> SUFFICES ASSUME NEW u \in DOMAIN row'
               PROVE  row'[u] \in RowShown /\ row'[u].done = f.snap[u] /\ ~row'[u].busy /\ row'[u].gen = reads'
    OBVIOUS
  <2>1. PICK d \in BOOLEAN : d = f.snap[u]
    BY <1>d, <1>e
  <2>2. PICK n \in Nat : n = reads'
    BY <1>a
  <2>3. row'[u] = [done |-> d, busy |-> FALSE, gen |-> n]
    BY <1>e, <2>1, <2>2
  <2>4. row'[u] \in RowShown /\ row'[u].done = d /\ ~row'[u].busy /\ row'[u].gen = n
    BY ONLY d \in BOOLEAN, n \in Nat, <2>3 DEF RowShown
  <2> QED BY <2>1, <2>2, <2>4
<1>g. \A u \in Entry \ doubted' : (u \in DOMAIN row' <=> u \in DOMAIN shelf) /\ (u \in DOMAIN shelf => f.snap[u] = shelf[u])
  BY <1>a, <1>e, DifferIs
<1>h. \A u \in Entry \ doubted', q \in flights : About(q, u) => u \notin doubted
  BY <1>a DEF Flying, About
<1>1. ListsTyped'
  <2>1. doubted' \subseteq Entry
    BY <1>0, <1>a DEF Differ, ListsTyped
  <2>2. DOMAIN row' \subseteq Entry /\ row' \in [DOMAIN row' -> RowShown]
    BY <1>d, <1>e, <1>f
  <2>3. flights' \subseteq RowFlight
    BY <1>b
  <2> QED BY <1>0, <1>a, <2>1, <2>2, <2>3 DEF ListsTyped
<1>2. CallsRight'
  <2> SUFFICES ASSUME NEW h \in flights'
               PROVE  /\ h.uid = 0 <=> h.op \in WholeList
                      /\ h.new # 0 => h.op \in {"readd", "remove"} /\ h.new # h.uid
                      /\ h.op = "readd" /\ h.at # "ok" => h.new = 0
                      /\ h.op \in {"out", "restock"} => widget = "pantry"
                      /\ h.op \in {"mark", "readd", "remove", "move"} => widget = "grocery"
                      /\ h.gen <= reads' /\ h.overtaken
    BY <1>a, <1>f DEF CallsRight
  <2>1. PICK q \in flights : h.op = q.op /\ h.uid = q.uid /\ h.gen = q.gen /\ h.at = q.at /\ h.new = q.new
    BY <1>b
  <2>2. q.gen \in Nat /\ q.gen <= reads
    BY <1>0 DEF CallsRight
  <2>3. h.gen <= reads'
    BY <1>0, <1>a, <2>1, <2>2
  <2> QED BY <1>0, <1>b, <2>1, <2>3 DEF CallsRight
<1>3. RowsHeld'
  BY <1>c DEF RowsHeld
<1>4. OneCall'
  <2>1. ASSUME NEW v \in Entry \ doubted', widget = "grocery" \/ v \in DOMAIN row' \cup DOMAIN shelf,
               NEW k \in flights', NEW j \in flights', About(k, v), About(j, v)
        PROVE  k = j
    <3>1. PICK q \in flights : k = [q EXCEPT !.overtaken = TRUE] /\ About(q, v)
      BY <1>b, <2>1 DEF About
    <3>2. PICK i \in flights : j = [i EXCEPT !.overtaken = TRUE] /\ About(i, v)
      BY <1>b, <2>1 DEF About
    <3>3. v \in Entry \ doubted /\ (widget = "grocery" \/ v \in DOMAIN row \cup DOMAIN shelf)
      BY <1>g, <1>h, <2>1, <3>1
    <3>4. q = i
      BY <1>0, <3>1, <3>2, <3>3 DEF OneCall
    <3> QED BY <3>1, <3>2, <3>4
  <2>2. ASSUME NEW k \in flights', k.gen = 0, k.uid \in Entry \ doubted' PROVE k.uid \notin DOMAIN shelf
    <3>1. PICK q \in flights : q.uid = k.uid /\ q.gen = k.gen
      BY <1>b
    <3>2. k.uid \notin doubted
      BY <1>h, <2>2, <3>1 DEF About
    <3> QED BY <1>0, <2>2, <3>1, <3>2 DEF OneCall
  <2> QED BY <1>a, <2>1, <2>2 DEF OneCall, About
<1>5. AllAgree'
  <2> SUFFICES ASSUME NEW u \in Entry \ doubted' PROVE Agrees(u)'
    BY DEF AllAgree
  <2>1. \A k \in flights' : k.op = "out" /\ k.uid = u /\ k.at # "ok" /\ u \in DOMAIN shelf => ~shelf[u]
    <3> SUFFICES ASSUME NEW k \in flights', k.op = "out", k.uid = u, k.at # "ok", u \in DOMAIN shelf PROVE ~shelf[u]
      OBVIOUS
    <3>1. PICK q \in flights : q.op = "out" /\ q.uid = u /\ q.at # "ok"
      BY <1>b
    <3>2. u \notin doubted
      BY <1>h, <3>1 DEF About
    <3> QED BY <1>0, <3>1, <3>2 DEF AllAgree, Agrees
  <2>2. (u \in DOMAIN row' <=> u \in DOMAIN shelf') /\ (u \in DOMAIN row' => row'[u].done = shelf'[u])
    BY <1>a, <1>f, <1>g
  <2> QED BY <1>a, <1>c, <2>1, <2>2 DEF Agrees
<1>6. RowsLocked'
  BY <1>f DEF RowsLocked
<1> QED BY <1>1, <1>2, <1>3, <1>4, <1>5, <1>6 DEF ListsInv

\* A read that failed after a clear: everything is in doubt until the next one.
LEMMA SweptViewStep == ASSUME ListsInv, NEW f \in flights, SweptView(f) PROVE ListsInv'
<1>0. /\ ListsTyped /\ CallsRight /\ RowsLocked
      /\ 0 \notin Entry /\ reads \in Nat \ {0} /\ f.op = "reread"
      /\ \A q \in flights : q \in RowFlight
      /\ DOMAIN row \subseteq Entry /\ row \in [DOMAIN row -> RowShown]
  BY ListsFacts DEF ListsTyped, SweptView
<1>a. /\ UNCHANGED <<widget, shelf, named, undo, swiped, reads, left>>
      /\ row' = Minus(row, Done) /\ doubted' = Entry
      /\ flights' = {[q EXCEPT !.overtaken = TRUE] : q \in flights \ {f}}
  BY DEF SweptView
<1>b. /\ \A h \in flights' : /\ h \in RowFlight /\ h.overtaken
                            /\ \E q \in flights \ {f} : /\ h = [q EXCEPT !.overtaken = TRUE] /\ h.op = q.op /\ h.uid = q.uid
                                                       /\ h.gen = q.gen /\ h.at = q.at /\ h.new = q.new
      /\ \A q \in flights \ {f} : \E h \in flights' : h.uid = q.uid /\ h.gen = q.gen
  BY <1>0, <1>a, OvertakenIs
<1>c. DOMAIN row' = DOMAIN row \ Done /\ row' \in [DOMAIN row' -> RowShown] /\ \A u \in DOMAIN row' : row'[u] = row[u]
  BY <1>0, <1>a DEF Minus
<1>1. ListsTyped'
  <2>1. flights' \subseteq RowFlight
    BY <1>b
  <2> QED BY <1>0, <1>a, <1>c, <2>1 DEF ListsTyped
<1>2. CallsRight'
  <2>1. \A u \in DOMAIN row' : row'[u].gen = reads
    BY <1>0, <1>c DEF CallsRight
  <2> SUFFICES ASSUME NEW h \in flights'
               PROVE  /\ h.uid = 0 <=> h.op \in WholeList
                      /\ h.new # 0 => h.op \in {"readd", "remove"} /\ h.new # h.uid
                      /\ h.op = "readd" /\ h.at # "ok" => h.new = 0
                      /\ h.op \in {"out", "restock"} => widget = "pantry"
                      /\ h.op \in {"mark", "readd", "remove", "move"} => widget = "grocery"
                      /\ h.gen <= reads /\ h.overtaken
    BY <1>a, <2>1 DEF CallsRight
  <2>2. PICK q \in flights : h.op = q.op /\ h.uid = q.uid /\ h.gen = q.gen /\ h.at = q.at /\ h.new = q.new
    BY <1>b
  <2> QED BY <1>0, <1>b, <2>2 DEF CallsRight
<1>3. RowsHeld' /\ AllAgree'
  BY <1>a DEF RowsHeld, AllAgree
<1>4. OneCall'
  BY <1>a DEF OneCall
<1>5. RowsLocked'
  <2> SUFFICES ASSUME NEW v \in DOMAIN row, row[v].busy PROVE \E h \in flights' : h.uid = v /\ h.gen = reads
    BY <1>a, <1>c DEF RowsLocked, Current
  <2>1. PICK q \in flights : q.uid = v /\ q.gen = reads
    BY <1>0 DEF RowsLocked, Current
  <2>2. q # f
    BY <1>0, <2>1 DEF CallsRight, WholeList
  <2> QED BY <1>b, <2>1, <2>2
<1> QED BY <1>1, <1>2, <1>3, <1>4, <1>5 DEF ListsInv

\* Two rows to begin with, one of them done, and no call.
LEMMA ListsStart == ChecklistsInit => ListsInv
<1> SUFFICES ASSUME ChecklistsInit PROVE ListsInv
  OBVIOUS
<1>1. {1, 2} \subseteq Entry /\ Entry \subseteq Nat \ {0} /\ MaxTaps \in Nat /\ MaxReads \in Nat /\ MaxUpsets \in Nat
  BY ChecklistsAssumption
<1>2. DOMAIN shelf = {1, 2} /\ shelf \in [{1, 2} -> BOOLEAN]
  BY DEF ChecklistsInit
<1>3. /\ DOMAIN row = {1, 2} /\ row \in [{1, 2} -> RowShown]
      /\ \A u \in DOMAIN row : row[u].done = shelf[u] /\ ~row[u].busy /\ row[u].gen = 1
  <2>1. row = [u \in DOMAIN shelf |-> [done |-> shelf[u], busy |-> FALSE, gen |-> 1]]
    BY DEF ChecklistsInit
  <2> QED BY <1>2, <2>1 DEF RowShown
<1>4. flights = {} /\ reads = 1 /\ doubted = {} /\ undo = 0 /\ swiped = 0 /\ widget \in {"pantry", "grocery"}
  BY DEF ChecklistsInit
<1>5. left \in [taps : Nat, reads : Nat, upsets : Nat] /\ named \in [Entry -> Entry]
  BY <1>1 DEF ChecklistsInit
<1>6. ListsTyped
  BY <1>1, <1>2, <1>3, <1>4, <1>5 DEF ListsTyped, Shelves
<1>7. CallsRight /\ RowsHeld /\ OneCall /\ RowsLocked
  BY <1>3, <1>4 DEF CallsRight, RowsHeld, OneCall, RowsLocked
<1>8. AllAgree
  BY <1>2, <1>3, <1>4 DEF AllAgree, Agrees
<1> QED BY <1>6, <1>7, <1>8 DEF ListsInv

\* Every step keeps rows, calls and server in agreement.
LEMMA ListsKeep == ListsInv /\ [ChecklistsNext]_checklistVars => ListsInv'
<1> SUFFICES ASSUME ListsInv, [ChecklistsNext]_checklistVars PROVE ListsInv'
  OBVIOUS
<1>1. ASSUME NEW u \in DOMAIN row, Tap(u) \/ Swipe(u) PROVE ListsInv'
  BY <1>1, TapStep, SwipeStep
<1>2. ASSUME NEW f \in flights,
             Lands(f) \/ Answered(f) \/ Readded(f) \/ Removed(f) \/ Cleared(f) \/ Receive(f) \/ SweptView(f)
      PROVE  ListsInv'
  BY <1>2, LandsStep, AnsweredStep, ReaddedStep, RemovedStep, ClearedStep, ReceiveStep, SweptViewStep
<1>3. CASE Undo \/ SwipeEnds \/ ConfirmClear \/ Push \/ Elsewhere
  BY <1>3, UndoStep, SwipeEndsStep, ConfirmClearStep, PushStep, ElsewhereStep
<1>4. CASE UNCHANGED checklistVars
  <2>1. UNCHANGED <<widget, shelf, row, flights, named, undo, swiped, reads, left, doubted>>
    BY <1>4 DEF checklistVars
  <2>2. /\ undo' \in Entry \cup {0} /\ (widget = "grocery" => undo' = 0) /\ swiped' \in Entry \cup {0}
        /\ left' \in [taps : Nat, reads : Nat, upsets : Nat]
    BY <2>1 DEF ListsInv, ListsTyped
  <2> QED BY <2>1, <2>2, AsideStep
<1> QED BY <1>1, <1>2, <1>3, <1>4 DEF ChecklistsNext

\* What that says of the screen.
LEMMA ListsRight == ListsInv => ChecklistsTypeOK /\ ListAgrees
<1> SUFFICES ASSUME ListsInv PROVE ChecklistsTypeOK /\ ListAgrees
  OBVIOUS
<1>0. /\ ListsTyped /\ CallsRight /\ AllAgree /\ RowsLocked /\ reads \in Nat \ {0}
  BY ListsFacts
<1>1. ChecklistsTypeOK
  <2>1. DOMAIN shelf \subseteq Entry
    BY <1>0, ShelfIs DEF ListsTyped
  <2>2. \A u \in DOMAIN row : row[u].gen \in 1..reads
    BY <1>0 DEF CallsRight
  <2> QED BY <1>0, <2>1, <2>2 DEF ChecklistsTypeOK, ListsTyped
<1>2. ASSUME flights = {}, NEW u \in Entry \ doubted
      PROVE  ((u \in DOMAIN row) = (u \in DOMAIN shelf)) /\ (u \in DOMAIN row => row[u].done = shelf[u])
  <2>1. Agrees(u) /\ ~Rereads
    BY <1>0, <1>2 DEF AllAgree, Rereads
  <2>2. u \in DOMAIN row <=> u \in DOMAIN shelf
    BY <1>2, <2>1 DEF Agrees
  <2>3. u \in DOMAIN row => row[u].done = shelf[u]
    BY <1>2, <2>1, <2>2 DEF Agrees
  <2> QED BY <2>2, <2>3
<1>3. \A u \in DOMAIN row : row[u].busy => \E f \in flights : f.uid = u /\ f.gen = row[u].gen
  BY <1>0 DEF RowsLocked, CallsRight, Current
<1> QED BY <1>1, <1>2, <1>3 DEF ListAgrees

\* Once every call is answered, a checklist shows what the server has, whatever overlapped: for any rows and
\* any number of taps, reads and failures (pantry-checklist and grocery-checklist App.svelte).
THEOREM ListAgreesHolds == ChecklistsSpec => [](ChecklistsTypeOK /\ ListAgrees)
<1>1. ChecklistsSpec => []ListsInv
  BY ListsStart, ListsKeep, PTL DEF ChecklistsSpec
<1> QED BY <1>1, ListsRight, PTL

(***************************************************************************)
(* The swipes, for any touches: one acts at most once.                     *)
(***************************************************************************)

Gesture == [active : BOOLEAN, engaged : BOOLEAN, locked : BOOLEAN, x0 : Int, y0 : Int, dx : Int, fast : Int, lastX : Int, lastT : Int]
Tally == [left : 0..MaxTouches, acts : [1..MaxTouches -> Nat], may : SUBSET (1..MaxTouches), swiper : 0..MaxTouches]

\* The kinds of the state; a row is dragged up to its limit.
SwipesTyped ==
  /\ place \in {"pantry", "grocery", "pager"}
  /\ clock \in Nat \ {0}
  /\ finger = <<>> \/ finger \in [x : Spot, y : Height]
  /\ g \in Gesture /\ shift \in Int
  /\ due \in Nat /\ quiet \in Nat /\ click \in BOOLEAN /\ tapped \in Nat
  /\ rowAt \in [busy : BOOLEAN, done : BOOLEAN]
  /\ tally \in Tally
  /\ astray \in BOOLEAN
  /\ place # "pager" => g.dx \in -120..120 /\ shift \in -120..120 \cup (IF place = "pantry" THEN {Away} ELSE {})

\* The finger is one that was put down.
InTouch == /\ Touch \in 0..MaxTouches /\ tally.swiper <= Touch
           /\ finger # <<>> => Touch > 0 /\ tally.swiper < Touch
           /\ click => Touch > 0 /\ finger = <<>>
           /\ g.active => finger # <<>>

\* What may act has not acted yet.
Unspent ==
  /\ \A n \in 1..MaxTouches : tally.acts[n] <= 1 /\ (n > Touch => tally.acts[n] = 0)
  /\ finger # <<>> => tally.acts[Touch] = 0
  /\ click => tally.acts[Touch] = 0

\* The slide of a swipe is over in time.  Its row may be tapped meanwhile, in the grocery list only, where a
\* second tap is ignored for longer than that.
Slides ==
  /\ place = "pager" \/ g.active => due = 0
  /\ due # 0 =>
       /\ tally.swiper > 0 /\ tally.swiper \in tally.may
       /\ due > SlideTime /\ due - SlideTime <= Now /\ Now < due + Tick
       /\ click /\ tally.swiper = Touch => Now < due
       /\ place = "pantry" /\ click /\ tally.swiper = Touch => Swallowed
       /\ tally.acts[tally.swiper] = 0 \/ (place = "grocery" /\ due - SlideTime <= tapped)
  /\ tapped <= Now

\* What acts in the pantry, or turns the page, was no drag that was given up.
Undragged ==
  /\ place = "pantry" /\ click /\ ~Swallowed => Touch \in tally.may
  /\ place # "grocery" => \A n \in (1..MaxTouches) \ tally.may : tally.acts[n] = 0
  /\ place = "pager" => ~click

SwipesInv == SwipesTyped /\ InTouch /\ Unspent /\ Slides /\ Undragged

\* A finger that is down is one.
LEMMA NoFinger == \A x \in Spot, y \in Height : [x |-> x, y |-> y] # <<>>
<1> SUFFICES ASSUME NEW x \in Spot, NEW y \in Height, [x |-> x, y |-> y] = <<>> PROVE FALSE
  OBVIOUS
<1>1. DOMAIN [x |-> x, y |-> y] = {"x", "y"} /\ DOMAIN <<>> = {}
  OBVIOUS
<1> QED BY <1>1

\* A touch is one less that is left, and changes nothing else of the tally.
LEMMA OneLess ==
  ASSUME NEW t \in Tally, t.left > 0, NEW u, u = [t EXCEPT !.left = @ - 1]
  PROVE  /\ u \in Tally /\ u.acts = t.acts /\ u.may = t.may /\ u.swiper = t.swiper
         /\ u.left = t.left - 1 /\ t.left \in 1..MaxTouches /\ u.left \in 0..MaxTouches
<1>1. u \in Tally
  BY SwipesAssumption DEF Tally
<1>2. u.acts = t.acts /\ u.may = t.may /\ u.swiper = t.swiper
  BY DEF Tally
<1>3. u.left = t.left - 1 /\ t.left \in 1..MaxTouches /\ u.left \in 0..MaxTouches
  BY SwipesAssumption DEF Tally
<1> QED BY <1>1, <1>2, <1>3

\* What the tally is made of.
LEMMA TallyIs ==
  ASSUME NEW t \in Tally
  PROVE  /\ t.left \in 0..MaxTouches /\ t.acts \in [1..MaxTouches -> Nat]
         /\ t.may \subseteq 1..MaxTouches /\ t.swiper \in 0..MaxTouches
  BY DEF Tally

\* The invariant holds at the start.
LEMMA SwipesInitially == SwipesInit => SwipesInv
<1> SUFFICES ASSUME SwipesInit PROVE SwipesInv
  OBVIOUS
<1> USE SwipesAssumption DEF SwipesInit, Now, Tick, Touch
<1>1. SwipesTyped
  <2>1. g \in Gesture /\ g.dx = 0
    BY DEF AtRest, Gesture
  <2>2. tally \in Tally
    BY DEF Tally
  <2>3. place \in {"pantry", "grocery", "pager"}
    BY DEF Setting
  <2>4. clock \in Nat \ {0} /\ shift \in Int /\ due \in Nat /\ quiet \in Nat /\ tapped \in Nat /\ shift \in -120..120
    OBVIOUS
  <2>8. astray \in BOOLEAN
    OBVIOUS
  <2>7. click \in BOOLEAN
    OBVIOUS
  <2>5. rowAt \in [busy : BOOLEAN, done : BOOLEAN] /\ finger = <<>>
    OBVIOUS
  <2>6. g.dx \in -120..120
    BY <2>1
  <2> QED BY <2>1, <2>2, <2>3, <2>4, <2>5, <2>6, <2>7, <2>8 DEF SwipesTyped
<1>2. InTouch
  BY DEF InTouch, AtRest
<1>3. Unspent
  BY DEF Unspent
<1>4. Slides /\ Undragged
  BY DEF Slides, Undragged
<1> QED BY <1>1, <1>2, <1>3, <1>4 DEF SwipesInv

\* A finger is put down.
LEMMA DownStep == SwipesInv /\ Down => SwipesInv'
<1> SUFFICES ASSUME SwipesInv, Down PROVE SwipesInv'
  OBVIOUS
<1>0. SwipesTyped /\ InTouch /\ Unspent /\ Slides /\ Undragged
  BY DEF SwipesInv
<1>1. PICK x \in Spot, y \in Height : finger' = [x |-> x, y |-> y]
  BY DEF Down
<1>2. /\ tally.left > 0 /\ ~click /\ tally' = [tally EXCEPT !.left = @ - 1]
      /\ UNCHANGED <<place, clock, shift, click, tapped, rowAt, astray>>
      /\ \/ /\ place = "pager" \/ (Enabled /\ Unclaimed)
            /\ \E x0 \in Spot, y0 \in Height : g' = [AtRest EXCEPT !.active = TRUE, !.x0 = x0, !.y0 = y0, !.lastX = x0, !.lastT = Now]
            /\ quiet' = 0 /\ due' = 0
         \/ ~(place = "pager" \/ (Enabled /\ Unclaimed)) /\ UNCHANGED <<g, quiet, due>>
  BY DEF Down
<1>3. /\ tally' \in Tally /\ tally'.acts = tally.acts /\ tally'.may = tally.may /\ tally'.swiper = tally.swiper
      /\ tally'.left = tally.left - 1 /\ tally.left \in 1..MaxTouches
  BY <1>0, <1>2, OneLess DEF SwipesTyped
<1>4. finger' # <<>> /\ Touch' = Touch + 1 /\ Touch' \in 1..MaxTouches /\ Touch \in 0..MaxTouches /\ Now' = Now
  <2>1. finger' # <<>>
    BY <1>1, NoFinger
  <2>2. Touch' = Touch + 1 /\ Touch' \in 1..MaxTouches /\ Touch \in 0..MaxTouches
    BY <1>3, SwipesAssumption DEF Touch
  <2>3. Now' = Now
    BY <1>2 DEF Now
  <2> QED BY <2>1, <2>2, <2>3
<1>t. /\ tally.acts \in [1..MaxTouches -> Nat] /\ tally.swiper \in 0..MaxTouches
  BY <1>0, TallyIs DEF SwipesTyped
<1>5. SwipesTyped'
  <2>1. g' \in Gesture /\ g'.dx \in {0, g.dx}
    <3>1. CASE UNCHANGED g
      BY <1>0, <3>1 DEF SwipesTyped
    <3>2. CASE ~UNCHANGED g
      <4>1. PICK x0 \in Spot, y0 \in Height, n \in Int :
              g' = [active |-> TRUE, engaged |-> FALSE, locked |-> FALSE, x0 |-> x0, y0 |-> y0, dx |-> 0, fast |-> 0, lastX |-> x0, lastT |-> n]
        <5>1. Now \in Int
          BY <1>0 DEF SwipesTyped, Now, Tick
        <5> QED BY <1>2, <3>2, <5>1 DEF AtRest
      <4>2. x0 \in Int /\ y0 \in Int
        BY SwipesAssumption
      <4> QED BY <4>1, <4>2 DEF Gesture
    <3> QED BY <3>1, <3>2
  <2>2. due' \in {0, due} /\ quiet' \in {0, quiet}
    BY <1>2
  <2>3. finger' \in [x : Spot, y : Height]
    BY <1>1
  <2>4. due' \in Nat /\ quiet' \in Nat
    BY <1>0, <2>2 DEF SwipesTyped
  <2>5. UNCHANGED <<place, clock, shift, click, tapped, rowAt, astray>>
    BY <1>2
  <2>6. place' # "pager" => g'.dx \in -120..120
    <3>1. place # "pager" => g.dx \in -120..120
      BY <1>0 DEF SwipesTyped
    <3> QED BY <2>1, <2>5, <3>1
  <2> QED BY <1>0, <1>3, <2>1, <2>3, <2>4, <2>5, <2>6 DEF SwipesTyped
<1>6. InTouch'
  <2>1. tally'.swiper < Touch' /\ Touch' > 0
    BY <1>0, <1>3, <1>4, <1>t DEF InTouch
  <2>2. Touch' \in 0..MaxTouches /\ tally'.swiper <= Touch'
    BY <1>3, <1>4, <1>t, <2>1, SwipesAssumption
  <2>3. ~click'
    BY <1>2
  <2> QED BY <1>4, <2>1, <2>2, <2>3 DEF InTouch
<1>7. Unspent'
  <2>1. \A n \in 1..MaxTouches : tally'.acts[n] <= 1 /\ (n > Touch' => tally'.acts[n] = 0)
    BY <1>0, <1>3, <1>4 DEF Unspent
  <2>2. tally'.acts[Touch'] = 0
    BY <1>0, <1>3, <1>4 DEF Unspent
  <2> QED BY <1>2, <2>1, <2>2 DEF Unspent
<1>8. Slides'
  <2>1. place = "pager" \/ g'.active => due' = 0
    BY <1>0, <1>2 DEF Slides, Unclaimed
  <2>2. due' = due \/ due' = 0
    BY <1>2
  <2> QED BY <1>0, <1>2, <1>3, <1>4, <2>1, <2>2 DEF Slides
<1>9. Undragged'
  BY <1>0, <1>2, <1>3, <1>4 DEF Undragged
<1> QED BY <1>2, <1>4, <1>5, <1>6, <1>7, <1>8, <1>9 DEF SwipesInv

\* What the parts of the invariant say of numbers.
LEMMA SwipesFacts ==
  ASSUME SwipesInv
  PROVE  /\ Touch \in 0..MaxTouches /\ tally.left \in 0..MaxTouches
         /\ tally.acts \in [1..MaxTouches -> Nat] /\ tally.may \subseteq 1..MaxTouches /\ tally.swiper \in 0..MaxTouches
         /\ Now \in Nat /\ Now >= Tick /\ due \in Nat /\ quiet \in Nat /\ tapped \in Nat /\ clock \in Nat
<1>1. SwipesTyped
  BY DEF SwipesInv
<1>2. tally \in Tally /\ clock \in Nat \ {0} /\ due \in Nat /\ quiet \in Nat /\ tapped \in Nat
  BY <1>1 DEF SwipesTyped
<1>3. Now \in Nat /\ Now >= Tick
  BY <1>2 DEF Now, Tick
<1>4. Touch \in 0..MaxTouches
  BY <1>2, TallyIs, SwipesAssumption DEF Touch
<1> QED BY <1>2, <1>3, <1>4, TallyIs

\* A row that is dragged stays within its limits.
LEMMA ResistIs ==
  ASSUME NEW raw \in Int, SwipesTyped
  PROVE  Resist(raw) \in Int /\ (place # "pager" => Resist(raw) \in -120..120)
<1>1. CASE place = "pantry"
  <2>1. Resist(raw) = IF raw > 0 THEN 0 ELSE IF raw < -120 THEN -120 ELSE raw
    BY <1>1 DEF Resist
  <2> QED BY <2>1
<1>2. CASE place = "grocery"
  <2>1. Resist(raw) = IF raw < 0 THEN 0 ELSE IF raw > 120 THEN 120 ELSE raw
    BY <1>2 DEF Resist
  <2> QED BY <2>1
<1>3. CASE place = "pager"
  <2>1. Resist(raw) = (raw * 11) \div 20
    BY <1>3 DEF Resist
  <2> QED BY <2>1, <1>3
<1> QED BY <1>1, <1>2, <1>3 DEF SwipesTyped

\* Where the finger was and when is told by numbers.
LEMMA FollowedIs ==
  ASSUME NEW x \in Spot, SwipesTyped
  PROVE  /\ Followed(x) \in Gesture /\ Followed(x).active = g.active
         /\ place # "pager" => Followed(x).dx \in -120..120
<1> PICK gg \in Gesture : gg = g
  BY DEF SwipesTyped
<1>1. x \in Int /\ gg.x0 \in Int /\ gg.lastX \in Int /\ gg.lastT \in Int /\ gg.fast \in Int /\ clock \in Nat
  BY SwipesAssumption DEF Gesture, SwipesTyped
<1>2. Now \in Int
  BY <1>1 DEF Now, Tick
<1>3. PICK r \in Int : r = Resist(x - gg.x0) /\ (place # "pager" => r \in -120..120)
  <2>1. x - gg.x0 \in Int
    BY <1>1
  <2> QED BY <2>1, ResistIs
<1>4. PICK f \in Int : f = IF Now - gg.lastT > 0 THEN IF Flicks(x - gg.lastX, Now - gg.lastT) THEN Sign(x - gg.lastX) ELSE 0 ELSE gg.fast
  <2>1. Sign(x - gg.lastX) \in Int
    BY DEF Sign
  <2> QED BY <2>1, <1>1
<1>5. Followed(x) = [gg EXCEPT !.engaged = TRUE, !.lastX = x, !.lastT = Now, !.dx = r, !.fast = f]
  BY <1>3, <1>4 DEF Followed
<1>6. PICK now \in Int : now = Now
  BY <1>2
<1>7. Followed(x) = [gg EXCEPT !.engaged = TRUE, !.lastX = x, !.lastT = now, !.dx = r, !.fast = f]
  BY <1>5, <1>6
<1>8. [gg EXCEPT !.engaged = TRUE, !.lastX = x, !.lastT = now, !.dx = r, !.fast = f] \in Gesture
  BY <1>1 DEF Gesture
<1>9. /\ [gg EXCEPT !.engaged = TRUE, !.lastX = x, !.lastT = now, !.dx = r, !.fast = f].active = gg.active
      /\ [gg EXCEPT !.engaged = TRUE, !.lastX = x, !.lastT = now, !.dx = r, !.fast = f].dx = r
  BY DEF Gesture
<1> QED BY <1>3, <1>7, <1>8, <1>9

\* Where nothing happens but to finger and gesture, what may act stays as it is.
LEMMA DragKeeps ==
  ASSUME SwipesInv, UNCHANGED <<place, clock, due, quiet, click, tapped, rowAt, astray, tally>>,
         finger # <<>>, finger' # <<>>, g'.active => g.active
  PROVE  InTouch' /\ Unspent' /\ Slides' /\ Undragged'
<1>1. InTouch /\ Unspent /\ Slides /\ Undragged
  BY DEF SwipesInv
<1>2. Touch' = Touch /\ Now' = Now /\ Swallowed' = Swallowed
  BY DEF Touch, Now, Swallowed
<1>3. InTouch'
  BY <1>1, <1>2 DEF InTouch
<1>4. Unspent'
  BY <1>1, <1>2 DEF Unspent
<1>5. Slides'
  BY <1>1, <1>2 DEF Slides
<1>6. Undragged'
  BY <1>1, <1>2 DEF Undragged
<1> QED BY <1>3, <1>4, <1>5, <1>6

\* A gesture at rest.
LEMMA RestIs == AtRest \in Gesture /\ AtRest.active = FALSE /\ AtRest.engaged = FALSE /\ AtRest.dx = 0 /\ 0 \in -120..120
  BY DEF AtRest, Gesture

\* It moves, and the row or the pane follows or lets it go.
LEMMA MoveStep == SwipesInv /\ Move => SwipesInv'
<1> SUFFICES ASSUME SwipesInv, Move PROVE SwipesInv'
  OBVIOUS
<1>0. SwipesTyped
  BY DEF SwipesInv
<1>1. PICK x \in Spot, y \in Height :
        /\ finger # <<>> /\ finger' = [x |-> x, y |-> y]
        /\ UNCHANGED <<place, clock, due, quiet, click, tapped, rowAt, astray, tally>>
        /\ CASE ~g.active \/ g.locked -> UNCHANGED <<g, shift>>
             [] g.active /\ ~g.locked /\ ~Enabled -> g' = AtRest /\ shift' = 0
             [] g.active /\ ~g.locked /\ Enabled ->
                  /\ g' = CASE Decides(x, y) = "follows" -> Followed(x)
                            [] Decides(x, y) = "scrolls" -> [g EXCEPT !.locked = TRUE]
                            [] Decides(x, y) = "waits" -> g
                  /\ shift' = g'.dx
  BY DEF Move
<1>2. PICK gg \in Gesture : gg = g
  BY <1>0 DEF SwipesTyped
<1>2a. PICK lock \in Gesture : lock = [gg EXCEPT !.locked = TRUE] /\ lock.active = gg.active /\ lock.dx = gg.dx
  <2>1. [gg EXCEPT !.locked = TRUE] \in Gesture
    BY DEF Gesture
  <2>2. [gg EXCEPT !.locked = TRUE].active = gg.active
    BY DEF Gesture
  <2>3. [gg EXCEPT !.locked = TRUE].dx = gg.dx
    BY DEF Gesture
  <2> QED BY <2>1, <2>2, <2>3
<1>4. Decides(x, y) \in {"follows", "scrolls", "waits"}
  BY DEF Decides
<1>5. \/ g' = g /\ shift' = shift
      \/ g' = AtRest /\ shift' = 0
      \/ g' \in {Followed(x), lock, gg} /\ shift' = g'.dx
  BY <1>1, <1>2, <1>2a, <1>4
<1>6. /\ g' \in Gesture /\ (g'.active => g.active)
      /\ place # "pager" => g'.dx \in -120..120
  <2>1. place # "pager" => gg.dx \in -120..120
    BY <1>0, <1>2 DEF SwipesTyped
  <2>2. Followed(x) \in Gesture /\ Followed(x).active = gg.active /\ (place # "pager" => Followed(x).dx \in -120..120)
    BY <1>0, <1>2, FollowedIs
  <2>3. CASE g' = AtRest
    BY <2>3, RestIs
  <2>4. CASE g' = Followed(x)
    BY <2>2, <2>4, <1>2
  <2>5. CASE g' \in {lock, gg}
    BY <2>5, <2>1, <1>2, <1>2a
  <2> QED BY <1>2, <1>5, <2>3, <2>4, <2>5
<1>7. shift' \in Int /\ (place # "pager" => shift' \in -120..120 \cup (IF place = "pantry" THEN {Away} ELSE {}))
  <2>1. g'.dx \in Int
    BY <1>6 DEF Gesture
  <2>2. shift \in Int /\ (place # "pager" => shift \in -120..120 \cup (IF place = "pantry" THEN {Away} ELSE {}))
    BY <1>0 DEF SwipesTyped
  <2> QED BY <1>5, <1>6, <2>1, <2>2
<1>8. finger' # <<>> /\ finger' \in [x : Spot, y : Height]
  BY <1>1, NoFinger
<1>9. SwipesTyped'
  <2>1. /\ UNCHANGED <<place, clock, due, quiet, click, tapped, rowAt, astray, tally>>
    BY <1>1
  <2> QED BY <1>0, <1>6, <1>7, <1>8, <2>1 DEF SwipesTyped
<1> QED BY <1>1, <1>6, <1>8, <1>9, DragKeeps DEF SwipesInv

\* The kinds of the state after a finger is lifted.
LEMMA LiftedTyped ==
  ASSUME SwipesInv, NEW c, Lifted(c), tally' \in Tally, quiet' \in Nat, click' \in BOOLEAN
  PROVE  SwipesTyped'
<1>1. SwipesTyped
  BY DEF SwipesInv
<1>2. finger' = <<>> /\ g' = AtRest /\ UNCHANGED <<place, clock, tapped, rowAt>>
  BY DEF Lifted
<1>2a. shift' = shift \/ shift' = 0 \/ (place = "pantry" /\ shift' = Away)
  BY DEF Lifted
<1>2b. astray' \in BOOLEAN
  BY DEF Lifted
<1>3. due' \in Nat
  <2>1. due' = due \/ due' = Now + SlideTime
    BY DEF Lifted
  <2> QED BY <2>1, SwipesFacts DEF SlideTime
<1>4. g' \in Gesture /\ g'.dx \in -120..120
  BY <1>2, RestIs
<1>5. shift' \in Int /\ (place # "pager" => shift' \in -120..120 \cup (IF place = "pantry" THEN {Away} ELSE {}))
  <2>1. shift \in Int /\ (place # "pager" => shift \in -120..120 \cup (IF place = "pantry" THEN {Away} ELSE {}))
    BY <1>1 DEF SwipesTyped
  <2>2. CASE shift' = shift
    BY <1>2, <2>1, <2>2
  <2>3. CASE shift' = 0
    BY <1>2, <2>3
  <2>4. CASE place = "pantry" /\ shift' = Away
    BY <1>2, <2>4 DEF Away
  <2> QED BY <1>2a, <2>2, <2>3, <2>4
<1> QED BY <1>1, <1>2, <1>2b, <1>3, <1>4, <1>5 DEF SwipesTyped

\* A row is let go.
LEMMA UpRowStep == SwipesInv /\ Up /\ place # "pager" => SwipesInv'
<1> SUFFICES ASSUME SwipesInv, Up, place # "pager" PROVE SwipesInv'
  OBVIOUS
<1>0. SwipesTyped /\ InTouch /\ Unspent /\ Slides /\ Undragged
  BY DEF SwipesInv
<1> DEFINE S == g.active /\ Enabled /\ Committed
           m == IF (Enabled /\ Committed) \/ ~g.engaged THEN tally.may \cup {Touch} ELSE tally.may
           s == IF S THEN Touch ELSE tally.swiper
<1>1. /\ Lifted(Enabled /\ Committed) /\ finger # <<>> /\ finger' = <<>> /\ g' = AtRest
      /\ quiet' = (IF place = "pantry" /\ g.engaged THEN Now + ClickWindow ELSE quiet)
      /\ click' \in BOOLEAN
      /\ due' = (IF S THEN Now + SlideTime ELSE due)
      /\ UNCHANGED <<place, clock, tapped, rowAt>>
      /\ tally' = [tally EXCEPT !.may = m, !.swiper = s]
  BY DEF Up, Lifted
<1>2. /\ Touch \in 1..MaxTouches /\ tally.swiper < Touch /\ tally.acts[Touch] = 0
      /\ tally.swiper \in 0..MaxTouches /\ tally.may \subseteq 1..MaxTouches
  BY <1>0, <1>1, SwipesFacts DEF InTouch, Unspent
<1>3. tally' \in Tally /\ tally'.left = tally.left /\ tally'.acts = tally.acts /\ tally'.may = m /\ tally'.swiper = s
  <2>1. m \in SUBSET (1..MaxTouches) /\ s \in 0..MaxTouches
    BY <1>2, SwipesAssumption
  <2>2. tally \in Tally
    BY <1>0 DEF SwipesTyped
  <2>3. tally' = [tally EXCEPT !.may = m, !.swiper = s]
    BY <1>1
  <2> HIDE DEF m, s
  <2>4. PICK t \in Tally, mm \in SUBSET (1..MaxTouches), ss \in 0..MaxTouches : t = tally /\ mm = m /\ ss = s
    BY <2>1, <2>2
  <2>5. tally' = [t EXCEPT !.may = mm, !.swiper = ss]
    BY <2>3, <2>4
  <2>6. tally' \in Tally /\ tally'.left = t.left /\ tally'.acts = t.acts /\ tally'.may = mm /\ tally'.swiper = ss
    BY ONLY <2>4, <2>5 DEF Tally
  <2> QED BY <2>4, <2>6
<1>4. Touch' = Touch /\ Now' = Now
  BY <1>1, <1>3 DEF Touch, Now
<1>5. quiet' \in Nat
  BY <1>1, SwipesFacts DEF ClickWindow
<1>6. SwipesTyped'
  BY <1>1, <1>3, <1>5, LiftedTyped
<1>7. InTouch'
  <2>1. s <= Touch
    BY <1>2, SwipesAssumption
  <2> QED BY <1>0, <1>1, <1>2, <1>3, <1>4, <2>1, RestIs DEF InTouch
<1>8. Unspent'
  <2>1. \A n \in 1..MaxTouches : tally.acts[n] <= 1 /\ (n > Touch => tally.acts[n] = 0)
    BY <1>0 DEF Unspent
  <2> QED BY <1>1, <1>2, <1>3, <1>4, <2>1 DEF Unspent
<1>9. S => g.engaged
  BY DEF Committed
<1>10. Slides'
  <2>1. tapped' <= Now' /\ ~g'.active /\ tally.may \subseteq m
    BY <1>0, <1>1, <1>4, RestIs DEF Slides
  <2>2. CASE S
    <3>1. due' = Now + SlideTime /\ s = Touch /\ Touch \in m
      BY <1>1, <2>2
    <3>2. due' # 0 /\ due' > SlideTime /\ due' - SlideTime <= Now /\ Now < due' + Tick /\ Now < due'
      BY <3>1, SwipesFacts DEF SlideTime, Tick
    <3>3. place = "pantry" => Swallowed'
      <4> SUFFICES ASSUME place = "pantry" PROVE Swallowed'
        OBVIOUS
      <4>1. quiet' = Now + ClickWindow
        BY <1>1, <1>9, <2>2
      <4>2. quiet' # 0 /\ ~(Now > quiet')
        BY <4>1, SwipesFacts DEF ClickWindow
      <4> QED BY <1>4, <4>2 DEF Swallowed
    <3> HIDE DEF m, s
    <3> QED BY <1>1, <1>2, <1>3, <1>4, <2>1, <3>1, <3>2, <3>3, RestIs DEF Slides
  <2>3. CASE ~S
    <3>1. due' = due /\ s = tally.swiper
      BY <1>1, <2>3
    <3> HIDE DEF m, s, S
    <3> QED BY <1>0, <1>1, <1>2, <1>3, <1>4, <2>1, <3>1, SwipesFacts DEF Slides
  <2> QED BY <2>2, <2>3
<1>11. Undragged'
  <2>1. place = "pantry" /\ ~Swallowed' => Touch \in m
    <3> SUFFICES ASSUME place = "pantry", g.engaged PROVE Swallowed'
      OBVIOUS
    <3>1. quiet' = Now + ClickWindow
      BY <1>1
    <3>2. quiet' # 0 /\ ~(Now > quiet')
      BY <3>1, SwipesFacts DEF ClickWindow
    <3> QED BY <1>4, <3>2 DEF Swallowed
  <2>2. tally.may \subseteq m
    OBVIOUS
  <2> HIDE DEF m, s, S
  <2> QED BY <1>0, <1>1, <1>3, <1>4, <2>1, <2>2 DEF Undragged
<1> QED BY <1>1, <1>6, <1>7, <1>8, <1>10, <1>11 DEF SwipesInv

\* A pane is let go: it turns the page at once.
LEMMA UpPagerStep == SwipesInv /\ Up /\ place = "pager" => SwipesInv'
<1> SUFFICES ASSUME SwipesInv, Up, place = "pager" PROVE SwipesInv'
  OBVIOUS
<1>0. SwipesTyped /\ InTouch /\ Unspent /\ Slides /\ Undragged
  BY DEF SwipesInv
<1> DEFINE m == IF Committed THEN tally.may \cup {Touch} ELSE tally.may
<1>1. /\ Lifted(Enabled /\ Committed) /\ finger # <<>> /\ finger' = <<>> /\ g' = AtRest
      /\ quiet' = quiet /\ click' = FALSE /\ due' = due
      /\ UNCHANGED <<place, clock, tapped, rowAt>>
  BY DEF Up, Lifted
<1>2. PICK pages \in {0, 1} : /\ tally' = [tally EXCEPT !.acts[Touch] = @ + pages, !.may = m]
                              /\ ~Committed => pages = 0
  BY DEF Up
<1>3. /\ Touch \in 1..MaxTouches /\ tally.swiper < Touch /\ tally.acts[Touch] = 0
      /\ tally.swiper \in 0..MaxTouches /\ tally.may \subseteq 1..MaxTouches
  BY <1>0, <1>1, SwipesFacts DEF InTouch, Unspent
<1>4. /\ tally' \in Tally /\ tally'.left = tally.left /\ tally'.may = m /\ tally'.swiper = tally.swiper
      /\ \A i \in 1..MaxTouches : tally'.acts[i] = IF i = Touch THEN pages ELSE tally.acts[i]
  <2>1. m \in SUBSET (1..MaxTouches)
    BY <1>3
  <2>2. tally' = [tally EXCEPT !.acts[Touch] = pages, !.may = m]
    <3>1. tally.acts[Touch] + pages = pages
      BY <1>3
    <3> HIDE DEF m
    <3>2. tally \in Tally
      BY <1>0 DEF SwipesTyped
    <3> QED BY <1>2, <3>1, <3>2 DEF Tally
  <2> HIDE DEF m
  <2>3. pages \in Nat
    OBVIOUS
  <2>4. tally \in Tally
    BY <1>0 DEF SwipesTyped
  <2>5. PICK t \in Tally, mm \in SUBSET (1..MaxTouches), n \in 1..MaxTouches, k \in Nat : t = tally /\ mm = m /\ n = Touch /\ k = pages
    BY <1>3, <2>1, <2>3, <2>4
  <2>6. tally' = [t EXCEPT !.acts[n] = k, !.may = mm]
    BY <2>2, <2>5
  <2>7. /\ tally' \in Tally /\ tally'.left = t.left /\ tally'.may = mm /\ tally'.swiper = t.swiper
        /\ \A i \in 1..MaxTouches : tally'.acts[i] = IF i = n THEN k ELSE t.acts[i]
    BY ONLY <2>5, <2>6 DEF Tally
  <2> QED BY <2>5, <2>7
<1>5. Touch' = Touch /\ Now' = Now
  BY <1>1, <1>4 DEF Touch, Now
<1>6. SwipesTyped'
  <2>1. quiet' \in Nat /\ click' \in BOOLEAN
    BY <1>1, SwipesFacts
  <2> QED BY <1>1, <1>4, <2>1, LiftedTyped
<1>7. InTouch'
  BY <1>1, <1>3, <1>4, <1>5, RestIs, SwipesAssumption DEF InTouch
<1>8. Unspent'
  <2>1. \A n \in 1..MaxTouches : tally.acts[n] <= 1 /\ (n > Touch => tally.acts[n] = 0)
    BY <1>0 DEF Unspent
  <2>2. \A n \in 1..MaxTouches : tally'.acts[n] <= 1 /\ (n > Touch => tally'.acts[n] = 0)
    BY <1>3, <1>4, <2>1
  <2> QED BY <1>1, <1>5, <2>2 DEF Unspent
<1>9. Slides'
  <2>1. due = 0
    BY <1>0 DEF Slides
  <2> QED BY <1>0, <1>1, <1>5, <2>1 DEF Slides
<1>10. Undragged'
  <2>1. \A n \in (1..MaxTouches) \ m : tally'.acts[n] = 0
    <3>1. \A n \in (1..MaxTouches) \ tally.may : tally.acts[n] = 0
      BY <1>0 DEF Undragged
    <3> QED BY <1>2, <1>4, <3>1
  <2> HIDE DEF m
  <2> QED BY <1>1, <1>4, <2>1 DEF Undragged
<1> QED BY <1>1, <1>6, <1>7, <1>8, <1>9, <1>10 DEF SwipesInv

\* The browser takes the gesture.
LEMMA CancelStep == SwipesInv /\ Cancel => SwipesInv'
<1> SUFFICES ASSUME SwipesInv, Cancel PROVE SwipesInv'
  OBVIOUS
<1>0. SwipesTyped /\ InTouch /\ Unspent /\ Slides /\ Undragged
  BY DEF SwipesInv
<1>1. /\ Lifted(FALSE) /\ finger # <<>> /\ finger' = <<>> /\ g' = AtRest
      /\ UNCHANGED <<quiet, click, due, place, clock, tapped, rowAt, tally>>
  BY DEF Cancel, Lifted, Aborted
<1>2. Touch' = Touch /\ Now' = Now /\ Swallowed' = Swallowed
  BY <1>1 DEF Touch, Now, Swallowed
<1>3. SwipesTyped'
  <2>1. tally' \in Tally /\ quiet' \in Nat /\ click' \in BOOLEAN
    BY <1>0, <1>1 DEF SwipesTyped
  <2> QED BY <1>1, <2>1, LiftedTyped
<1>4. InTouch'
  BY <1>0, <1>1, <1>2, RestIs DEF InTouch
<1>5. Unspent'
  BY <1>0, <1>1, <1>2 DEF Unspent
<1>6. Slides'
  BY <1>0, <1>1, <1>2, RestIs DEF Slides
<1>7. Undragged'
  BY <1>0, <1>1, <1>2 DEF Undragged
<1> QED BY <1>1, <1>3, <1>4, <1>5, <1>6, <1>7 DEF SwipesInv

\* A row acts, or is locked.
LEMMA ActsIs ==
  ASSUME SwipesInv, NEW n \in 1..MaxTouches, Acts(n)
  PROVE  /\ place # "pager"
         /\ rowAt' \in [busy : BOOLEAN, done : BOOLEAN] /\ tapped' \in Nat /\ tapped' <= Now /\ tapped <= tapped'
         /\ tally' \in Tally /\ tally'.left = tally.left /\ tally'.may = tally.may /\ tally'.swiper = tally.swiper
         /\ \/ UNCHANGED <<tapped, rowAt, tally>>
            \/ /\ ~(place = "grocery" /\ tapped # 0 /\ Now - tapped < Debounce) /\ tapped' = Now
               /\ \A i \in 1..MaxTouches : tally'.acts[i] = IF i = n THEN tally.acts[i] + 1 ELSE tally.acts[i]
<1>1. SwipesTyped /\ tapped <= Now /\ place # "pager"
  BY DEF SwipesInv, Slides, Acts
<1>2. PICK t \in Tally : t = tally
  BY <1>1 DEF SwipesTyped
<1>3. CASE UNCHANGED <<tapped, rowAt, tally>>
  BY <1>1, <1>3, SwipesFacts DEF SwipesTyped
<1>4. CASE ~UNCHANGED <<tapped, rowAt, tally>>
  <2>1. /\ ~(place = "grocery" /\ tapped # 0 /\ Now - tapped < Debounce) /\ tapped' = Now
        /\ rowAt' = [busy |-> TRUE, done |-> TRUE]
        /\ tally' = [t EXCEPT !.acts[n] = @ + 1]
    BY <1>2, <1>4 DEF Acts
  <2>2. /\ tally' \in Tally /\ tally'.left = t.left /\ tally'.may = t.may /\ tally'.swiper = t.swiper
        /\ \A i \in 1..MaxTouches : tally'.acts[i] = IF i = n THEN t.acts[i] + 1 ELSE t.acts[i]
    <3>0. t.acts[n] \in Nat
      BY TallyIs
    <3>1. PICK k \in 1..MaxTouches, one \in Nat : k = n /\ one = t.acts[n] + 1
      BY <3>0
    <3>2. tally' = [t EXCEPT !.acts[k] = one]
      BY <2>1, <3>1
    <3>3. /\ tally' \in Tally /\ tally'.left = t.left /\ tally'.may = t.may /\ tally'.swiper = t.swiper
          /\ \A i \in 1..MaxTouches : tally'.acts[i] = IF i = k THEN one ELSE t.acts[i]
      BY ONLY <1>2, <3>1, <3>2 DEF Tally
    <3> QED BY <3>1, <3>3
  <2>3. rowAt' \in [busy : BOOLEAN, done : BOOLEAN]
    BY <2>1
  <2>4. tapped' \in Nat /\ tapped' <= Now /\ tapped <= tapped'
    BY <1>1, <2>1, SwipesFacts
  <2> QED BY <1>1, <1>2, <2>1, <2>2, <2>3, <2>4
<1> QED BY <1>3, <1>4

\* The kinds of the state after a row has acted, or not.
LEMMA ActedTyped ==
  ASSUME SwipesInv, NEW n \in 1..MaxTouches, Acts(n), UNCHANGED <<place, clock, finger, g, shift>>, due' \in Nat, quiet' \in Nat, click' \in BOOLEAN, astray' \in BOOLEAN
  PROVE  SwipesTyped'
<1>1. SwipesTyped
  BY DEF SwipesInv
<1>2. rowAt' \in [busy : BOOLEAN, done : BOOLEAN] /\ tapped' \in Nat /\ tally' \in Tally
  BY ActsIs
<1> QED BY <1>1, <1>2 DEF SwipesTyped

\* The click that a touch becomes.
LEMMA ClickStep == SwipesInv /\ Click => SwipesInv'
<1> SUFFICES ASSUME SwipesInv, Click PROVE SwipesInv'
  OBVIOUS
<1>0. SwipesTyped /\ InTouch /\ Unspent /\ Slides /\ Undragged
  BY DEF SwipesInv
<1>1. /\ click /\ click' = FALSE /\ quiet' = 0
      /\ UNCHANGED <<place, clock, finger, g, shift, due, astray>> /\ astray' \in BOOLEAN
  BY <1>0 DEF Click, SwipesTyped
<1>2. /\ Touch \in 1..MaxTouches /\ finger = <<>> /\ finger' = <<>> /\ tally.acts[Touch] = 0 /\ Now' = Now
      /\ tally.swiper \in 0..MaxTouches /\ tally.swiper <= Touch
  BY <1>0, <1>1, SwipesFacts DEF InTouch, Unspent, SwipesInv, Now
<1>3. CASE Swallowed
  <2>1. UNCHANGED <<tapped, rowAt, tally>>
    BY <1>3 DEF Click
  <2>2. Touch' = Touch
    BY <2>1 DEF Touch
  <2>3. SwipesTyped'
    <3>1. click' \in BOOLEAN /\ quiet' \in Nat
      BY <1>1
    <3> QED BY <1>0, <1>1, <2>1, <3>1 DEF SwipesTyped
  <2>4. InTouch'
    BY <1>0, <1>1, <2>1, <2>2 DEF InTouch
  <2>5. Unspent'
    BY <1>0, <1>1, <2>1, <2>2 DEF Unspent
  <2>6. Slides'
    BY <1>0, <1>1, <1>2, <2>1, <2>2 DEF Slides
  <2>7. Undragged'
    BY <1>0, <1>1, <2>1, <2>2 DEF Undragged
  <2> QED BY <1>2, <2>3, <2>4, <2>5, <2>6, <2>7 DEF SwipesInv
<1>4. CASE ~Swallowed
  <2>1. Acts(Touch)
    BY <1>4 DEF Click
  <2>2. /\ place # "pager" /\ tapped' \in Nat /\ tapped' <= Now /\ tapped <= tapped'
        /\ tally'.left = tally.left /\ tally'.may = tally.may /\ tally'.swiper = tally.swiper
        /\ \/ UNCHANGED <<tapped, rowAt, tally>>
           \/ /\ tapped' = Now
              /\ \A i \in 1..MaxTouches : tally'.acts[i] = IF i = Touch THEN tally.acts[i] + 1 ELSE tally.acts[i]
    BY <1>2, <2>1, ActsIs
  <2>3. Touch' = Touch
    BY <2>2 DEF Touch
  <2>4. SwipesTyped'
    <3>1. due' \in Nat /\ quiet' \in Nat /\ click' \in BOOLEAN
      BY <1>1, SwipesFacts
    <3> QED BY <1>1, <1>2, <2>1, <3>1, ActedTyped
  <2>5. InTouch'
    BY <1>0, <1>1, <2>2, <2>3 DEF InTouch
  <2>6. Unspent'
    <3>1. \A n \in 1..MaxTouches : tally.acts[n] <= 1 /\ (n > Touch => tally.acts[n] = 0)
      BY <1>0 DEF Unspent
    <3>2. \A n \in 1..MaxTouches : tally'.acts[n] <= 1 /\ (n > Touch => tally'.acts[n] = 0)
      BY <1>2, <2>2, <3>1
    <3> QED BY <1>1, <1>2, <2>3, <3>2 DEF Unspent
  <2>7. Slides'
    <3>1. place = "pager" \/ g'.active => due' = 0
      BY <1>0, <1>1 DEF Slides
    <3>2. ASSUME due # 0
          PROVE  /\ tally.swiper > 0 /\ tally.swiper \in tally.may /\ due > SlideTime /\ due - SlideTime <= Now /\ Now < due + Tick
                 /\ tally'.acts[tally.swiper] = 0 \/ (place = "grocery" /\ due - SlideTime <= tapped')
      <4>1. /\ tally.swiper > 0 /\ tally.swiper \in tally.may /\ due > SlideTime /\ due - SlideTime <= Now /\ Now < due + Tick
            /\ tally.acts[tally.swiper] = 0 \/ (place = "grocery" /\ due - SlideTime <= tapped)
            /\ tally.swiper = Touch => place # "pantry"
        BY <1>0, <1>1, <1>4, <3>2 DEF Slides
      <4>2. CASE UNCHANGED <<tapped, rowAt, tally>>
        BY <4>1, <4>2
      <4>3. CASE tapped' = Now /\ place = "grocery"
        BY <4>1, <4>3
      <4>4. CASE place = "pantry" /\ ~UNCHANGED <<tapped, rowAt, tally>>
        <5>1. tally.swiper # Touch /\ tally.swiper \in 1..MaxTouches /\ tally.acts[tally.swiper] = 0
          BY <1>2, <4>1, <4>4
        <5> QED BY <2>2, <4>1, <4>4, <5>1
      <4> QED BY <1>0, <2>2, <4>2, <4>3, <4>4 DEF SwipesTyped
    <3> QED BY <1>1, <1>2, <2>2, <2>3, <3>1, <3>2 DEF Slides
  <2>8. Undragged'
    <3>1. place = "pantry" => Touch \in tally.may
      BY <1>0, <1>1, <1>4 DEF Undragged
    <3>2. place # "grocery" => \A n \in (1..MaxTouches) \ tally.may : tally'.acts[n] = 0
      <4>1. place # "grocery" => \A n \in (1..MaxTouches) \ tally.may : tally.acts[n] = 0
        BY <1>0 DEF Undragged
      <4>2. place # "grocery" => place = "pantry"
        BY <1>0, <2>2 DEF SwipesTyped
      <4> QED BY <2>2, <3>1, <4>1, <4>2
    <3> QED BY <1>1, <2>2, <3>2 DEF Undragged
  <2> QED BY <1>2, <2>4, <2>5, <2>6, <2>7, <2>8 DEF SwipesInv
<1> QED BY <1>3, <1>4

\* The slide of a swipe is over.
LEMMA SlideStep == SwipesInv /\ SlideOver => SwipesInv'
<1> SUFFICES ASSUME SwipesInv, SlideOver PROVE SwipesInv'
  OBVIOUS
<1>0. SwipesTyped /\ InTouch /\ Unspent /\ Slides /\ Undragged
  BY DEF SwipesInv
<1>1. /\ due # 0 /\ ~(Now < due) /\ due' = 0 /\ Acts(tally.swiper)
      /\ UNCHANGED <<place, clock, finger, g, shift, quiet, click>> /\ astray' \in BOOLEAN
  <2>1. due # 0 /\ Now >= due /\ due' = 0 /\ Acts(tally.swiper) /\ astray' \in BOOLEAN
        /\ UNCHANGED <<place, clock, finger, g, shift, quiet, click>>
    BY DEF SlideOver
  <2> QED BY <2>1, SwipesFacts
<1>2. /\ tally.swiper \in 1..MaxTouches /\ tally.swiper \in tally.may
      /\ ~(click /\ tally.swiper = Touch)
      /\ due > SlideTime /\ due - SlideTime <= Now /\ Now < due + Tick
      /\ tally.acts[tally.swiper] = 0 \/ (place = "grocery" /\ due - SlideTime <= tapped)
  BY <1>0, <1>1, SwipesFacts DEF Slides
<1>3. /\ place # "pager" /\ tapped' \in Nat /\ tapped' <= Now /\ tapped <= tapped'
      /\ tally'.left = tally.left /\ tally'.may = tally.may /\ tally'.swiper = tally.swiper
      /\ \/ UNCHANGED <<tapped, rowAt, tally>>
         \/ /\ ~(place = "grocery" /\ tapped # 0 /\ Now - tapped < Debounce)
            /\ \A i \in 1..MaxTouches : tally'.acts[i] = IF i = tally.swiper THEN tally.acts[i] + 1 ELSE tally.acts[i]
  BY <1>1, <1>2, ActsIs
<1>4. tally.acts[tally.swiper] = 0 \/ UNCHANGED tally
  <2> SUFFICES ASSUME place = "grocery", due - SlideTime <= tapped, ~UNCHANGED tally PROVE FALSE
    BY <1>2
  <2>1. ~(tapped # 0 /\ Now - tapped < Debounce)
    BY <1>3
  <2>2. CASE tapped = 0
    BY <1>2, <2>2, SwipesFacts DEF SlideTime
  <2>3. CASE tapped # 0
    <3>1. Now - tapped < Debounce
      BY <1>2, SwipesFacts DEF SlideTime, Tick, Debounce
    <3> QED BY <2>1, <2>3, <3>1
  <2> QED BY <2>2, <2>3
<1>5. Touch' = Touch /\ Now' = Now /\ Swallowed' = Swallowed
  BY <1>1, <1>3 DEF Touch, Now, Swallowed
<1>6. SwipesTyped'
  <2>1. due' \in Nat /\ quiet' \in Nat /\ click' \in BOOLEAN
    BY <1>0, <1>1 DEF SwipesTyped
  <2> QED BY <1>1, <1>2, <2>1, ActedTyped
<1>7. InTouch'
  BY <1>0, <1>1, <1>3, <1>5 DEF InTouch
<1>8. \A i \in 1..MaxTouches : tally'.acts[i] = tally.acts[i] \/ (i = tally.swiper /\ tally.acts[i] = 0 /\ tally'.acts[i] = 1)
  BY <1>2, <1>3, <1>4
<1>9. Unspent'
  <2>1. \A n \in 1..MaxTouches : tally.acts[n] <= 1 /\ (n > Touch => tally.acts[n] = 0)
    BY <1>0 DEF Unspent
  <2>2. tally.swiper <= Touch /\ (finger # <<>> => tally.swiper < Touch /\ Touch > 0) /\ (click => Touch > 0)
    BY <1>0 DEF InTouch
  <2>3. \A n \in 1..MaxTouches : tally'.acts[n] <= 1 /\ (n > Touch => tally'.acts[n] = 0)
    BY <1>2, <1>8, <2>1, <2>2, SwipesFacts
  <2>4. finger' # <<>> => tally'.acts[Touch] = 0
    BY <1>0, <1>1, <1>2, <1>8, <2>2, SwipesFacts DEF Unspent
  <2>5. click' => tally'.acts[Touch] = 0
    BY <1>0, <1>1, <1>2, <1>8, <2>2, SwipesFacts DEF Unspent
  <2> QED BY <1>5, <2>3, <2>4, <2>5 DEF Unspent
<1>10. Slides'
  BY <1>1, <1>3, <1>5 DEF Slides
<1>11. Undragged'
  <2>1. place # "grocery" => \A n \in (1..MaxTouches) \ tally.may : tally'.acts[n] = 0
    BY <1>0, <1>2, <1>8 DEF Undragged
  <2> QED BY <1>0, <1>1, <1>3, <1>5, <2>1 DEF Undragged
<1> QED BY <1>1, <1>6, <1>7, <1>9, <1>10, <1>11 DEF SwipesInv

\* Where neither finger, gesture nor clock moves and at most the marks of the pantry's rows are forgotten, all stays well.
LEMMA RowKeeps ==
  ASSUME SwipesInv, UNCHANGED <<place, clock, finger, g, shift, due, quiet>>, click' = click \/ click' = FALSE,
         tapped' = tapped \/ tapped' = Now, astray' \in BOOLEAN,
         rowAt' \in [busy : BOOLEAN, done : BOOLEAN],
         tally' \in Tally, tally'.left = tally.left, tally'.may = tally.may, tally'.swiper = tally.swiper,
         \A i \in 1..MaxTouches : tally'.acts[i] = tally.acts[i] \/ tally'.acts[i] = 0
  PROVE  SwipesInv'
<1>0. SwipesTyped /\ InTouch /\ Unspent /\ Slides /\ Undragged
  BY DEF SwipesInv
<1>1. Touch' = Touch /\ Now' = Now /\ Swallowed' = Swallowed
  BY DEF Touch, Now, Swallowed
<1>2. SwipesTyped'
  <2>1. click' \in BOOLEAN
    BY <1>0 DEF SwipesTyped
  <2>2. tapped' \in Nat
    BY SwipesFacts
  <2> QED BY <1>0, <2>1, <2>2 DEF SwipesTyped
<1>3. click' => click
  BY <1>0 DEF SwipesTyped
<1>4. InTouch'
  BY <1>0, <1>1, <1>3 DEF InTouch
<1>5. Unspent'
  <2>1. \A n \in 1..MaxTouches : tally.acts[n] <= 1 /\ (n > Touch => tally.acts[n] = 0)
    BY <1>0 DEF Unspent
  <2>2. \A n \in 1..MaxTouches : tally'.acts[n] <= 1 /\ (n > Touch => tally'.acts[n] = 0)
    BY <2>1
  <2>3. (finger # <<>> => Touch \in 1..MaxTouches) /\ (click => Touch \in 1..MaxTouches)
    BY <1>0, SwipesFacts DEF InTouch
  <2>4. (finger # <<>> \/ click) => tally'.acts[Touch] = 0
    BY <1>0, <2>3 DEF Unspent
  <2> QED BY <1>1, <1>3, <2>2, <2>4 DEF Unspent
<1>6. Slides'
  <2>1. due # 0 => tally.swiper \in 1..MaxTouches
    BY <1>0, SwipesFacts DEF Slides
  <2>2. due # 0 => tally'.acts[tally.swiper] = 0 \/ (place = "grocery" /\ due - SlideTime <= tapped)
    BY <1>0, <2>1 DEF Slides
  <2>3. tapped <= tapped' /\ tapped' <= Now /\ tapped' \in Nat
    BY <1>0, SwipesFacts DEF Slides
  <2>4. due # 0 => tally'.acts[tally.swiper] = 0 \/ (place = "grocery" /\ due - SlideTime <= tapped')
    BY <2>2, <2>3, SwipesFacts DEF SlideTime
  <2> QED BY <1>0, <1>1, <1>3, <2>3, <2>4 DEF Slides
<1>7. Undragged'
  BY <1>0, <1>1, <1>3 DEF Undragged
<1> QED BY <1>0, <1>2, <1>4, <1>5, <1>6, <1>7 DEF SwipesInv

\* The touch became no click.
LEMMA NoClickStep == SwipesInv /\ NoClick => SwipesInv'
<1> SUFFICES ASSUME SwipesInv, NoClick PROVE SwipesInv'
  OBVIOUS
<1>1. click' = FALSE /\ UNCHANGED <<place, clock, finger, g, shift, due, quiet, tapped, rowAt, astray, tally>>
  BY DEF NoClick
<1>2. astray' \in BOOLEAN /\ tally' \in Tally /\ rowAt' \in [busy : BOOLEAN, done : BOOLEAN]
  BY <1>1 DEF SwipesInv, SwipesTyped
<1> QED BY <1>1, <1>2, RowKeeps

\* The row is another one: busy or not, done or not.
LEMMA RowIsKeeps ==
  ASSUME SwipesInv, NEW b \in BOOLEAN, NEW d \in BOOLEAN, RowIs(b, d)
  PROVE  /\ rowAt' \in [busy : BOOLEAN, done : BOOLEAN] /\ astray' \in BOOLEAN /\ (tapped' = tapped \/ tapped' = Now)
         /\ UNCHANGED <<place, clock, finger, g, shift, due, quiet, click>>
  BY DEF RowIs

\* The call of a row is answered: the row may act anew.
LEMMA RowAnsweredStep == SwipesInv /\ RowAnswered => SwipesInv'
<1> SUFFICES ASSUME SwipesInv, RowAnswered PROVE SwipesInv'
  OBVIOUS
<1>1. PICK d \in BOOLEAN : RowIs(FALSE, d)
  BY DEF RowAnswered
<1>2. /\ rowAt' \in [busy : BOOLEAN, done : BOOLEAN] /\ astray' \in BOOLEAN /\ (tapped' = tapped \/ tapped' = Now)
      /\ UNCHANGED <<place, clock, finger, g, shift, due, quiet, click>>
  BY <1>1, RowIsKeeps
<1>3. PICK t \in Tally : t = tally
  BY DEF SwipesInv, SwipesTyped
<1>4. tally' = t \/ tally' = [t EXCEPT !.acts = [n \in DOMAIN t.acts |-> 0]]
  BY <1>3 DEF RowAnswered
<1>5. /\ tally' \in Tally /\ tally'.left = t.left /\ tally'.may = t.may /\ tally'.swiper = t.swiper
      /\ \A i \in 1..MaxTouches : tally'.acts[i] = t.acts[i] \/ tally'.acts[i] = 0
  <2>1. CASE tally' = t
    BY <2>1
  <2>2. CASE tally' = [t EXCEPT !.acts = [n \in DOMAIN t.acts |-> 0]]
    <3>1. PICK zero \in [1..MaxTouches -> Nat] : zero = [n \in DOMAIN t.acts |-> 0] /\ \A i \in 1..MaxTouches : zero[i] = 0
      <4>1. DOMAIN t.acts = 1..MaxTouches
        BY TallyIs
      <4>2. [n \in DOMAIN t.acts |-> 0] \in [1..MaxTouches -> Nat]
        BY <4>1
      <4>3. \A i \in 1..MaxTouches : [n \in DOMAIN t.acts |-> 0][i] = 0
        BY <4>1
      <4> QED BY <4>2, <4>3
    <3>2. tally' = [t EXCEPT !.acts = zero]
      BY <2>2, <3>1
    <3> QED BY ONLY <1>3, <3>1, <3>2 DEF Tally
  <2> QED BY <1>4, <2>1, <2>2
<1> QED BY <1>2, <1>3, <1>5, RowKeeps

\* The rows are read again, or one is put back by a button.
LEMMA ReplacedStep == SwipesInv /\ (Replaced \/ PutBack) => SwipesInv'
<1> SUFFICES ASSUME SwipesInv, Replaced \/ PutBack PROVE SwipesInv'
  OBVIOUS
<1>1. PICK b \in BOOLEAN, d \in BOOLEAN : RowIs(b, d) /\ UNCHANGED tally
  <2>1. rowAt.done \in BOOLEAN
    BY DEF SwipesInv, SwipesTyped
  <2> QED BY <2>1 DEF Replaced, PutBack
<1>2. tally' \in Tally /\ (\A i \in 1..MaxTouches : tally'.acts[i] = tally.acts[i])
  BY <1>1 DEF SwipesInv, SwipesTyped
<1> QED BY <1>1, <1>2, RowIsKeeps, RowKeeps

\* Time passes, unless a click or the end of a slide is due.
LEMMA PassesByStep == SwipesInv /\ Passes => SwipesInv'
<1> SUFFICES ASSUME SwipesInv, Passes PROVE SwipesInv'
  OBVIOUS
<1>0. SwipesTyped /\ InTouch /\ Unspent /\ Slides /\ Undragged
  BY DEF SwipesInv
<1>1. /\ ~click /\ (due # 0 => Now < due) /\ clock' = clock + 1
      /\ UNCHANGED <<place, finger, click, tapped, rowAt, tally>>
      /\ \/ UNCHANGED <<g, shift, due, quiet, astray>>
         \/ g' = AtRest /\ shift' = 0 /\ due' = 0 /\ quiet' = 0 /\ astray' = FALSE
  BY DEF Passes
<1>g. (g'.active => g.active) /\ (due' # 0 => due' = due) /\ (due = 0 => due' = 0)
  BY <1>1, RestIs
<1>2. Touch' = Touch /\ Now' = Now + Tick
  <2>1. clock \in Nat
    BY SwipesFacts
  <2> QED BY <1>1, <2>1 DEF Touch, Now, Tick
<1>3. SwipesTyped'
  <2>1. clock' \in Nat \ {0}
    BY <1>1, SwipesFacts
  <2>2. /\ g' \in Gesture /\ (place # "pager" => g'.dx \in -120..120) /\ due' \in Nat /\ quiet' \in Nat
        /\ shift' \in Int /\ (place # "pager" => shift' \in -120..120 \cup (IF place = "pantry" THEN {Away} ELSE {}))
    <3>1. CASE UNCHANGED <<g, shift, due, quiet>>
      BY <1>0, <1>1, <3>1 DEF SwipesTyped
    <3>2. CASE g' = AtRest /\ shift' = 0 /\ due' = 0 /\ quiet' = 0
      BY <1>1, <3>2, RestIs
    <3> QED BY <1>1, <3>1, <3>2
  <2>3. astray' \in BOOLEAN
    BY <1>0, <1>1 DEF SwipesTyped
  <2> QED BY <1>0, <1>1, <2>1, <2>2, <2>3 DEF SwipesTyped
<1>4. InTouch'
  BY <1>0, <1>1, <1>2, <1>g DEF InTouch
<1>5. Unspent'
  BY <1>0, <1>1, <1>2 DEF Unspent
<1>6. Slides'
  <2>1. tapped <= Now + Tick
    BY <1>0, SwipesFacts DEF Slides, Tick
  <2>2. due # 0 => due - SlideTime <= Now + Tick /\ Now + Tick < due + Tick
    BY <1>0, <1>1, SwipesFacts DEF Slides, Tick, SlideTime
  <2> QED BY <1>0, <1>1, <1>2, <1>g, <2>1, <2>2 DEF Slides
<1>7. Undragged'
  BY <1>0, <1>1, <1>2 DEF Undragged
<1> QED BY <1>0, <1>1, <1>3, <1>4, <1>5, <1>6, <1>7 DEF SwipesInv

\* Every step keeps the invariant.
LEMMA SwipesStep == SwipesInv /\ [SwipesNext]_swipeVars => SwipesInv'
<1> SUFFICES ASSUME SwipesInv, [SwipesNext]_swipeVars PROVE SwipesInv'
  OBVIOUS
<1>1. CASE UNCHANGED swipeVars
  <2>1. UNCHANGED <<place, clock, finger, g, shift, due, quiet, click, tapped, rowAt, astray, tally>>
    BY <1>1 DEF swipeVars
  <2>2. astray' \in BOOLEAN /\ tally' \in Tally /\ rowAt' \in [busy : BOOLEAN, done : BOOLEAN]
    BY <2>1 DEF SwipesInv, SwipesTyped
  <2> QED BY <2>1, <2>2, RowKeeps
<1>2. CASE Down
  BY <1>2, DownStep
<1>3. CASE Move
  BY <1>3, MoveStep
<1>4. CASE Up
  BY <1>4, UpRowStep, UpPagerStep
<1>5. CASE Cancel
  BY <1>5, CancelStep
<1>6. CASE Click \/ NoClick
  BY <1>6, ClickStep, NoClickStep
<1>7. CASE SlideOver \/ Passes
  BY <1>7, SlideStep, PassesByStep
<1>8. CASE RowAnswered \/ Replaced \/ PutBack
  BY <1>8, RowAnsweredStep, ReplacedStep
<1> QED BY <1>1, <1>2, <1>3, <1>4, <1>5, <1>6, <1>7, <1>8 DEF SwipesNext

\* What is shown to the side while no gesture moves it: in the pantry a row that slides, has left or went astray;
\* nothing once its element has gone.
Offside ==
  /\ ~g.active /\ shift # 0 => place = "pantry" /\ (due # 0 \/ rowAt.done \/ astray)
  /\ ~Mounted => shift = 0 /\ ~g.active
  /\ ~g.engaged => g.dx = 0
  /\ place = "pager" /\ ~g.engaged => shift = 0

\* Nothing is, at the start.
LEMMA OffsideInitially == SwipesInit => Offside
  BY DEF SwipesInit, Offside, AtRest, Mounted, Lasts

\* A finger touches a row that is there.
LEMMA OffsideDown == SwipesInv /\ Offside /\ Down => Offside'
<1> SUFFICES ASSUME SwipesInv, Offside, Down PROVE Offside'
  OBVIOUS
<1>1. /\ Mounted /\ finger = <<>> /\ UNCHANGED <<place, clock, shift, tapped, rowAt, astray>>
      /\ \/ UNCHANGED <<g, due>>
         \/ \E x0 \in Spot, y0 \in Height : g' = [AtRest EXCEPT !.active = TRUE, !.x0 = x0, !.y0 = y0, !.lastX = x0, !.lastT = Now]
  BY DEF Down
<1>2. UNCHANGED <<g, due>> \/ (g'.active /\ g'.dx = 0 /\ ~g'.engaged)
  BY <1>1 DEF AtRest
<1>3. Mounted'
  BY <1>1 DEF Mounted, Lasts, Now
<1>4. ~g.active
  BY <1>1 DEF SwipesInv, InTouch
<1>5. place = "pager" => shift = 0
  BY <1>4 DEF Offside
<1> QED BY <1>1, <1>2, <1>3, <1>5 DEF Offside

\* It moves.
LEMMA OffsideMove == SwipesInv /\ Offside /\ Move => Offside'
<1> SUFFICES ASSUME SwipesInv, Offside, Move PROVE Offside'
  OBVIOUS
<1>1. PICK x \in Spot, y \in Height :
        /\ UNCHANGED <<place, clock, due, tapped, rowAt, astray>>
        /\ \/ UNCHANGED <<g, shift>>
           \/ g' = AtRest /\ shift' = 0
           \/ g.active /\ shift' = g'.dx /\ g' \in {Followed(x), [g EXCEPT !.locked = TRUE], g}
  <2>1. \A x \in Spot, y \in Height : Decides(x, y) \in {"follows", "scrolls", "waits"}
    BY DEF Decides
  <2> QED BY <2>1 DEF Move
<1>2. Mounted' = Mounted
  BY <1>1 DEF Mounted, Lasts, Now
<1>3. PICK gg \in Gesture : gg = g
  BY DEF SwipesInv, SwipesTyped
<1>4. CASE UNCHANGED <<g, shift>>
  BY <1>1, <1>2, <1>4 DEF Offside
<1>5. CASE g' = AtRest /\ shift' = 0
  BY <1>1, <1>2, <1>5, RestIs DEF Offside
<1>6. CASE g.active /\ shift' = g'.dx /\ g' \in {Followed(x), [g EXCEPT !.locked = TRUE], g}
  <2>1. Mounted
    BY <1>6 DEF Offside
  <2>2. [gg EXCEPT !.locked = TRUE].active = gg.active /\ [gg EXCEPT !.locked = TRUE].dx = gg.dx /\ [gg EXCEPT !.locked = TRUE].engaged = gg.engaged
    BY DEF Gesture
  <2>3. Followed(x).engaged = TRUE /\ Followed(x).active = g.active
    <3>1. Followed(x) = [gg EXCEPT !.engaged = TRUE, !.lastX = x, !.lastT = Followed(x).lastT, !.dx = Followed(x).dx, !.fast = Followed(x).fast]
      BY <1>3 DEF Followed, Gesture
    <3> QED BY <1>3, <3>1 DEF Gesture
  <2>4. g'.active /\ (~g'.engaged => g'.dx = 0)
    BY <1>3, <1>6, <2>2, <2>3 DEF Offside
  <2> QED BY <1>1, <1>2, <1>6, <2>1, <2>4 DEF Offside
<1> QED BY <1>1, <1>4, <1>5, <1>6

\* It is lifted.
LEMMA OffsideLift == SwipesInv /\ Offside /\ (Up \/ Cancel) => Offside'
<1> SUFFICES ASSUME SwipesInv, Offside, Up \/ Cancel PROVE Offside'
  OBVIOUS
<1>1. PICK c \in BOOLEAN : Lifted(c)
  <2>1. (Enabled /\ Committed) \in BOOLEAN /\ Aborted \in BOOLEAN
    BY DEF Aborted
  <2>2. CASE Up
    BY <2>1, <2>2 DEF Up
  <2>3. CASE Cancel
    BY <2>1, <2>3 DEF Cancel
  <2> QED BY <2>2, <2>3
<1>2. /\ g' = AtRest /\ UNCHANGED <<place, clock, tapped, rowAt>> /\ astray' = (astray /\ ~g.active)
      /\ due' = (IF g.active /\ c /\ place # "pager" THEN Now + SlideTime ELSE due)
      /\ shift' = IF ~g.active \/ (place = "pager" /\ ~g.engaged) THEN shift
                  ELSE IF c /\ place = "pantry" THEN Away ELSE 0
  BY <1>1 DEF Lifted
<1>3. Mounted' = Mounted
  BY <1>2 DEF Mounted, Lasts, Now
<1>4. Now + SlideTime # 0
  BY SwipesFacts DEF SlideTime
<1>5. CASE ~g.active
  BY <1>2, <1>3, <1>5, RestIs DEF Offside
<1>6. CASE g.active
  <2>1. Mounted
    BY <1>6 DEF Offside
  <2>2. shift' # 0 => place = "pantry" /\ due' # 0
    BY <1>2, <1>4, <1>6 DEF Offside
  <2> QED BY <1>2, <1>3, <2>1, <2>2, RestIs DEF Offside
<1> QED BY <1>5, <1>6

\* It acts, by a click or once its slide is over.
LEMMA OffsideAct == SwipesInv /\ Offside /\ (Click \/ NoClick \/ SlideOver) => Offside'
<1> SUFFICES ASSUME SwipesInv, Offside, Click \/ NoClick \/ SlideOver PROVE Offside'
  OBVIOUS
<1>1. /\ UNCHANGED <<place, clock, g, shift>>
      /\ \/ UNCHANGED <<due, astray>>
         \/ due # 0 /\ due' = 0 /\ astray' = (astray \/ rowAt.busy)
              /\ \/ tapped' = Now /\ rowAt' = [busy |-> TRUE, done |-> TRUE]
                 \/ (rowAt.busy \/ ~Mounted \/ place = "grocery") /\ UNCHANGED <<tapped, rowAt>>
      /\ UNCHANGED <<tapped, rowAt>> \/ (tapped' = Now /\ rowAt' = [busy |-> TRUE, done |-> TRUE])
  BY DEF Click, NoClick, SlideOver, Acts
<1>2. ~Mounted' => ~Mounted
  <2>1. CASE UNCHANGED <<tapped, rowAt>>
    BY <1>1, <2>1 DEF Mounted, Lasts, Now
  <2>2. CASE tapped' = Now
    BY <1>1, <2>2, SwipesFacts DEF Mounted, Lasts, Now, ExitTime
  <2> QED BY <1>1, <2>1, <2>2
<1>3. due # 0 => ~g.active
  BY DEF SwipesInv, Slides, InTouch
<1>4. ~Mounted => rowAt.done
  BY DEF Mounted, Lasts
<1>5. ~g.active /\ shift # 0 => due' # 0 \/ rowAt'.done \/ astray'
  <2> SUFFICES ASSUME ~g.active, shift # 0 PROVE due' # 0 \/ rowAt'.done \/ astray'
    OBVIOUS
  <2>1. place = "pantry" /\ (due # 0 \/ rowAt.done \/ astray)
    BY DEF Offside
  <2>2. rowAt.done => rowAt'.done
    BY <1>1
  <2>3. CASE UNCHANGED <<due, astray>>
    BY <2>1, <2>2, <2>3
  <2>4. CASE ~UNCHANGED <<due, astray>>
    <3>1. astray' = (astray \/ rowAt.busy) /\ (rowAt'.done \/ rowAt.busy \/ ~Mounted)
      BY <1>1, <2>1, <2>4
    <3> QED BY <1>4, <2>2, <3>1
  <2> QED BY <2>3, <2>4
<1> QED BY <1>1, <1>2, <1>5 DEF Offside

\* The row is another one under it.
LEMMA OffsideRow == SwipesInv /\ Offside /\ (RowAnswered \/ Replaced \/ PutBack) => Offside'
<1> SUFFICES ASSUME SwipesInv, Offside, RowAnswered \/ Replaced \/ PutBack PROVE Offside'
  OBVIOUS
<1>0. rowAt.done \in BOOLEAN
  BY DEF SwipesInv, SwipesTyped
<1>1. PICK b \in BOOLEAN, d \in BOOLEAN : RowIs(b, d)
  BY <1>0 DEF RowAnswered, Replaced, PutBack
<1>2. /\ rowAt' = [busy |-> b, done |-> d] /\ UNCHANGED <<place, clock, g, shift, due>>
      /\ tapped' = (IF place = "pantry" /\ d /\ ~rowAt.done THEN Now ELSE tapped)
      /\ astray' = (astray \/ (place = "pantry" /\ shift # 0 /\ rowAt.done /\ ~d /\ Mounted))
  BY <1>1 DEF RowIs
<1>3. ~Mounted' => ~Mounted
  <2>1. CASE tapped' = tapped /\ (place = "pantry" /\ d => rowAt.done)
    <3>1. place' = place /\ Now' = Now /\ rowAt'.done = d
      BY <1>2 DEF Now
    <3> HIDE DEF Now
    <3> QED BY <2>1, <3>1 DEF Mounted, Lasts
  <2>2. CASE tapped' = Now
    BY <1>2, <2>2, SwipesFacts DEF Mounted, Lasts, Now, ExitTime
  <2> QED BY <1>0, <1>2, <2>1, <2>2
<1>4. ~g.active /\ shift # 0 => place = "pantry" /\ (due' # 0 \/ rowAt'.done \/ astray')
  BY <1>2 DEF Offside
<1> QED BY <1>2, <1>3, <1>4 DEF Offside

\* Time passes, and the element of a row that has left may go.
LEMMA OffsidePasses == SwipesInv /\ Offside /\ Passes => Offside'
<1> SUFFICES ASSUME SwipesInv, Offside, Passes PROVE Offside'
  OBVIOUS
<1>1. Now' = Now + Tick
  <2>1. clock' = clock + 1 /\ clock \in Nat
    BY SwipesFacts DEF Passes
  <2> QED BY <2>1 DEF Now, Tick
<1>2. UNCHANGED <<place, tapped, rowAt>>
  BY DEF Passes
<1>3. CASE Lasts(Now + Tick)
  <2>1. UNCHANGED <<g, shift, due, astray>>
    BY <1>3 DEF Passes
  <2>2. Mounted'
    BY <1>1, <1>2, <1>3 DEF Mounted, Lasts
  <2> QED BY <1>2, <2>1, <2>2 DEF Offside
<1>4. CASE ~Lasts(Now + Tick)
  <2>1. g' = AtRest /\ shift' = 0
    BY <1>4 DEF Passes
  <2> QED BY <2>1, RestIs DEF Offside
<1> QED BY <1>3, <1>4

\* Every step keeps that.
LEMMA OffsideStep == SwipesInv /\ Offside /\ [SwipesNext]_swipeVars => Offside'
<1> SUFFICES ASSUME SwipesInv, Offside, [SwipesNext]_swipeVars PROVE Offside'
  OBVIOUS
<1>1. CASE UNCHANGED swipeVars
  BY <1>1 DEF swipeVars, Offside, Mounted, Lasts, Now
<1>2. CASE SwipesNext
  BY <1>2, OffsideDown, OffsideMove, OffsideLift, OffsideAct, OffsideRow, OffsidePasses DEF SwipesNext
<1> QED BY <1>1, <1>2

\* What the invariant says of touches.
LEMMA SwipesPromised == SwipesInv /\ Offside => SwipesTypeOK /\ SwipesOnce
<1> SUFFICES ASSUME SwipesInv, Offside PROVE SwipesTypeOK /\ SwipesOnce
  OBVIOUS
<1>1. SwipesTypeOK
  <2>1. place # "pager" => g.dx \in -120..120 /\ shift \in -120..120 \cup (IF place = "pantry" THEN {Away} ELSE {})
    BY DEF SwipesInv, SwipesTyped
  <2> QED BY <2>1, SwipesFacts DEF SwipesTypeOK
<1>2. SwipesOnce
  BY DEF SwipesInv, Unspent, Undragged, Offside, SwipesOnce
<1> QED BY <1>1, <1>2

\* What is under the finger, what has come of each touch and what is shown, for any spots and times.
THEOREM SwipesInvariant == SwipesSpec => [](SwipesInv /\ Offside)
<1> QED BY SwipesInitially, OffsideInitially, SwipesStep, OffsideStep, PTL DEF SwipesSpec

\* A touch acts once at most, as a swipe or as a tap, in whatever order slide, click, answer and read of the
\* rows come; what was given up does not act in the pantry and turns no page; and what no gesture moves is shown
\* to the side only in the pantry, while its slide or its leaving is under way or after one of the two went astray
\* (swipe-gesture.ts, swipe-action.ts, SlotPane.svelte, pantry-checklist App.svelte).
THEOREM SwipesOnceHolds == SwipesSpec => [](SwipesTypeOK /\ SwipesOnce)
<1> QED BY SwipesInvariant, SwipesPromised, PTL

(***************************************************************************)
(* The pantry's drawer, for any rows: what flies, hides and is locked.     *)
(***************************************************************************)

Clone == [of : Item, n : Nat, hides : BOOLEAN, arrived : BOOLEAN]
DrawerCall == [what : {"out", "restock", "clear", "read"}, of : Item \cup {0}, live : BOOLEAN, n : Nat]
PantryRow == [stock : BOOLEAN, busy : BOOLEAN]

\* The kinds of the state.
DrawerTyped ==
  /\ DOMAIN rows \subseteq Item /\ rows \in [DOMAIN rows -> PantryRow]
  /\ drawer \in BOOLEAN /\ confirming \in BOOLEAN /\ flies \in BOOLEAN
  /\ clones \subseteq Clone /\ hidden \subseteq Item /\ offer \in Item \cup {0}
  /\ asked \subseteq DrawerCall
  /\ remains \in [acts : Nat, feeds : Nat]

\* An open drawer has something in it, and only that is cleared.
Opened == (drawer => OutOfStock(rows) # {}) /\ (confirming => drawer)

\* A row is invisible while a clone of it flies, and two clones of one row are remembered.
Aloft ==
  /\ \A i \in hidden : \E c \in clones : c.of = i
  /\ \A c \in clones : c.hides /\ ~c.arrived /\ c.of \notin crossed => c.of \in hidden
  /\ \A c, d \in clones : c.of = d.of => c = d \/ c.of \in crossed

\* A locked row has a call that is going to unlock it.
Unlocks(c) == c.what = "out" \/ (c.what = "restock" /\ c.live)
LockedHere == \A i \in DOMAIN rows : rows[i].busy => \E c \in asked : c.of = i /\ Unlocks(c)

DrawerInv == DrawerTyped /\ Opened /\ Aloft /\ LockedHere

\* What the parts of the invariant say, each by itself.
LEMMA DrawerFacts ==
  ASSUME DrawerInv
  PROVE  /\ DrawerTyped /\ Opened /\ Aloft /\ LockedHere
         /\ DOMAIN rows \subseteq Item /\ \A i \in DOMAIN rows : rows[i] \in PantryRow
         /\ \A c \in asked : c \in DrawerCall /\ c.of \in Item \cup {0} /\ c.live \in BOOLEAN
  BY DEF DrawerInv, DrawerTyped, DrawerCall

\* One of the counters goes down.
LEMMA ActedIs == DrawerTyped /\ Acted => remains' \in [acts : Nat, feeds : Nat] /\ remains.acts \in Nat
<1> SUFFICES ASSUME DrawerTyped, Acted PROVE remains' \in [acts : Nat, feeds : Nat] /\ remains.acts \in Nat
  OBVIOUS
<1>1. PICK r \in [acts : Nat, feeds : Nat] : r = remains
  BY DEF DrawerTyped
<1>2. r.acts > 0 /\ remains' = [r EXCEPT !.acts = @ - 1]
  BY <1>1 DEF Acted
<1>3. r.acts \in Nat /\ r.acts - 1 \in Nat
  BY <1>2
<1> QED BY <1>1, <1>2, <1>3

\* The rows are drawn: an open drawer has something in it.
LEMMA ShownOpened ==
  ASSUME Opened, NEW rs, NEW sure, sure => confirming, sure \in BOOLEAN, drawer \in BOOLEAN, Shown(rs, drawer, sure)
  PROVE  Opened' /\ rows' = rs /\ drawer' \in BOOLEAN /\ confirming' \in BOOLEAN
<1>1. /\ rows' = rs
      /\ drawer' = IF InStock(rs) = {} /\ OutOfStock(rs) # {} THEN TRUE ELSE IF OutOfStock(rs) = {} THEN FALSE ELSE drawer
      /\ confirming' = (sure /\ OutOfStock(rs) # {})
  BY DEF Shown, Calm
<1>2. OutOfStock(rows)' = OutOfStock(rs)
  BY <1>1 DEF OutOfStock, InStock
<1>3. drawer' \in BOOLEAN /\ confirming' \in BOOLEAN
  BY <1>1
<1>4. drawer' => OutOfStock(rs) # {}
  BY <1>1
<1>5. confirming' => drawer'
  BY <1>1 DEF Opened
<1> QED BY <1>1, <1>2, <1>3, <1>4, <1>5 DEF Opened

\* A row takes off, or none does.
LEMMA FlyAloft ==
  ASSUME DrawerTyped, Aloft, remains.acts \in Nat, NEW i \in Item, NEW v \in BOOLEAN, Fly(i, v) \/ Stays
  PROVE  Aloft' /\ clones' \subseteq Clone /\ hidden' \subseteq Item
<1>1. CASE Fly(i, v)
  <2>1. PICK c : c = [of |-> i, n |-> remains.acts, hides |-> v, arrived |-> FALSE]
    OBVIOUS
  <2>2. c \in Clone /\ c.of = i /\ c.hides = v /\ ~c.arrived
    BY <2>1 DEF Clone
  <2>3. /\ clones' = clones \cup {c} /\ hidden' = (IF v THEN hidden \cup {i} ELSE hidden)
        /\ crossed' = IF \E d \in clones : d.of = i THEN crossed \cup {i} ELSE crossed
    BY <1>1, <2>1 DEF Fly
  <2>4. \A d \in clones' : d.hides /\ ~d.arrived /\ d.of \notin crossed' => d.of \in hidden'
    BY <2>2, <2>3 DEF Aloft
  <2>5. \A d, e \in clones' : d.of = e.of => d = e \/ d.of \in crossed'
    BY <2>2, <2>3 DEF Aloft
  <2>6. \A j \in hidden' : \E d \in clones' : d.of = j
    BY <2>2, <2>3 DEF Aloft
  <2>7. clones' \subseteq Clone /\ hidden' \subseteq Item
    BY <2>2, <2>3 DEF DrawerTyped
  <2> QED BY <2>4, <2>5, <2>6, <2>7 DEF Aloft
<1>2. CASE Stays
  BY <1>2 DEF Stays, Aloft, DrawerTyped
<1> QED BY <1>1, <1>2

\* What is neither rows, clones nor calls.
LEMMA DrawerAsideStep ==
  ASSUME DrawerInv, UNCHANGED <<rows, flies, clones, hidden, asked, crossed>>, Opened',
         drawer' \in BOOLEAN, confirming' \in BOOLEAN, offer' \in Item \cup {0}, remains' \in [acts : Nat, feeds : Nat]
  PROVE  DrawerInv'
  BY DEF DrawerInv, DrawerTyped, Aloft, LockedHere, Unlocks

\* The drawer and the question.
LEMMA QuestionStep == DrawerInv /\ (ToggleDrawer \/ OnClear \/ CancelClear \/ ToastGone) => DrawerInv'
<1> SUFFICES ASSUME DrawerInv, ToggleDrawer \/ OnClear \/ CancelClear \/ ToastGone PROVE DrawerInv'
  OBVIOUS
<1>1. DrawerTyped /\ Opened /\ offer \in Item \cup {0} /\ drawer \in BOOLEAN /\ confirming \in BOOLEAN
  BY DrawerFacts DEF DrawerTyped
<1>2. remains' \in [acts : Nat, feeds : Nat]
  BY <1>1, ActedIs DEF ToggleDrawer, OnClear, CancelClear, ToastGone, DrawerTyped
<1>3. UNCHANGED <<rows, flies, clones, hidden, asked, crossed>> /\ offer' \in Item \cup {0}
  BY <1>1 DEF ToggleDrawer, OnClear, CancelClear, ToastGone
<1>4. OutOfStock(rows)' = OutOfStock(rows)
  BY <1>3 DEF OutOfStock, InStock
<1>5. Opened' /\ drawer' \in BOOLEAN /\ confirming' \in BOOLEAN
  <2>1. CASE ToggleDrawer
    <3>1. OutOfStock(rows) # {} /\ drawer' = ~drawer /\ confirming' = (confirming /\ drawer')
      BY <2>1 DEF ToggleDrawer
    <3>2. drawer' \in BOOLEAN /\ confirming' \in BOOLEAN /\ (confirming' => drawer')
      BY <1>1, <3>1
    <3> QED BY <1>4, <3>1, <3>2 DEF Opened
  <2>2. CASE OnClear \/ CancelClear \/ ToastGone
    <3>1. drawer' = drawer /\ ((confirming' = TRUE /\ drawer) \/ confirming' = FALSE \/ confirming' = confirming)
      BY <2>2 DEF OnClear, CancelClear, ToastGone
    <3>2. drawer' \in BOOLEAN /\ confirming' \in BOOLEAN
      BY <1>1, <3>1
    <3>3. confirming' => drawer'
      BY <1>1, <3>1 DEF Opened
    <3> QED BY <1>1, <1>4, <3>1, <3>2, <3>3 DEF Opened
  <2> QED BY <2>1, <2>2
<1> QED BY <1>2, <1>3, <1>5, DrawerAsideStep

\* Clear is asked for.
LEMMA ConfirmOutClearStep == DrawerInv /\ ConfirmOutClear => DrawerInv'
<1> SUFFICES ASSUME DrawerInv, ConfirmOutClear PROVE DrawerInv'
  OBVIOUS
<1>1. DrawerTyped /\ Opened /\ Aloft /\ LockedHere /\ drawer \in BOOLEAN
  BY DrawerFacts DEF DrawerTyped
<1>2. /\ UNCHANGED <<rows, drawer, flies, clones, hidden, offer, crossed>> /\ ~confirming' /\ confirming' \in BOOLEAN
      /\ Acted /\ asked' = asked \cup {Call("clear", 0)}
  BY DEF ConfirmOutClear
<1>3. remains' \in [acts : Nat, feeds : Nat] /\ remains.acts \in Nat
  BY <1>1, <1>2, ActedIs
<1>4. PICK c : c = Call("clear", 0)
  OBVIOUS
<1>5. c \in DrawerCall
  BY <1>3, <1>4 DEF Call, DrawerCall
<1>6. asked' = asked \cup {c}
  BY <1>2, <1>4
<1>7. DrawerTyped'
  BY <1>1, <1>2, <1>3, <1>5, <1>6 DEF DrawerTyped
<1>8. Opened'
  BY <1>1, <1>2 DEF Opened, OutOfStock, InStock
<1>9. Aloft'
  BY <1>1, <1>2 DEF Aloft
<1>10. LockedHere'
  BY <1>1, <1>2, <1>6 DEF LockedHere
<1> QED BY <1>7, <1>8, <1>9, <1>10 DEF DrawerInv

\* A row moves, locked by the call that moves it.
LEMMA MovesStep ==
  ASSUME DrawerInv, NEW i \in DOMAIN rows, NEW s \in BOOLEAN, NEW what \in {"out", "restock"}, NEW v \in BOOLEAN,
         Acted, Shown([rows EXCEPT ![i].stock = s, ![i].busy = TRUE], drawer, confirming),
         asked' = asked \cup {Call(what, i)}, Fly(i, v) \/ Stays,
         UNCHANGED flies, offer' \in Item \cup {0}
  PROVE  DrawerInv'
<1>1. /\ DrawerTyped /\ Opened /\ Aloft /\ LockedHere /\ drawer \in BOOLEAN /\ confirming \in BOOLEAN
      /\ DOMAIN rows \subseteq Item /\ rows \in [DOMAIN rows -> PantryRow] /\ i \in Item
  BY DrawerFacts DEF DrawerTyped
<1>2. remains' \in [acts : Nat, feeds : Nat] /\ remains.acts \in Nat
  BY <1>1, ActedIs
<1>3. PICK x \in PantryRow : x = rows[i]
  BY <1>1
<1>4. PICK y : y = [x EXCEPT !.stock = s, !.busy = TRUE]
  OBVIOUS
<1>5. y \in PantryRow
  BY ONLY x \in PantryRow, s \in BOOLEAN, <1>4 DEF PantryRow
<1>6. PICK rs : rs = [rows EXCEPT ![i] = y]
  OBVIOUS
<1>7. rs = [rows EXCEPT ![i].stock = s, ![i].busy = TRUE]
  BY <1>3, <1>4, <1>6
<1>8. Shown(rs, drawer, confirming)
  BY <1>7
<1>9. Opened' /\ rows' = rs /\ drawer' \in BOOLEAN /\ confirming' \in BOOLEAN
  BY <1>1, <1>8, ShownOpened
<1>10. DOMAIN rows' = DOMAIN rows /\ rows' \in [DOMAIN rows -> PantryRow] /\ \A j \in DOMAIN rows \ {i} : rows'[j] = rows[j]
  BY <1>1, <1>5, <1>6, <1>9
<1>11. PICK c : c = Call(what, i)
  OBVIOUS
<1>12. c = [what |-> what, of |-> i, live |-> TRUE, n |-> remains.acts]
  BY <1>11 DEF Call
<1>13. c \in DrawerCall /\ c.what = what /\ c.of = i /\ c.live
  BY ONLY <1>1, <1>2, <1>12, what \in {"out", "restock"} DEF DrawerCall
<1>14. asked' = asked \cup {c}
  BY <1>11
<1>15. Aloft' /\ clones' \subseteq Clone /\ hidden' \subseteq Item
  BY <1>1, <1>2, FlyAloft
<1>16. DrawerTyped'
  BY <1>1, <1>2, <1>9, <1>10, <1>13, <1>14, <1>15 DEF DrawerTyped
<1>17. LockedHere'
  <2> SUFFICES ASSUME NEW j \in DOMAIN rows, rows'[j].busy PROVE \E d \in asked' : d.of = j /\ Unlocks(d)
    BY <1>10 DEF LockedHere
  <2>1. CASE j = i
    BY <1>13, <1>14, <2>1 DEF Unlocks
  <2>2. CASE j # i
    BY <1>1, <1>10, <1>14, <2>2 DEF LockedHere
  <2> QED BY <2>1, <2>2
<1> QED BY <1>9, <1>15, <1>16, <1>17 DEF DrawerInv

\* Out of stock, by the button or a swipe.
LEMMA MarkOutStep == DrawerInv /\ MarkOut => DrawerInv'
<1> SUFFICES ASSUME DrawerInv, MarkOut PROVE DrawerInv'
  OBVIOUS
<1>1. PICK i \in InStock(rows), button \in BOOLEAN :
        /\ Acted
        /\ Shown([rows EXCEPT ![i].stock = FALSE, ![i].busy = TRUE], drawer, confirming)
        /\ asked' = asked \cup {Call("out", i)}
        /\ IF button /\ flies THEN Fly(i, drawer') ELSE Stays
        /\ UNCHANGED <<asks, flies, offer>>
  BY DEF MarkOut
<1>2. i \in DOMAIN rows /\ offer' \in Item \cup {0}
  BY <1>1, DrawerFacts DEF InStock, DrawerTyped
<1>3. drawer' \in BOOLEAN
  BY <1>1 DEF Shown, DrawerInv, DrawerTyped
<1>4. Fly(i, drawer') \/ Stays
  BY <1>1
<1>5. PICK v \in BOOLEAN : v = drawer'
  BY <1>3
<1>6. Fly(i, v) \/ Stays
  BY <1>4, <1>5
<1> QED BY <1>1, <1>2, <1>6, MovesStep

\* Home again, from the drawer or by an Undo.
LEMMA RestocksStep == ASSUME DrawerInv, NEW i \in Item, Restocks(i) PROVE DrawerInv'
<1>1. /\ DrawerTyped /\ Opened /\ Aloft /\ LockedHere /\ drawer \in BOOLEAN /\ confirming \in BOOLEAN
  BY DrawerFacts DEF DrawerTyped
<1>2. Acted /\ offer' = 0 /\ UNCHANGED <<asks, flies>> /\ offer' \in Item \cup {0}
  BY DEF Restocks
<1>3. remains' \in [acts : Nat, feeds : Nat] /\ remains.acts \in Nat
  BY <1>1, <1>2, ActedIs
<1>4. CASE i \in DOMAIN rows /\ rows[i].busy
  <2>1. UNCHANGED <<rows, drawer, confirming, asked, clones, hidden, crossed>>
    BY <1>4 DEF Restocks, Stays
  <2>2. Opened'
    BY <1>1, <2>1 DEF Opened, OutOfStock, InStock
  <2> QED BY <1>1, <1>2, <1>3, <2>1, <2>2, DrawerAsideStep
<1>5. CASE i \in DOMAIN rows /\ ~rows[i].busy
  <2>1. /\ Shown([rows EXCEPT ![i].stock = TRUE, ![i].busy = TRUE], drawer, confirming)
        /\ asked' = asked \cup {Call("restock", i)}
        /\ Fly(i, TRUE) \/ Stays
    BY <1>5 DEF Restocks
  <2>2. TRUE \in BOOLEAN /\ "restock" \in {"out", "restock"}
    OBVIOUS
  <2> QED BY <1>2, <1>5, <2>1, <2>2, MovesStep
<1>6. CASE i \notin DOMAIN rows
  <2>1. asked' = asked \cup {Call("restock", i)} /\ UNCHANGED <<rows, drawer, confirming, clones, hidden, crossed>>
    BY <1>6 DEF Restocks, Stays
  <2>2. PICK c : c = Call("restock", i)
    OBVIOUS
  <2>3. c = [what |-> "restock", of |-> i, live |-> TRUE, n |-> remains.acts]
    BY <2>2 DEF Call
  <2>4. c \in DrawerCall
    BY ONLY <1>3, <2>3, i \in Item DEF DrawerCall
  <2>5. asked' = asked \cup {c}
    BY <2>1, <2>2
  <2>6. DrawerTyped'
    BY <1>1, <1>2, <1>3, <2>1, <2>4, <2>5 DEF DrawerTyped
  <2>7. Opened' /\ Aloft'
    BY <1>1, <2>1 DEF Opened, Aloft, OutOfStock, InStock
  <2>8. LockedHere'
    BY <1>1, <2>1, <2>5 DEF LockedHere
  <2> QED BY <2>6, <2>7, <2>8 DEF DrawerInv
<1> QED BY <1>4, <1>5, <1>6

\* From the drawer, or by Undo.
LEMMA DrawerRestockStep == DrawerInv /\ (DrawerRestock \/ UndoOut) => DrawerInv'
<1> SUFFICES ASSUME DrawerInv, DrawerRestock \/ UndoOut PROVE DrawerInv'
  OBVIOUS
<1>1. PICK i \in Item : Restocks(i)
  BY DrawerFacts DEF DrawerRestock, UndoOut, OutOfStock, DrawerTyped
<1> QED BY <1>1, RestocksStep

\* A clone lands, and then is gone.
LEMMA ArriveStep == DrawerInv /\ Arrive => DrawerInv'
<1> SUFFICES ASSUME DrawerInv, Arrive PROVE DrawerInv'
  OBVIOUS
<1>1. DrawerTyped /\ Opened /\ Aloft /\ LockedHere
  BY DrawerFacts
<1>2. PICK c \in clones : /\ hidden' = hidden \ {c.of}
                         /\ clones' = (clones \ {c}) \cup {[d EXCEPT !.arrived = TRUE] : d \in {e \in {c} : ~e.arrived}}
                         /\ UNCHANGED <<rows, drawer, confirming, asks, flies, offer, asked, remains, crossed>>
  BY DEF Arrive, Arrived
<1>3. c \in Clone
  BY <1>1 DEF DrawerTyped
<1>4. PICK e : e = [c EXCEPT !.arrived = TRUE]
  OBVIOUS
<1>5. e \in Clone /\ e.of = c.of /\ e.arrived
  BY ONLY <1>3, <1>4 DEF Clone
<1>6. clones' = clones \ {c} \/ clones' = (clones \ {c}) \cup {e}
  <2>1. CASE c.arrived
    BY <1>2, <2>1
  <2>2. CASE ~c.arrived
    <3>1. {d \in {c} : ~d.arrived} = {c}
      BY <2>2
    <3>2. {[d EXCEPT !.arrived = TRUE] : d \in {c}} = {e}
      BY <1>4
    <3> QED BY <1>2, <3>1, <3>2
  <2> QED BY <2>1, <2>2
<1>7. DrawerTyped'
  BY <1>1, <1>2, <1>5, <1>6 DEF DrawerTyped
<1>8. Opened' /\ LockedHere'
  BY <1>1, <1>2 DEF Opened, LockedHere, OutOfStock, InStock
<1>9. Aloft'
  <2>1. \A i \in hidden' : \E d \in clones' : d.of = i
    BY <1>1, <1>2, <1>6 DEF Aloft
  <2>2. \A d \in clones' : d.hides /\ ~d.arrived /\ d.of \notin crossed => d.of \in hidden'
    BY <1>1, <1>2, <1>5, <1>6 DEF Aloft
  <2>3. \A d, k \in clones' : d.of = k.of => d = k \/ d.of \in crossed
    BY <1>1, <1>5, <1>6 DEF Aloft
  <2> QED BY <1>2, <2>1, <2>2, <2>3 DEF Aloft
<1> QED BY <1>7, <1>8, <1>9 DEF DrawerInv

\* A row is unlocked by the answer to a call.
LEMMA UnlockedStep ==
  ASSUME DrawerInv, NEW c \in asked, c.of \in DOMAIN rows, NEW y \in PantryRow, ~y.busy,
         Shown([rows EXCEPT ![c.of] = y], drawer, confirming), asked' = asked \ {c},
         UNCHANGED <<flies, clones, hidden, remains, crossed>>, offer' \in Item \cup {0}
  PROVE  DrawerInv'
<1>1. /\ DrawerTyped /\ Opened /\ Aloft /\ LockedHere /\ drawer \in BOOLEAN /\ confirming \in BOOLEAN
      /\ rows \in [DOMAIN rows -> PantryRow]
  BY DrawerFacts DEF DrawerTyped
<1>2. PICK i, rs : i = c.of /\ rs = [rows EXCEPT ![i] = y]
  OBVIOUS
<1>3. Opened' /\ rows' = rs /\ drawer' \in BOOLEAN /\ confirming' \in BOOLEAN
  BY <1>1, <1>2, ShownOpened
<1>4. DOMAIN rows' = DOMAIN rows /\ rows' \in [DOMAIN rows -> PantryRow]
      /\ rows'[i] = y /\ \A j \in DOMAIN rows \ {i} : rows'[j] = rows[j]
  BY <1>1, <1>2, <1>3
<1>5. DrawerTyped'
  BY <1>1, <1>3, <1>4 DEF DrawerTyped
<1>6. Aloft'
  BY <1>1 DEF Aloft
<1>7. LockedHere'
  <2> SUFFICES ASSUME NEW j \in DOMAIN rows, rows'[j].busy PROVE \E d \in asked' : d.of = j /\ Unlocks(d)
    BY <1>4 DEF LockedHere
  <2>1. j # i
    BY <1>4
  <2>2. PICK d \in asked : d.of = j /\ Unlocks(d)
    BY <1>1, <1>4, <2>1 DEF LockedHere
  <2> QED BY <1>2, <2>1, <2>2
<1> QED BY <1>3, <1>5, <1>6, <1>7 DEF DrawerInv

\* A call ends that unlocks no row, or one that is not there; another may take its place.
LEMMA CallEndsStep ==
  ASSUME DrawerInv, NEW c \in asked, Unlocks(c) => c.of \notin DOMAIN rows,
         \E more \in SUBSET DrawerCall : asked' = (asked \ {c}) \cup more,
         UNCHANGED <<rows, drawer, confirming, flies, clones, hidden, remains, crossed>>, offer' \in Item \cup {0}
  PROVE  DrawerInv'
<1>1. DrawerTyped /\ Opened /\ Aloft /\ LockedHere
  BY DrawerFacts
<1>2. DrawerTyped'
  BY <1>1 DEF DrawerTyped
<1>3. Opened' /\ Aloft'
  BY <1>1 DEF Opened, Aloft, OutOfStock, InStock
<1>4. LockedHere'
  <2> SUFFICES ASSUME NEW j \in DOMAIN rows, rows[j].busy PROVE \E d \in asked' : d.of = j /\ Unlocks(d)
    BY DEF LockedHere
  <2>1. PICK d \in asked : d.of = j /\ Unlocks(d)
    BY <1>1 DEF LockedHere
  <2> QED BY <2>1
<1> QED BY <1>2, <1>3, <1>4 DEF DrawerInv

\* Out of stock, or not.
LEMMA OutAnsweredStep == ASSUME DrawerInv, NEW c \in asked, OutAnswered(c) PROVE DrawerInv'
<1>1. /\ rows \in [DOMAIN rows -> PantryRow] /\ c.of \in Item \cup {0}
  BY DrawerFacts DEF DrawerTyped
<1>2. PICK ok \in BOOLEAN :
        /\ IF c.of \in DOMAIN rows
           THEN Shown([rows EXCEPT ![c.of].busy = FALSE, ![c.of].stock = IF ok THEN @ ELSE TRUE], drawer, confirming)
           ELSE UNCHANGED <<rows, drawer, confirming>>
        /\ offer' = IF ok THEN c.of ELSE 0
  BY Zenon DEF OutAnswered
<1>3. asked' = asked \ {c} /\ UNCHANGED <<flies, clones, hidden, remains, crossed>>
  BY DEF OutAnswered
<1>4. offer' \in Item \cup {0}
  BY <1>1, <1>2
<1>5. CASE c.of \in DOMAIN rows
  <2>1. PICK x \in PantryRow : x = rows[c.of]
    BY <1>1, <1>5
  <2>2. PICK y : y = [x EXCEPT !.busy = FALSE, !.stock = IF ok THEN x.stock ELSE TRUE]
    OBVIOUS
  <2>3. y \in PantryRow /\ ~y.busy
    BY ONLY x \in PantryRow, ok \in BOOLEAN, <2>2 DEF PantryRow
  <2>4. [rows EXCEPT ![c.of] = y] = [rows EXCEPT ![c.of].busy = FALSE, ![c.of].stock = IF ok THEN @ ELSE TRUE]
    BY ONLY x \in PantryRow, <1>1, <1>5, <2>1, <2>2 DEF PantryRow
  <2>5. Shown([rows EXCEPT ![c.of] = y], drawer, confirming)
    BY <1>2, <1>5, <2>4
  <2> QED BY <1>3, <1>4, <1>5, <2>3, <2>5, UnlockedStep
<1>6. CASE c.of \notin DOMAIN rows
  <2>1. UNCHANGED <<rows, drawer, confirming>> /\ {} \in SUBSET DrawerCall /\ asked' = (asked \ {c}) \cup {}
    BY <1>2, <1>3, <1>6
  <2> QED BY <1>3, <1>4, <1>6, <2>1, CallEndsStep
<1> QED BY <1>5, <1>6

\* Home again, or not.
LEMMA RestockAnsweredStep == ASSUME DrawerInv, NEW c \in asked, RestockAnswered(c) PROVE DrawerInv'
<1>1. /\ rows \in [DOMAIN rows -> PantryRow] /\ offer \in Item \cup {0}
  BY DrawerFacts DEF DrawerTyped
<1>2. PICK ok \in BOOLEAN :
        /\ IF c.of \in DOMAIN rows /\ c.live
           THEN Shown([rows EXCEPT ![c.of].busy = FALSE, ![c.of].stock = ok], drawer, confirming)
           ELSE UNCHANGED <<rows, drawer, confirming>>
        /\ offer' \in IF ok THEN {0, offer} ELSE {0}
  BY Zenon DEF RestockAnswered
<1>3. asked' = asked \ {c} /\ c.what = "restock" /\ UNCHANGED <<flies, clones, hidden, remains, crossed>>
  BY DEF RestockAnswered
<1>4. offer' \in Item \cup {0}
  BY <1>1, <1>2
<1>5. CASE c.of \in DOMAIN rows /\ c.live
  <2>1. PICK x \in PantryRow : x = rows[c.of]
    BY <1>1, <1>5
  <2>2. PICK y : y = [x EXCEPT !.busy = FALSE, !.stock = ok]
    OBVIOUS
  <2>3. y \in PantryRow /\ ~y.busy
    BY ONLY x \in PantryRow, ok \in BOOLEAN, <2>2 DEF PantryRow
  <2>4. [rows EXCEPT ![c.of] = y] = [rows EXCEPT ![c.of].busy = FALSE, ![c.of].stock = ok]
    BY ONLY x \in PantryRow, <1>1, <1>5, <2>1, <2>2 DEF PantryRow
  <2>5. Shown([rows EXCEPT ![c.of] = y], drawer, confirming)
    BY <1>2, <1>5, <2>4
  <2> QED BY <1>3, <1>4, <1>5, <2>3, <2>5, UnlockedStep
<1>6. CASE ~(c.of \in DOMAIN rows /\ c.live)
  <2>1. UNCHANGED <<rows, drawer, confirming>> /\ {} \in SUBSET DrawerCall /\ asked' = (asked \ {c}) \cup {}
    BY <1>2, <1>3, <1>6
  <2>2. Unlocks(c) => c.of \notin DOMAIN rows
    BY <1>3, <1>6 DEF Unlocks
  <2> QED BY <1>3, <1>4, <2>1, <2>2, CallEndsStep
<1> QED BY <1>5, <1>6

\* The list comes anew, with no row locked.
LEMMA ReceivesStep ==
  ASSUME DrawerInv, NEW rest \in SUBSET asked, Receives(rest), UNCHANGED <<flies, clones, hidden, crossed>>,
         offer' \in Item \cup {0}, remains' \in [acts : Nat, feeds : Nat]
  PROVE  DrawerInv'
<1>1. DrawerTyped /\ Opened /\ Aloft /\ LockedHere /\ drawer \in BOOLEAN
  BY DrawerFacts DEF DrawerTyped
<1>2. PICK here \in SUBSET Item, stock \in SUBSET Item :
        Shown([i \in here |-> [stock |-> i \in stock, busy |-> FALSE]], drawer, FALSE)
  BY DEF Receives
<1>3. PICK rs : rs = [i \in here |-> [stock |-> i \in stock, busy |-> FALSE]]
  OBVIOUS
<1>4. Shown(rs, drawer, FALSE)
  BY <1>2, <1>3
<1>5. FALSE \in BOOLEAN /\ (FALSE => confirming)
  OBVIOUS
<1>6. Opened' /\ rows' = rs /\ drawer' \in BOOLEAN /\ confirming' \in BOOLEAN
  BY <1>1, <1>4, <1>5, ShownOpened
<1>7. DOMAIN rs = here /\ rs \in [here -> PantryRow] /\ \A i \in here : ~rs[i].busy
  BY ONLY <1>3 DEF PantryRow
<1>8. asked' \subseteq DrawerCall
  <2>1. asked' = {IF c.what = "restock" THEN [c EXCEPT !.live = FALSE] ELSE c : c \in rest}
    BY DEF Receives
  <2>2. \A c \in DrawerCall : [c EXCEPT !.live = FALSE] \in DrawerCall
    BY DEF DrawerCall
  <2>3. rest \subseteq DrawerCall
    BY <1>1 DEF DrawerTyped
  <2> QED BY <2>1, <2>2, <2>3
<1>9. DrawerTyped'
  BY <1>1, <1>2, <1>6, <1>7, <1>8 DEF DrawerTyped
<1>10. Aloft' /\ LockedHere'
  BY <1>1, <1>6, <1>7 DEF Aloft, LockedHere
<1> QED BY <1>6, <1>9, <1>10 DEF DrawerInv

\* The host sends the list.
LEMMA ReceivePantryStep == DrawerInv /\ ReceivePantry => DrawerInv'
<1> SUFFICES ASSUME DrawerInv, ReceivePantry PROVE DrawerInv'
  OBVIOUS
<1>1. offer' \in Item \cup {0} /\ asked \in SUBSET asked
  BY DrawerFacts DEF ReceivePantry, DrawerTyped
<1>2. remains' \in [acts : Nat, feeds : Nat]
  <2>1. PICK r \in [acts : Nat, feeds : Nat] : r = remains
    BY DrawerFacts DEF DrawerTyped
  <2>2. r.feeds > 0 /\ remains' = [r EXCEPT !.feeds = @ - 1]
    BY <2>1 DEF ReceivePantry
  <2>3. r.feeds - 1 \in Nat
    BY <2>2
  <2> QED BY <2>2, <2>3
<1> QED BY <1>1, <1>2, ReceivesStep DEF ReceivePantry

\* Cleared, or to be read again.
LEMMA ClearAnsweredStep == ASSUME DrawerInv, NEW c \in asked, ClearAnswered(c) PROVE DrawerInv'
<1>1. c \in DrawerCall /\ offer \in Item \cup {0}
  BY DrawerFacts DEF DrawerTyped
<1>2. c.what = "clear" /\ UNCHANGED <<rows, drawer, confirming, flies, clones, hidden, remains, crossed>>
  BY DEF ClearAnswered
<1>3. PICK k : k = [c EXCEPT !.what = "read"]
  OBVIOUS
<1>4. k \in DrawerCall
  BY ONLY <1>1, <1>3 DEF DrawerCall
<1>5. \E more \in SUBSET DrawerCall : asked' = (asked \ {c}) \cup more
  <2>1. asked' = (asked \ {c}) \cup {} \/ asked' = (asked \ {c}) \cup {k}
    BY <1>3 DEF ClearAnswered
  <2> QED BY <1>4, <2>1
<1>6. offer' \in Item \cup {0}
  BY <1>1 DEF ClearAnswered
<1>7. ~Unlocks(c)
  BY <1>2 DEF Unlocks
<1> QED BY <1>2, <1>5, <1>6, <1>7, CallEndsStep

\* The list was read again, or could not be.
LEMMA RereadAnsweredStep == ASSUME DrawerInv, NEW c \in asked, RereadAnswered(c) PROVE DrawerInv'
<1>1. /\ DrawerTyped /\ Opened /\ Aloft /\ LockedHere /\ drawer \in BOOLEAN /\ confirming \in BOOLEAN
      /\ rows \in [DOMAIN rows -> PantryRow] /\ DOMAIN rows \subseteq Item
  BY DrawerFacts DEF DrawerTyped
<1>2. c.what = "read" /\ UNCHANGED <<flies, clones, hidden, offer, remains, crossed>>
  BY DEF RereadAnswered
<1>3. offer' \in Item \cup {0} /\ remains' \in [acts : Nat, feeds : Nat]
  BY <1>1, <1>2 DEF DrawerTyped
<1>4. CASE Receives(asked \ {c})
  <2>1. (asked \ {c}) \in SUBSET asked
    OBVIOUS
  <2> QED BY <1>2, <1>3, <1>4, <2>1, ReceivesStep
<1>5. CASE Shown([i \in InStock(rows) |-> rows[i]], drawer, confirming) /\ asked' = asked \ {c}
  <2>1. PICK rs : rs = [i \in InStock(rows) |-> rows[i]]
    OBVIOUS
  <2>2. Shown(rs, drawer, confirming)
    BY <1>5, <2>1
  <2>3. Opened' /\ rows' = rs /\ drawer' \in BOOLEAN /\ confirming' \in BOOLEAN
    BY <1>1, <2>2, ShownOpened
  <2>4. InStock(rows) \subseteq DOMAIN rows
    BY DEF InStock
  <2>5. DOMAIN rs = InStock(rows) /\ rs \in [DOMAIN rs -> PantryRow] /\ \A i \in DOMAIN rs : rs[i] = rows[i]
    BY <1>1, <2>1, <2>4
  <2>6. DrawerTyped'
    BY <1>1, <1>2, <1>5, <2>3, <2>4, <2>5 DEF DrawerTyped
  <2>7. Aloft'
    BY <1>1, <1>2 DEF Aloft
  <2>8. LockedHere'
    <3> SUFFICES ASSUME NEW j \in DOMAIN rows', rows'[j].busy PROVE \E d \in asked' : d.of = j /\ Unlocks(d)
      BY DEF LockedHere
    <3>1. j \in DOMAIN rows /\ rows[j].busy
      BY <2>3, <2>4, <2>5
    <3>2. PICK d \in asked : d.of = j /\ Unlocks(d)
      BY <1>1, <3>1 DEF LockedHere
    <3>3. d # c
      BY <1>2, <3>2 DEF Unlocks
    <3> QED BY <1>5, <3>2, <3>3
  <2> QED BY <2>3, <2>6, <2>7, <2>8 DEF DrawerInv
<1> QED BY <1>4, <1>5 DEF RereadAnswered

\* Every step keeps the invariant.
LEMMA DrawerKeep == DrawerInv /\ [DrawerNext]_drawerVars => DrawerInv'
<1> SUFFICES ASSUME DrawerInv, [DrawerNext]_drawerVars PROVE DrawerInv'
  OBVIOUS
<1>1. CASE UNCHANGED drawerVars
  BY <1>1 DEF drawerVars, DrawerInv, DrawerTyped, Opened, Aloft, LockedHere, OutOfStock, InStock
<1>2. CASE ToggleDrawer \/ OnClear \/ CancelClear \/ ToastGone
  BY <1>2, QuestionStep
<1>3. CASE ConfirmOutClear
  BY <1>3, ConfirmOutClearStep
<1>4. CASE MarkOut
  BY <1>4, MarkOutStep
<1>5. CASE DrawerRestock \/ UndoOut
  BY <1>5, DrawerRestockStep
<1>6. CASE Arrive
  BY <1>6, ArriveStep
<1>7. CASE ReceivePantry
  BY <1>7, ReceivePantryStep
<1>8. CASE \E c \in asked : OutAnswered(c) \/ RestockAnswered(c) \/ ClearAnswered(c) \/ RereadAnswered(c)
  BY <1>8, OutAnsweredStep, RestockAnsweredStep, ClearAnsweredStep, RereadAnsweredStep
<1> QED BY <1>1, <1>2, <1>3, <1>4, <1>5, <1>6, <1>7, <1>8 DEF DrawerNext

\* It holds at the start.
LEMMA DrawerBegins == DrawerInit => DrawerInv
<1> SUFFICES ASSUME DrawerInit PROVE DrawerInv
  OBVIOUS
<1>1. rows = <<>> /\ DOMAIN rows = {}
  BY DEF DrawerInit
<1>2. rows \in [DOMAIN rows -> PantryRow]
  BY <1>1
<1>3. DrawerTyped
  BY <1>1, <1>2, DrawerAssumption DEF DrawerInit, DrawerTyped
<1>4. Opened /\ Aloft /\ LockedHere
  BY <1>1 DEF DrawerInit, Opened, Aloft, LockedHere
<1> QED BY <1>3, <1>4 DEF DrawerInv

\* What it says of the drawer.
LEMMA DrawerSays == DrawerInv => DrawerTypeOK /\ DrawerRight
<1> SUFFICES ASSUME DrawerInv PROVE DrawerTypeOK /\ DrawerRight
  OBVIOUS
<1>1. DrawerTyped /\ Opened /\ Aloft /\ LockedHere
  BY DrawerFacts
<1>2. DrawerTypeOK
  BY <1>1 DEF DrawerTyped, DrawerTypeOK, PantryRow
<1>3. confirming => drawer /\ OutOfStock(rows) # {}
  BY <1>1 DEF Opened
<1>4. \A i \in DOMAIN rows : rows[i].busy => \E c \in asked : c.of = i
  BY <1>1 DEF LockedHere
<1> QED BY <1>1, <1>2, <1>3, <1>4 DEF DrawerRight, Aloft

\* However answers, feeds and flights overlap, for any pantry: what is about to be cleared is on
\* screen, no row stays invisible, none is seen twice and none stays locked
\* (pantry-checklist/App.svelte).
THEOREM DrawerRightHolds == DrawerSpec => [](DrawerTypeOK /\ DrawerRight)
<1>1. DrawerInit => DrawerInv
  BY DrawerBegins
<1>2. DrawerInv /\ [DrawerNext]_drawerVars => DrawerInv'
  BY DrawerKeep
<1>3. DrawerInv => DrawerTypeOK /\ DrawerRight
  BY DrawerSays
<1> QED BY <1>1, <1>2, <1>3, PTL DEF DrawerSpec

=============================================================================
