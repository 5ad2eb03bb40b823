--------------------------- MODULE Process_proofs ---------------------------
(***************************************************************************)
(* What the parts of one process promise: its start and end, the index of  *)
(* recipes, the requests to Paprika, and signing in.                       *)
(***************************************************************************)
EXTENDS MCTools, Widgets_proofs, FiniteSetTheorems, WellFoundedInduction, TLAPS

\* Of numbers there is a least: of the sets of what is less than a member, a smallest is empty.
LEMMA LeastNumber ==
  ASSUME NEW S, S \subseteq Nat, S # {}
  PROVE  (CHOOSE x \in S : \A y \in S : x <= y) \in S
<1> DEFINE Below(m) == {n \in S : n < m}
           T == {Below(m) : m \in S}
<1>1. T \subseteq FiniteSubsetsOf(S) /\ T # {}
  <2>1. \A m \in S : IsFiniteSet(0..m) /\ Below(m) \subseteq 0..m
    <3> SUFFICES ASSUME NEW m \in S PROVE IsFiniteSet(0..m) /\ Below(m) \subseteq 0..m
      OBVIOUS
    <3>1. \A x \in S : x \in Nat
      OBVIOUS
    <3>2. IsFiniteSet(0..m)
      BY <3>1, FS_Interval
    <3>3. \A x \in S : x < m => x \in 0..m
      BY <3>1
    <3> QED BY <3>2, <3>3
  <2>2. \A m \in S : IsFiniteSet(Below(m))
    BY <2>1, FS_Subset
  <2> QED BY <2>2 DEF FiniteSubsetsOf
<1>2. \E U \in T : \A V \in T : <<V, U>> \notin StrictSubsetOrdering(S)
  <2>1. IsWellFoundedOn(StrictSubsetOrdering(S), FiniteSubsetsOf(S))
    BY FS_StrictSubsetOrderingWellFounded
  <2> QED BY <1>1, <2>1, WFMin
<1>3. PICK m \in S : \A n \in S : <<Below(n), Below(m)>> \notin StrictSubsetOrdering(S)
  BY <1>2
<1>4. ASSUME NEW n \in S, n < m PROVE FALSE
  <2>1. Below(n) \subseteq Below(m) /\ n \notin Below(n) /\ n \in Below(m)
    <3>1. \A x \in S : x \in Nat
      OBVIOUS
    <3>2. m \in Nat /\ n \in Nat /\ n < m
      BY <1>4, <3>1
    <3>3. ~(n < n) /\ \A x \in S : x < n => x < m
      BY <3>1, <3>2
    <3> QED BY <3>2, <3>3
  <2>2. <<Below(n), Below(m)>> \in StrictSubsetOrdering(S)
    BY <2>1 DEF StrictSubsetOrdering
  <2> QED BY <1>3, <2>2
<1>5. \A n \in S : m <= n
  BY <1>4
<1> QED BY <1>5

(***************************************************************************)
(* Boot, for any modules and dependencies: the modules are put in an order *)
(* whenever there is one, built and hooked in it; and the end of the       *)
(* process, however it comes, leaves nothing running.                      *)
(***************************************************************************)

VisitFrame == [m : 1..Modules, at : Nat]

\* The kinds of the state.
BootTyped ==
  /\ dependsOn \in [1..Modules -> Seq(Nat \ {0})]
  /\ stage \in {"sort", "build", "sync", "hooks", "session", "handle", "up", "failed"}
  /\ visiting \in Seq(VisitFrame)
  /\ order \in Seq(1..Modules) /\ built \in Seq(1..Modules) /\ hooked \in Seq(1..Modules)
  /\ client \in BOOLEAN /\ listening \in BOOLEAN /\ trapped \in BOOLEAN /\ shuttingDown \in BOOLEAN
  /\ pipe \in {"unread", "read", "ended", "closed"}
  /\ loop \in {"none", "on", "off"} /\ sessions \in {0, 1}
  /\ telemetry \in {"on", "flushing", "flushed"} /\ leaving \subseteq {"zero", "one"}
  /\ exit \in {"none", "zero", "one", "killed"} /\ signals \in 0..MaxSignals

\* What is sorted comes after all it depends on, once.
InOrder ==
  /\ \A i, j \in 1..Len(order) : order[i] = order[j] => i = j
  /\ \A i \in 1..Len(order) : \A dep \in ToSet(dependsOn[order[i]]) : \E j \in 1..Len(order) : j < i /\ order[j] = dep

\* A visit has the dependencies it has looked at behind it, but for the one that is being visited.
Frames ==
  /\ \A i, j \in 1..Len(visiting) : visiting[i].m = visiting[j].m => i = j
  /\ \A i \in 1..Len(visiting) :
       /\ visiting[i].m \notin ToSet(order)
       /\ visiting[i].at <= Len(dependsOn[visiting[i].m])
       /\ \A k \in 1..visiting[i].at : k < visiting[i].at \/ i = Len(visiting) => dependsOn[visiting[i].m][k] \in ToSet(order)
  /\ \A i \in 1..Len(visiting) : i < Len(visiting) =>
       visiting[i].at >= 1 /\ dependsOn[visiting[i].m][visiting[i].at] = visiting[i + 1].m

\* However the modules are ranked, the visits go down in rank.
Descends ==
  \A rank \in [1..Modules -> 1..Modules] : Respects(rank) =>
    \A i, j \in 1..Len(visiting) : i < j => rank[visiting[j].m] < rank[visiting[i].m]

SortEnds ==
  /\ stage \notin {"sort", "failed"} => visiting = <<>> /\ ToSet(order) = 1..Modules
  /\ stage = "failed" => ToSet(order) = 1..Modules \/ ~Orderable

SortInv == InOrder /\ Frames /\ Descends /\ SortEnds

\* Modules are built as they are sorted, and hooked as they are built.
BuildInv ==
  /\ Len(built) <= Len(order) /\ \A i \in 1..Len(built) : built[i] = order[i]
  /\ Len(hooked) <= Len(built) /\ \A i \in 1..Len(hooked) : hooked[i] = built[i]
  /\ stage = "sort" => built = <<>>
  /\ built # <<>> => ToSet(order) = 1..Modules
  /\ stage \notin {"sort", "build", "failed"} => Len(built) = Len(order)
  /\ stage \in {"sort", "build"} => hooked = <<>>
  /\ hooked # <<>> => Len(built) = Len(order) /\ ToSet(order) = 1..Modules

\* The session ends when the client has gone or a signal was caught, and only then the process by itself.
EndInv ==
  /\ sessions = 1 => loop # "on" /\ pipe # "unread"
  /\ listening \/ trapped \/ stage \in {"handle", "up"} => pipe # "unread"
  /\ pipe \in {"ended", "closed"} => ~client
  /\ listening /\ pipe \in {"ended", "closed"} => sessions = 1
  /\ exit \in {"zero", "one"} => telemetry = "flushed"
  /\ "zero" \in leaving \/ exit = "zero" => sessions = 1 /\ (~client \/ signals < MaxSignals)

BootInv == BootTyped /\ SortInv /\ BuildInv /\ EndInv

----------------------------------------------------------------------------
\* The sort.

\* What the first k elements of a sequence are.
LEMMA PrefixIs ==
  ASSUME NEW S, NEW s \in Seq(S), NEW k \in Nat, k <= Len(s)
  PROVE  /\ SubSeq(s, 1, k) \in Seq(S) /\ Len(SubSeq(s, 1, k)) = k
         /\ \A i \in 1..k : SubSeq(s, 1, k)[i] = s[i]
OBVIOUS

\* A sequence is its front and its last element.
LEMMA FrontIs ==
  ASSUME NEW S, NEW s \in Seq(S), s # <<>>
  PROVE  /\ Front(s) \in Seq(S) /\ Len(Front(s)) = Len(s) - 1
         /\ \A i \in 1..(Len(s) - 1) : Front(s)[i] = s[i]
         /\ Last(s) = s[Len(s)] /\ Last(s) \in S /\ Len(s) \in Nat \ {0}
<1>1. Len(s) \in Nat \ {0} /\ \A i \in 1..Len(s) : s[i] \in S
  OBVIOUS
<1>2. PICK n \in Nat : n = Len(s) - 1
  BY <1>1
<1>3. /\ SubSeq(s, 1, n) \in Seq(S) /\ Len(SubSeq(s, 1, n)) = n
      /\ \A i \in 1..n : SubSeq(s, 1, n)[i] = s[i]
  BY <1>1, <1>2
<1> QED BY <1>1, <1>2, <1>3 DEF Front, Last

\* An order stays one while nothing joins it.
LEMMA OrderStays ==
  ASSUME InOrder, dependsOn' = dependsOn, order' = order
  PROVE  InOrder'
  BY DEF InOrder

\* A step of the sort that puts a module in order.
LEMMA PopKeeps ==
  ASSUME BootTyped, SortInv, visiting # <<>>, stage = "sort",
         Last(visiting).at = Len(dependsOn[Last(visiting).m]),
         visiting' = Front(visiting), order' = Append(order, Last(visiting).m),
         UNCHANGED <<dependsOn, stage>>
  PROVE  SortInv'
<1> DEFINE n == Len(visiting)  top == visiting[n].m
<1>0. visiting \in Seq(VisitFrame) /\ order \in Seq(1..Modules) /\ visiting # <<>>
  BY DEF BootTyped
<1>1. n \in Nat \ {0} /\ Last(visiting) = visiting[n] /\ visiting[n] \in VisitFrame
  BY <1>0 DEF Last
<1>f. \A i \in 1..n : visiting[i].m \in 1..Modules /\ visiting[i].at \in Nat
  <2>1. \A i \in 1..n : visiting[i] \in VisitFrame
    BY <1>0
  <2> QED BY <2>1 DEF VisitFrame
<1>t. top \in 1..Modules
  BY <1>1, <1>f
<1>2. Len(visiting') = n - 1 /\ \A i \in 1..(n - 1) : visiting'[i] = visiting[i]
  BY <1>0, FrontIs
<1>3. Len(order') = Len(order) + 1 /\ order'[Len(order) + 1] = top /\ \A i \in 1..Len(order) : order'[i] = order[i]
  BY <1>0, <1>1, <1>t
<1>4. Len(order) \in Nat /\ DOMAIN order = 1..Len(order) /\ DOMAIN order' = 1..(Len(order) + 1)
  BY <1>0, <1>1, <1>t
<1>5. ToSet(order') = ToSet(order) \cup {top}
  BY <1>3, <1>4 DEF ToSet
<1>6. top \notin ToSet(order) /\ \A i \in 1..(n - 1) : visiting[i].m # top
  BY <1>1 DEF SortInv, Frames
<1>7. \A dep \in ToSet(dependsOn[top]) : dep \in ToSet(order)
  <2>1. dependsOn[top] \in Seq(Nat \ {0}) /\ DOMAIN dependsOn[top] = 1..visiting[n].at
    BY <1>1, <1>t DEF BootTyped
  <2>2. \A k \in 1..visiting[n].at : dependsOn[top][k] \in ToSet(order)
    BY <1>1 DEF SortInv, Frames
  <2> QED BY <2>1, <2>2 DEF ToSet
<1> HIDE DEF n, top
<1>8. InOrder'
  <2>1. \A i \in 1..Len(order) : order[i] # top
    BY <1>4, <1>6 DEF ToSet
  <2>2. \A i, j \in 1..(Len(order) + 1) : order'[i] = order'[j] => i = j
    BY <1>3, <1>4, <2>1 DEF SortInv, InOrder
  <2>3. ASSUME NEW i \in 1..(Len(order) + 1), NEW dep \in ToSet(dependsOn[order'[i]])
        PROVE  \E j \in 1..(Len(order) + 1) : j < i /\ order'[j] = dep
    <3>1. CASE i \in 1..Len(order)
      <4>1. dep \in ToSet(dependsOn[order[i]])
        BY <1>3, <2>3, <3>1
      <4>2. PICK j \in 1..Len(order) : j < i /\ order[j] = dep
        BY <3>1, <4>1 DEF SortInv, InOrder
      <4> QED BY <1>3, <1>4, <4>2
    <3>2. CASE i = Len(order) + 1
      <4>1. dep \in ToSet(order)
        BY <1>3, <1>7, <2>3, <3>2
      <4>2. PICK j \in 1..Len(order) : order[j] = dep
        BY <1>4, <4>1 DEF ToSet
      <4>3. j \in 1..(Len(order) + 1) /\ j < i /\ order'[j] = dep
        BY <1>3, <1>4, <3>2, <4>2
      <4> QED BY <4>3
    <3> QED BY <1>4, <3>1, <3>2
  <2>4. Len(order') = Len(order) + 1
    BY <1>3
  <2>5. dependsOn' = dependsOn
    OBVIOUS
  <2> HIDE DEF Last
  <2>6. \A i \in 1..(Len(order) + 1) : \A dep \in ToSet(dependsOn[order'[i]]) :
          \E j \in 1..(Len(order) + 1) : j < i /\ order'[j] = dep
    BY <2>3
  <2> QED BY ONLY <2>2, <2>4, <2>5, <2>6 DEF InOrder
<1>9. Frames'
  <2>1. ASSUME NEW i \in 1..(n - 1)
        PROVE  /\ visiting[i].m \notin ToSet(order')
               /\ visiting[i].at <= Len(dependsOn[visiting[i].m])
               /\ \A k \in 1..visiting[i].at : k < visiting[i].at \/ i = n - 1
                    => dependsOn[visiting[i].m][k] \in ToSet(order')
               /\ i < n - 1 => visiting[i].at >= 1 /\ dependsOn[visiting[i].m][visiting[i].at] = visiting[i + 1].m
    <3>1. i \in 1..n /\ i < n /\ i # n
      BY <1>1
    <3>2. visiting[i].m \notin ToSet(order') /\ visiting[i].at <= Len(dependsOn[visiting[i].m])
      BY <1>5, <1>6, <3>1 DEF SortInv, Frames, n
    <3>3. visiting[i].at >= 1 /\ dependsOn[visiting[i].m][visiting[i].at] = visiting[i + 1].m
      BY <3>1 DEF SortInv, Frames, n
    <3>4. \A k \in 1..visiting[i].at : k < visiting[i].at => dependsOn[visiting[i].m][k] \in ToSet(order)
      BY <3>1 DEF SortInv, Frames, n
    <3>5. ASSUME NEW k \in 1..visiting[i].at, k < visiting[i].at \/ i = n - 1
          PROVE  dependsOn[visiting[i].m][k] \in ToSet(order')
      <4>1. CASE k < visiting[i].at
        BY <1>5, <3>4, <4>1
      <4>2. CASE k = visiting[i].at /\ i = n - 1
        BY <1>1, <1>5, <3>3, <4>2 DEF top
      <4> QED BY <1>f, <3>1, <3>5, <4>1, <4>2
    <3> QED BY <3>2, <3>3, <3>5
  <2>2. \A i, j \in 1..(n - 1) : visiting[i].m = visiting[j].m => i = j
    BY <1>1 DEF SortInv, Frames, n
  <2>3. \A i \in 1..(n - 1) : visiting'[i] = visiting[i] /\ (i < n - 1 => visiting'[i + 1] = visiting[i + 1])
    BY <1>1, <1>2
  <2>4. Len(visiting') = n - 1 /\ dependsOn' = dependsOn
    BY <1>2
  <2>5. \A i \in 1..(n - 1) : visiting[i].m \notin ToSet(order') /\ visiting[i].at <= Len(dependsOn[visiting[i].m])
    BY <2>1
  <2>6. \A i \in 1..(n - 1) : \A k \in 1..visiting[i].at : k < visiting[i].at \/ i = n - 1
                    => dependsOn[visiting[i].m][k] \in ToSet(order')
    BY <2>1
  <2>7. \A i \in 1..(n - 1) : i < n - 1 =>
           visiting[i].at >= 1 /\ dependsOn[visiting[i].m][visiting[i].at] = visiting[i + 1].m
    BY <2>1
  <2> QED BY ONLY <2>2, <2>3, <2>4, <2>5, <2>6, <2>7 DEF Frames
<1>10. Descends'
  <2>1. \A i \in 1..(n - 1) : visiting'[i] = visiting[i] /\ i \in 1..n
    BY <1>1, <1>2
  <2>2. SUFFICES ASSUME NEW rank \in [1..Modules -> 1..Modules], Respects(rank),
                        NEW i \in 1..(n - 1), NEW j \in 1..(n - 1), i < j
                 PROVE  rank[visiting[j].m] < rank[visiting[i].m]
    BY <1>2, <2>1 DEF Descends, Respects
  <2> QED BY <2>1, <2>2 DEF SortInv, Descends, n
<1>11. SortEnds'
  BY DEF SortEnds
<1> QED BY <1>8, <1>9, <1>10, <1>11 DEF SortInv

\* What is on top of the visits.
LEMMA TopFrame ==
  ASSUME BootTyped, SortInv, visiting # <<>>
  PROVE  /\ Len(visiting) \in Nat \ {0} /\ Last(visiting) = visiting[Len(visiting)]
         /\ \A i \in 1..Len(visiting) : visiting[i] \in VisitFrame /\ visiting[i].m \in 1..Modules /\ visiting[i].at \in Nat
         /\ DOMAIN visiting = 1..Len(visiting)
         /\ dependsOn[Last(visiting).m] \in Seq(Nat \ {0})
         /\ \A k \in 1..Last(visiting).at : dependsOn[Last(visiting).m][k] \in ToSet(order)
         /\ Last(visiting).at <= Len(dependsOn[Last(visiting).m])
<1>1. visiting \in Seq(VisitFrame) /\ dependsOn \in [1..Modules -> Seq(Nat \ {0})]
  BY DEF BootTyped
<1>2. Len(visiting) \in Nat \ {0} /\ Last(visiting) = visiting[Len(visiting)]
  BY <1>1, FrontIs
<1>3. \A i \in 1..Len(visiting) : visiting[i] \in VisitFrame
  BY <1>1
<1>4. \A i \in 1..Len(visiting) : visiting[i].m \in 1..Modules /\ visiting[i].at \in Nat
  BY <1>3 DEF VisitFrame
<1>5. dependsOn[Last(visiting).m] \in Seq(Nat \ {0})
  BY <1>1, <1>2, <1>4
<1>6. /\ \A k \in 1..Last(visiting).at : dependsOn[Last(visiting).m][k] \in ToSet(order)
      /\ Last(visiting).at <= Len(dependsOn[Last(visiting).m])
  BY <1>2 DEF SortInv, Frames
<1> QED BY <1>1, <1>2, <1>3, <1>4, <1>5, <1>6

\* An ordering ranks the next dependency, which is a module, below all that are being visited.
LEMMA NextDescends ==
  ASSUME BootTyped, SortInv, visiting # <<>>, Last(visiting).at < Len(dependsOn[Last(visiting).m]),
         NEW rank \in [1..Modules -> 1..Modules], Respects(rank)
  PROVE  LET dep == dependsOn[Last(visiting).m][Last(visiting).at + 1]
         IN  dep \in 1..Modules /\ \A i \in 1..Len(visiting) : rank[dep] < rank[visiting[i].m]
<1> DEFINE top == Last(visiting)  dep == dependsOn[top.m][top.at + 1]
<1>1. top.m \in 1..Modules /\ top.at + 1 \in 1..Len(dependsOn[top.m]) /\ dependsOn[top.m] \in Seq(Nat \ {0})
  BY TopFrame
<1>2. dep \in ToSet(dependsOn[top.m])
  BY <1>1 DEF ToSet
<1>3. dep \in 1..Modules /\ rank[dep] < rank[top.m]
  BY <1>1, <1>2 DEF Respects
<1> HIDE DEF dep, top
<1>4. ASSUME NEW i \in 1..Len(visiting) PROVE rank[dep] < rank[visiting[i].m]
  <2>1. i = Len(visiting) \/ rank[visiting[Len(visiting)].m] < rank[visiting[i].m]
    <3>1. Len(visiting) \in Nat \ {0}
      BY TopFrame
    <3>2. Len(visiting) \in 1..Len(visiting) /\ (i = Len(visiting) \/ i < Len(visiting))
      BY <3>1
    <3> QED BY <3>2 DEF SortInv, Descends
  <2>2. top = visiting[Len(visiting)] /\ visiting[i].m \in 1..Modules
    BY TopFrame DEF top
  <2>3. rank[dep] \in Int /\ rank[top.m] \in Int /\ rank[visiting[i].m] \in Int
    BY <1>1, <1>3, <2>2
  <2> QED BY <1>3, <2>1, <2>2, <2>3
<1>5. dep \in 1..Modules /\ \A i \in 1..Len(visiting) : rank[dep] < rank[visiting[i].m]
  BY <1>3, <1>4
<1> QED BY <1>5 DEF dep, top

\* What the sort refuses cannot be ordered.
LEMMA Refused ==
  ASSUME BootTyped, SortInv, visiting # <<>>, Last(visiting).at < Len(dependsOn[Last(visiting).m]),
         NEW dep, dep = dependsOn[Last(visiting).m][Last(visiting).at + 1],
         dep \notin 1..Modules \/ Closes(dep)
  PROVE  ~Orderable
<1> SUFFICES ASSUME NEW rank \in [1..Modules -> 1..Modules], Respects(rank) PROVE FALSE
  BY DEF Orderable
<1>1. dep \in 1..Modules /\ \A i \in 1..Len(visiting) : rank[dep] < rank[visiting[i].m]
  BY NextDescends
<1>2. CASE Closes(dep)
  <2>1. PICK i \in 1..Len(visiting) : visiting[i].m = dep
    BY <1>2, TopFrame DEF Closes, OnStack, ToSet
  <2>2. rank[dep] < rank[dep] /\ rank[dep] \in Int
    BY <1>1, <2>1
  <2> QED BY <2>2
<1> QED BY <1>1, <1>2

\* A dependency that is in order already is passed over.
LEMMA BumpKeeps ==
  ASSUME BootTyped, SortInv, stage = "sort", visiting # <<>>, Last(visiting).at < Len(dependsOn[Last(visiting).m]),
         dependsOn[Last(visiting).m][Last(visiting).at + 1] \in ToSet(order),
         visiting' = [visiting EXCEPT ![Len(visiting)].at = @ + 1],
         UNCHANGED <<dependsOn, order, stage>>
  PROVE  SortInv'
<1> DEFINE n == Len(visiting)
<1>1. n \in Nat \ {0} /\ Last(visiting) = visiting[n]
  BY TopFrame
<1>2. Len(visiting') = n /\ \A i \in 1..n : /\ visiting'[i].m = visiting[i].m
                                            /\ visiting'[i].at = IF i = n THEN visiting[i].at + 1 ELSE visiting[i].at
  <2>1. visiting \in Seq(VisitFrame) /\ visiting[n] \in VisitFrame
    BY <1>1, TopFrame DEF BootTyped
  <2>2. \A i \in 1..n : visiting'[i] = IF i = n THEN [visiting[n] EXCEPT !.at = @ + 1] ELSE visiting[i]
    BY <1>1, <2>1
  <2>3. Len(visiting') = n
    BY <2>1
  <2>4. [visiting[n] EXCEPT !.at = @ + 1].m = visiting[n].m /\ [visiting[n] EXCEPT !.at = @ + 1].at = visiting[n].at + 1
    BY <2>1 DEF VisitFrame
  <2> QED BY <2>2, <2>3, <2>4
<1>3. InOrder' /\ SortEnds'
  <2>1. InOrder /\ SortEnds
    BY DEF SortInv
  <2>2. InOrder'
    BY <2>1, OrderStays
  <2>3. SortEnds'
    BY <2>1 DEF SortEnds
  <2> QED BY <2>2, <2>3
<1>4. Frames'
  <2>1. \A i, j \in 1..n : visiting'[i].m = visiting'[j].m => i = j
    BY <1>2 DEF SortInv, Frames
  <2>2. ASSUME NEW i \in 1..n
        PROVE  /\ visiting'[i].m \notin ToSet(order)
               /\ visiting'[i].at <= Len(dependsOn[visiting'[i].m])
               /\ \A k \in 1..visiting'[i].at : k < visiting'[i].at \/ i = n => dependsOn[visiting'[i].m][k] \in ToSet(order)
               /\ i < n => visiting'[i].at >= 1 /\ dependsOn[visiting'[i].m][visiting'[i].at] = visiting'[i + 1].m
    <3>1. visiting'[i].m = visiting[i].m /\ visiting[i].at \in Nat
      BY <1>2, TopFrame
    <3>2. CASE i < n
      <4>1. visiting'[i].at = visiting[i].at /\ visiting'[i + 1].m = visiting[i + 1].m
        BY <1>1, <1>2, <3>2
      <4>2. /\ visiting[i].m \notin ToSet(order) /\ visiting[i].at <= Len(dependsOn[visiting[i].m])
            /\ \A k \in 1..visiting[i].at : k < visiting[i].at => dependsOn[visiting[i].m][k] \in ToSet(order)
            /\ visiting[i].at >= 1 /\ dependsOn[visiting[i].m][visiting[i].at] = visiting[i + 1].m
        BY <3>2 DEF SortInv, Frames
      <4> QED BY <3>1, <3>2, <4>1, <4>2
    <3>3. CASE i = n
      <4>1. visiting'[i].at = visiting[n].at + 1
        BY <1>2, <3>3
      <4>2. visiting[i].m \notin ToSet(order) /\ visiting[n].at < Len(dependsOn[visiting[n].m])
        BY <1>1 DEF SortInv, Frames
      <4>3. \A k \in 1..visiting[n].at : dependsOn[visiting[n].m][k] \in ToSet(order)
        BY <1>1, TopFrame
      <4>4. Len(dependsOn[visiting[n].m]) \in Nat
        BY <1>1, TopFrame
      <4> QED BY <1>1, <3>1, <3>3, <4>1, <4>2, <4>3, <4>4
    <3> QED BY <1>1, <3>2, <3>3
  <2>3. /\ \A i \in 1..n : visiting'[i].m \notin ToSet(order) /\ visiting'[i].at <= Len(dependsOn[visiting'[i].m])
        /\ \A i \in 1..n : \A k \in 1..visiting'[i].at :
             k < visiting'[i].at \/ i = n => dependsOn[visiting'[i].m][k] \in ToSet(order)
        /\ \A i \in 1..n : i < n =>
             visiting'[i].at >= 1 /\ dependsOn[visiting'[i].m][visiting'[i].at] = visiting'[i + 1].m
    BY <2>2
  <2>4. Len(visiting') = n /\ dependsOn' = dependsOn /\ order' = order
    BY <1>2
  <2> QED BY ONLY <2>1, <2>3, <2>4 DEF Frames
<1>5. Descends'
  <2> SUFFICES ASSUME NEW rank \in [1..Modules -> 1..Modules], Respects(rank),
                      NEW i \in 1..n, NEW j \in 1..n, i < j
               PROVE  rank[visiting[j].m] < rank[visiting[i].m]
    BY <1>2 DEF Descends, Respects
  <2> QED BY DEF SortInv, Descends
<1> QED BY <1>3, <1>4, <1>5 DEF SortInv

\* Or it is visited.
LEMMA PushKeeps ==
  ASSUME BootTyped, SortInv, stage = "sort", visiting # <<>>, Last(visiting).at < Len(dependsOn[Last(visiting).m]),
         NEW dep, dep = dependsOn[Last(visiting).m][Last(visiting).at + 1],
         dep \in 1..Modules, dep \notin ToSet(order), ~Closes(dep),
         visiting' = Append([visiting EXCEPT ![Len(visiting)].at = @ + 1], [m |-> dep, at |-> 0]),
         UNCHANGED <<dependsOn, order, stage>>
  PROVE  SortInv'
<1> DEFINE n == Len(visiting)
<1>1. n \in Nat \ {0} /\ Last(visiting) = visiting[n]
  BY TopFrame
<1>2. /\ Len(visiting') = n + 1
      /\ \A i \in 1..n : /\ visiting'[i].m = visiting[i].m
                         /\ visiting'[i].at = IF i = n THEN visiting[i].at + 1 ELSE visiting[i].at
      /\ visiting'[n + 1].m = dep /\ visiting'[n + 1].at = 0
  <2>1. visiting \in Seq(VisitFrame) /\ visiting[n] \in VisitFrame
    BY <1>1, TopFrame DEF BootTyped
  <2> DEFINE bumped == [visiting EXCEPT ![Len(visiting)].at = @ + 1]
  <2>2. \A i \in 1..n : bumped[i] = IF i = n THEN [visiting[n] EXCEPT !.at = @ + 1] ELSE visiting[i]
    BY <1>1, <2>1
  <2>3. [visiting[n] EXCEPT !.at = @ + 1].m = visiting[n].m /\ [visiting[n] EXCEPT !.at = @ + 1].at = visiting[n].at + 1
        /\ [visiting[n] EXCEPT !.at = @ + 1] \in VisitFrame
    <3>1. PICK f \in VisitFrame : f = visiting[n]
      BY <2>1
    <3>2. [f EXCEPT !.at = @ + 1].m = f.m /\ [f EXCEPT !.at = @ + 1].at = f.at + 1 /\ [f EXCEPT !.at = @ + 1] \in VisitFrame
      BY DEF VisitFrame
    <3> QED BY <3>1, <3>2
  <2>4. bumped \in Seq(VisitFrame) /\ Len(bumped) = n
    BY <1>1, <2>1, <2>3
  <2>5. [m |-> dep, at |-> 0] \in VisitFrame
    BY DEF VisitFrame
  <2>6. visiting' = Append(bumped, [m |-> dep, at |-> 0])
    OBVIOUS
  <2> HIDE DEF bumped, n
  <2>7. Len(visiting') = n + 1 /\ visiting'[n + 1] = [m |-> dep, at |-> 0] /\ \A i \in 1..n : visiting'[i] = bumped[i]
    BY ONLY <1>1, <2>4, <2>5, <2>6
  <2>8. \A i \in 1..n : bumped[i].m = visiting[i].m /\ bumped[i].at = IF i = n THEN visiting[i].at + 1 ELSE visiting[i].at
    BY ONLY <2>2, <2>3
  <2> QED BY ONLY <2>7, <2>8
<1>h. dep \notin ToSet(order) /\ n \in Nat \ {0}
  BY <1>1
<1>3. InOrder' /\ SortEnds'
  <2>1. InOrder /\ UNCHANGED <<dependsOn, order, stage>> /\ stage = "sort"
    BY DEF SortInv
  <2>2. InOrder'
    BY <2>1, OrderStays
  <2>3. SortEnds'
    BY ONLY <2>1 DEF SortEnds
  <2> QED BY <2>2, <2>3
<1>4. Frames'
  <2>0. \A i \in 1..n : visiting[i].m # dep
    BY TopFrame DEF Closes, OnStack, ToSet
  <2>1. \A i, j \in 1..(n + 1) : visiting'[i].m = visiting'[j].m => i = j
    BY <1>1, <1>2, <2>0 DEF SortInv, Frames
  <2>2. ASSUME NEW i \in 1..(n + 1)
        PROVE  /\ visiting'[i].m \notin ToSet(order)
               /\ visiting'[i].at <= Len(dependsOn[visiting'[i].m])
               /\ \A k \in 1..visiting'[i].at : k < visiting'[i].at \/ i = n + 1 => dependsOn[visiting'[i].m][k] \in ToSet(order)
               /\ i < n + 1 => visiting'[i].at >= 1 /\ dependsOn[visiting'[i].m][visiting'[i].at] = visiting'[i + 1].m
    <3>1. CASE i < n
      <4>1. /\ visiting'[i].m = visiting[i].m /\ visiting'[i].at = visiting[i].at /\ visiting'[i + 1].m = visiting[i + 1].m
            /\ visiting[i].at \in Nat
        <5>1. i \in 1..n /\ i + 1 \in 1..n /\ i # n
          BY <1>1, <3>1
        <5>2. visiting[i].at \in Nat
          BY <5>1, TopFrame
        <5> QED BY ONLY <1>2, <5>1, <5>2
      <4>2. /\ visiting[i].m \notin ToSet(order) /\ visiting[i].at <= Len(dependsOn[visiting[i].m])
            /\ \A k \in 1..visiting[i].at : k < visiting[i].at => dependsOn[visiting[i].m][k] \in ToSet(order)
            /\ visiting[i].at >= 1 /\ dependsOn[visiting[i].m][visiting[i].at] = visiting[i + 1].m
        BY <3>1 DEF SortInv, Frames
      <4> QED BY ONLY <1>h, <3>1, <4>1, <4>2
    <3>2. CASE i = n
      <4>1. /\ visiting'[i].m = visiting[n].m /\ visiting'[i].at = visiting[n].at + 1 /\ visiting'[i + 1].m = dep
            /\ visiting[n].at \in Nat
        BY <1>1, <1>2, <3>2, TopFrame
      <4>2. visiting[n].m \notin ToSet(order) /\ visiting[n].at < Len(dependsOn[visiting[n].m])
        BY <1>1 DEF SortInv, Frames
      <4>3. \A k \in 1..visiting[n].at : dependsOn[visiting[n].m][k] \in ToSet(order)
        BY <1>1, TopFrame
      <4>4. Len(dependsOn[visiting[n].m]) \in Nat /\ dependsOn[visiting[n].m][visiting[n].at + 1] = dep
        BY <1>1, TopFrame
      <4>5. Len(dependsOn[visiting[n].m]) >= visiting[n].at + 1
        BY ONLY <4>1, <4>2, <4>4
      <4>6. ASSUME NEW k \in 1..(visiting[n].at + 1), k < visiting[n].at + 1 \/ i = n + 1
            PROVE  dependsOn[visiting[n].m][k] \in ToSet(order)
        <5>1. k \in 1..visiting[n].at
          BY ONLY <1>h, <3>2, <4>1, <4>6
        <5> QED BY <4>3, <5>1
      <4> QED BY ONLY <1>h, <3>2, <4>1, <4>2, <4>4, <4>5, <4>6
    <3>3. CASE i = n + 1
      <4>1. visiting'[i].m = dep /\ visiting'[i].at = 0
        BY <1>2, <3>3
      <4>2. Len(dependsOn[dep]) \in Nat
        BY DEF BootTyped
      <4> QED BY ONLY <1>h, <3>3, <4>1, <4>2
    <3>4. i < n \/ i = n \/ i = n + 1
      BY <1>h
    <3> QED BY ONLY <3>1, <3>2, <3>3, <3>4
  <2>3. /\ \A i \in 1..(n + 1) : visiting'[i].m \notin ToSet(order) /\ visiting'[i].at <= Len(dependsOn[visiting'[i].m])
        /\ \A i \in 1..(n + 1) : \A k \in 1..visiting'[i].at :
             k < visiting'[i].at \/ i = n + 1 => dependsOn[visiting'[i].m][k] \in ToSet(order)
        /\ \A i \in 1..(n + 1) : i < n + 1 =>
             visiting'[i].at >= 1 /\ dependsOn[visiting'[i].m][visiting'[i].at] = visiting'[i + 1].m
    BY <2>2
  <2>4. Len(visiting') = n + 1 /\ dependsOn' = dependsOn /\ order' = order
    BY <1>2
  <2> QED BY ONLY <2>1, <2>3, <2>4 DEF Frames
<1>5. Descends'
  <2>1. SUFFICES ASSUME NEW rank \in [1..Modules -> 1..Modules], Respects(rank),
                        NEW i \in 1..(n + 1), NEW j \in 1..(n + 1), i < j
                 PROVE  rank[visiting'[j].m] < rank[visiting'[i].m]
    BY <1>2 DEF Descends, Respects
  <2>2. i \in 1..n /\ visiting'[i].m = visiting[i].m
    BY <1>1, <1>2, <2>1
  <2>3. CASE j \in 1..n
    BY <1>2, <2>1, <2>2, <2>3 DEF SortInv, Descends
  <2>4. CASE j = n + 1
    BY <1>2, <2>1, <2>2, <2>4, NextDescends
  <2> QED BY <1>1, <2>3, <2>4
<1> QED BY <1>3, <1>4, <1>5 DEF SortInv

\* A module that nobody depended on yet is visited.
LEMMA RootKeeps ==
  ASSUME BootTyped, SortInv, stage = "sort", visiting = <<>>, NEW root \in 1..Modules, root \notin ToSet(order),
         visiting' = <<[m |-> root, at |-> 0]>>, UNCHANGED <<dependsOn, order, stage>>
  PROVE  SortInv'
<1>1. Len(visiting') = 1 /\ \A i \in 1..1 : i = 1 /\ visiting'[i].m = root /\ visiting'[i].at = 0
  OBVIOUS
<1>2. InOrder' /\ SortEnds'
  <2>1. InOrder /\ UNCHANGED <<dependsOn, order, stage>> /\ stage = "sort"
    BY DEF SortInv
  <2>2. InOrder'
    BY <2>1, OrderStays
  <2>3. SortEnds'
    BY ONLY <2>1 DEF SortEnds
  <2> QED BY <2>2, <2>3
<1>3. Len(dependsOn[root]) \in Nat
  BY DEF BootTyped
<1>4. Frames'
  BY <1>1, <1>3 DEF Frames
<1>5. Descends'
  BY <1>1 DEF Descends
<1> QED BY <1>2, <1>4, <1>5 DEF SortInv

\* What is sorted, when all is, has all in order: their places rank them.
LEMMA SortedOrders ==
  ASSUME BootTyped, InOrder, ToSet(order) = 1..Modules, BootAssumption
  PROVE  Orderable /\ Len(order) = Modules
<1> DEFINE n == Len(order)
<1>1. n \in Nat /\ order \in [1..n -> 1..Modules] /\ DOMAIN order = 1..n
  BY DEF BootTyped
<1>2. order \in Injection(1..n, 1..Modules)
  BY <1>1 DEF InOrder, Injection, IsInjective
<1>3. order \in Surjection(1..n, 1..Modules)
  BY <1>1 DEF ToSet, Surjection
<1>4. IsFiniteSet(1..n) /\ Cardinality(1..n) = n /\ Cardinality(1..Modules) = Modules
  <2>1. n >= 0 /\ Modules \in Nat
    BY <1>1 DEF BootAssumption
  <2> HIDE DEF n
  <2>2. Cardinality(1..n) = (IF 1 > n THEN 0 ELSE n - 1 + 1) /\ IsFiniteSet(1..n)
    BY <1>1, FS_Interval
  <2>3. Cardinality(1..Modules) = (IF 1 > Modules THEN 0 ELSE Modules - 1 + 1)
    BY <2>1, FS_Interval
  <2> QED BY <1>1, <2>1, <2>2, <2>3
<1>5. n = Modules
  BY <1>2, <1>3, <1>4, FS_Surjection
<1> DEFINE rank == [m \in 1..Modules |-> CHOOSE i \in 1..Modules : order[i] = m]
<1>6. \A m \in 1..Modules : rank[m] \in 1..Modules /\ order[rank[m]] = m
  <2> SUFFICES ASSUME NEW m \in 1..Modules PROVE rank[m] \in 1..Modules /\ order[rank[m]] = m
    OBVIOUS
  <2>1. \E i \in 1..Modules : order[i] = m
    BY <1>1, <1>5 DEF ToSet
  <2> QED BY <2>1
<1>7. rank \in [1..Modules -> 1..Modules]
  BY <1>6
<1>8. ASSUME NEW m \in 1..Modules, NEW dep \in ToSet(dependsOn[m])
      PROVE  dep \in 1..Modules /\ rank[dep] < rank[m]
  <2>1. rank[m] \in 1..n /\ order[rank[m]] = m
    BY <1>5, <1>6
  <2>2. PICK j \in 1..n : j < rank[m] /\ order[j] = dep
    BY <2>1 DEF InOrder
  <2>3. dep \in 1..Modules
    BY <1>1, <2>2
  <2>4. rank[dep] = j
    BY <1>5, <1>6, <2>2, <2>3 DEF InOrder
  <2> QED BY <2>2, <2>3, <2>4
<1> HIDE DEF rank
<1>9. Orderable
  BY <1>7, <1>8 DEF Orderable, Respects
<1> QED BY <1>5, <1>9

----------------------------------------------------------------------------
\* The steps.

\* What is proved of the sort stays while the order and the visits do.
LEMMA SameSort ==
  ASSUME InOrder, Frames, Descends, UNCHANGED <<dependsOn, order, visiting>>
  PROVE  InOrder' /\ Frames' /\ Descends'
<1>1. InOrder'
  BY OrderStays
<1>2. Frames'
  BY DEF Frames
<1>3. Descends'
  BY DEF Descends, Respects
<1> QED BY <1>1, <1>2, <1>3

\* What the sort leaves is sorted, whatever it does.
LEMMA DependKeeps ==
  ASSUME BootTyped, SortInv, BootAssumption, Depend
  PROVE  SortInv' /\ stage' \in {"sort", "failed"}
<1> DEFINE top == Last(visiting)  deps == dependsOn[top.m]  dep == deps[top.at + 1]
<1>0. /\ stage = "sort" /\ visiting # <<>> /\ dependsOn' = dependsOn
      /\ top.at \in Nat /\ deps \in Seq(Nat \ {0}) /\ top.at <= Len(deps) /\ Len(deps) \in Nat
      /\ Len(visiting) \in Nat \ {0} /\ top = visiting[Len(visiting)]
  <2>1. stage = "sort" /\ visiting # <<>> /\ dependsOn' = dependsOn
    BY DEF Depend
  <2>2. Len(visiting) \in Nat \ {0} /\ top = visiting[Len(visiting)]
    BY <2>1, TopFrame
  <2>3. top.at \in Nat
    BY <2>1, <2>2, TopFrame
  <2> QED BY <2>1, <2>2, <2>3, TopFrame
<1>1. CASE top.at = Len(deps)
  <2>1. visiting' = Front(visiting) /\ order' = Append(order, top.m) /\ stage' = stage
    BY <1>1 DEF Depend, ending
  <2> QED BY <1>0, <1>1, <2>1, PopKeeps
<1>2. CASE top.at # Len(deps)
  <2>1. top.at < Len(deps) /\ order' = order /\ dep \in Nat \ {0}
    BY <1>0, <1>2 DEF Depend
  <2>c. (CASE dep > Modules -> Fails /\ UNCHANGED visiting
          [] dep \in ToSet(order) -> /\ visiting' = [visiting EXCEPT ![Len(visiting)].at = @ + 1]
                                     /\ UNCHANGED <<stage, ending>>
          [] dep <= Modules /\ dep \notin ToSet(order) ->
               IF Closes(dep) THEN Fails /\ UNCHANGED visiting ELSE LooksAt(dep))
    BY <1>2 DEF Depend
  <2>e. dep \in ToSet(order) => dep <= Modules /\ ~(dep > Modules)
    <3> HIDE DEF dep
    <3> SUFFICES ASSUME dep \in ToSet(order) PROVE dep <= Modules /\ ~(dep > Modules)
      OBVIOUS
    <3>1. PICK i \in DOMAIN order : order[i] = dep
      BY DEF ToSet
    <3>2. order[i] \in 1..Modules /\ Modules \in Nat
      BY DEF BootTyped, BootAssumption
    <3> QED BY <3>1, <3>2
  <2>2. ASSUME Fails, UNCHANGED visiting, ~Orderable PROVE SortInv' /\ stage' = "failed"
    <3>1. stage' = "failed" /\ UNCHANGED <<dependsOn, order, visiting>>
      BY <1>0, <2>1, <2>2 DEF Fails
    <3>2. ~Orderable'
      BY <2>2, <3>1 DEF Orderable, Respects
    <3>3. InOrder' /\ Frames' /\ Descends'
      <4>1. InOrder /\ Frames /\ Descends
        BY DEF SortInv
      <4> QED BY <3>1, <4>1, SameSort
    <3> QED BY <3>1, <3>2, <3>3 DEF SortInv, SortEnds
  <2>3. CASE dep > Modules
    <3>1. ~Orderable
      <4>1. dep \notin 1..Modules
        BY <2>1, <2>3 DEF BootAssumption
      <4> HIDE DEF dep
      <4> QED BY <1>0, <2>1, <4>1, Refused DEF dep
    <3>2. Fails /\ UNCHANGED visiting
      <4> HIDE DEF dep
      <4>1. ~(dep <= Modules)
        BY <2>1, <2>3 DEF BootAssumption
      <4> QED BY <2>3, <2>c, <2>e, <4>1
    <3> QED BY <2>2, <3>1, <3>2
  <2>4. CASE dep \in ToSet(order)
    <3>2. visiting' = [visiting EXCEPT ![Len(visiting)].at = @ + 1] /\ stage' = stage
      <4> HIDE DEF dep
      <4> QED BY <2>4, <2>c, <2>e
    <3> QED BY <1>0, <2>1, <2>4, <3>2, BumpKeeps
  <2>5. CASE dep <= Modules /\ dep \notin ToSet(order)
    <3>1. IF Closes(dep) THEN Fails /\ UNCHANGED visiting ELSE LooksAt(dep)
      <4> HIDE DEF dep
      <4>1. ~(dep > Modules)
        BY <2>1, <2>5 DEF BootAssumption
      <4> QED BY <2>5, <2>c, <4>1
    <3>2. CASE Closes(dep)
      <4>1. ~Orderable
        BY <1>0, <2>1, <3>2, Refused
      <4> QED BY <2>2, <3>1, <3>2, <4>1
    <3>3. CASE ~Closes(dep)
      <4>1. /\ visiting' = Append([visiting EXCEPT ![Len(visiting)].at = @ + 1], [m |-> dep, at |-> 0])
            /\ stage' = stage
        BY <3>1, <3>3 DEF LooksAt
      <4>2. dep \in 1..Modules
        BY <2>1, <2>5 DEF BootAssumption
      <4> QED BY <1>0, <2>1, <2>5, <3>3, <4>1, <4>2, PushKeeps
    <3> QED BY <3>2, <3>3
  <2> QED BY <2>1, <2>3, <2>4, <2>5 DEF BootAssumption
<1> QED BY <1>1, <1>2

\* A visit begins with a module that is neither sorted nor being visited; with none left the building begins.
LEMMA VisitKeeps ==
  ASSUME BootTyped, SortInv, BootAssumption, Visit
  PROVE  SortInv' /\ stage' \in {"sort", "build"} /\ BootTyped'
<1> DEFINE rest == 1..Modules \ ToSet(order)
<1>0. /\ stage = "sort" /\ visiting = <<>> /\ UNCHANGED <<dependsOn, order>>
      /\ UNCHANGED <<built, hooked, client, pipe, listening, trapped, ending, signals>>
  BY DEF Visit
<1>1. CASE rest = {}
  <2>1. stage' = "build" /\ visiting' = visiting
    BY <1>1 DEF Visit
  <2>2. ToSet(order) = 1..Modules
    <3>1. ToSet(order) \subseteq 1..Modules
      BY DEF BootTyped, ToSet
    <3> QED BY <1>1, <3>1
  <2>3. InOrder' /\ Frames' /\ Descends'
    <3>1. InOrder /\ Frames /\ Descends
      BY DEF SortInv
    <3> QED BY <1>0, <2>1, <3>1, SameSort
  <2>4. SortEnds'
    BY <1>0, <2>1, <2>2 DEF SortEnds
  <2> QED BY <1>0, <2>1, <2>3, <2>4 DEF SortInv, BootTyped, ending
<1>2. CASE rest # {}
  <2>1. PICK root : root = CHOOSE m \in rest : \A k \in rest : m <= k
    OBVIOUS
  <2>2. visiting' = <<[m |-> root, at |-> 0]>> /\ stage' = stage
    BY <1>2, <2>1 DEF Visit
  <2>3. root \in rest
    <3>1. rest \subseteq Nat
      BY DEF BootAssumption
    <3> QED BY <1>2, <2>1, <3>1, LeastNumber
  <2>4. SortInv'
    BY <1>0, <2>2, <2>3, RootKeeps
  <2>5. visiting' \in Seq(VisitFrame)
    <3>1. [m |-> root, at |-> 0] \in VisitFrame
      BY <2>3 DEF VisitFrame
    <3> QED BY <2>2, <3>1
  <2> QED BY <1>0, <2>2, <2>4, <2>5 DEF BootTyped, ending
<1> QED BY <1>1, <1>2

\* Asking for the end changes only the flush that comes before it.
LEMMA LeaveTyped ==
  ASSUME BootTyped, NEW code \in {"zero", "one"}, Leave(code)
  PROVE  telemetry' \in {"on", "flushing", "flushed"} /\ leaving' \subseteq {"zero", "one"} /\ exit' = exit
BY DEF Leave, BootTyped

\* A look at the next dependency keeps the kinds of the state.
LEMMA DependTyped ==
  ASSUME BootTyped, SortInv, BootAssumption, Depend
  PROVE  BootTyped' /\ (Fails \/ UNCHANGED ending)
<1> DEFINE top == Last(visiting)  dep == dependsOn[top.m][top.at + 1]
<1>0. /\ visiting # <<>> /\ visiting \in Seq(VisitFrame) /\ order \in Seq(1..Modules) /\ stage = "sort"
      /\ UNCHANGED <<dependsOn, built, hooked, client, pipe, listening, trapped, signals>>
  BY DEF Depend, BootTyped
<1>1. Len(visiting) \in Nat \ {0} /\ top = visiting[Len(visiting)] /\ top \in VisitFrame /\ top.m \in 1..Modules
  BY <1>0, TopFrame
<1>2. Front(visiting) \in Seq(VisitFrame) /\ Append(order, top.m) \in Seq(1..Modules)
  BY <1>0, <1>1, FrontIs
<1>3. [visiting EXCEPT ![Len(visiting)].at = @ + 1] \in Seq(VisitFrame)
  <2>1. PICK f \in VisitFrame : f = visiting[Len(visiting)]
    BY <1>1
  <2>2. [f EXCEPT !.at = @ + 1] \in VisitFrame
    BY DEF VisitFrame
  <2>3. [visiting EXCEPT ![Len(visiting)] = [f EXCEPT !.at = @ + 1]] \in Seq(VisitFrame)
    BY <1>0, <1>1, <2>2
  <2> QED BY <2>1, <2>3
<1>4. ASSUME NEW x \in 1..Modules
      PROVE Append([visiting EXCEPT ![Len(visiting)].at = @ + 1], [m |-> x, at |-> 0]) \in Seq(VisitFrame)
  <2>1. [m |-> x, at |-> 0] \in VisitFrame
    BY DEF VisitFrame
  <2> QED BY <1>3, <2>1
<1>5. order' \in Seq(1..Modules) /\ visiting' \in Seq(VisitFrame)
      /\ (Fails \/ UNCHANGED <<stage, ending>>) /\ (Fails \/ UNCHANGED ending)
  <2>1. CASE top.at = Len(dependsOn[top.m])
    BY <1>2, <2>1 DEF Depend
  <2>2. CASE top.at # Len(dependsOn[top.m])
    <3>c. order' = order /\ (CASE dep > Modules -> Fails /\ UNCHANGED visiting
            [] dep \in ToSet(order) -> /\ visiting' = [visiting EXCEPT ![Len(visiting)].at = @ + 1]
                                       /\ UNCHANGED <<stage, ending>>
            [] dep <= Modules /\ dep \notin ToSet(order) ->
                 IF Closes(dep) THEN Fails /\ UNCHANGED visiting ELSE LooksAt(dep))
      BY <2>2 DEF Depend
    <3>1. dep \in Nat \ {0}
      <4>1. top.at < Len(dependsOn[top.m]) /\ top.at \in Nat /\ dependsOn[top.m] \in Seq(Nat \ {0})
        BY <1>0, <1>1, <2>2, TopFrame DEF VisitFrame
      <4> QED BY <4>1
    <3> HIDE DEF dep
    <3>2. \/ Fails /\ UNCHANGED visiting
          \/ visiting' = [visiting EXCEPT ![Len(visiting)].at = @ + 1] /\ UNCHANGED <<stage, ending>>
          \/ dep <= Modules /\ LooksAt(dep)
      <4>1. dep > Modules \/ dep \in ToSet(order) \/ (dep <= Modules /\ dep \notin ToSet(order))
        BY <3>1 DEF BootAssumption
      <4>2. CASE dep > Modules /\ dep \notin ToSet(order)
        <5>1. ~(dep <= Modules)
          BY <3>1, <4>2 DEF BootAssumption
        <5> QED BY <3>c, <4>2, <5>1
      <4>3. CASE dep \in ToSet(order)
        <5>1. ~(dep > Modules)
          <6>1. PICK i \in DOMAIN order : order[i] = dep
            BY <4>3 DEF ToSet
          <6>2. order[i] \in 1..Modules /\ Modules \in Nat
            BY <1>0 DEF BootAssumption
          <6> QED BY <6>1, <6>2
        <5> QED BY <3>c, <4>3, <5>1
      <4>4. CASE dep <= Modules /\ dep \notin ToSet(order)
        <5>1. ~(dep > Modules)
          BY <3>1, <4>4 DEF BootAssumption
        <5> QED BY <3>c, <4>4, <5>1
      <4> QED BY <4>1, <4>2, <4>3, <4>4
    <3>3. dep <= Modules => dep \in 1..Modules
      BY <3>1 DEF BootAssumption
    <3> QED BY <1>0, <1>3, <1>4, <3>c, <3>2, <3>3 DEF LooksAt
  <2> QED BY <2>1, <2>2
<1>6. CASE Fails
  BY <1>0, <1>5, <1>6, LeaveTyped DEF Fails, BootTyped
<1>7. CASE UNCHANGED <<stage, ending>>
  BY <1>0, <1>5, <1>7 DEF ending, BootTyped
<1> QED BY <1>5, <1>6, <1>7

\* A step that leaves the start alone keeps what is proved of it.
LEMMA OnStarts ==
  ASSUME BootInv, BootAssumption, UNCHANGED starting
  PROVE  SortInv' /\ BuildInv'
<1>1. SortInv /\ BuildInv /\ UNCHANGED <<dependsOn, order, visiting, stage, built, hooked>>
  BY DEF BootInv, starting
<1>2. InOrder' /\ Frames' /\ Descends'
  BY <1>1, SameSort DEF SortInv
<1>3. SortEnds'
  BY <1>1 DEF SortInv, SortEnds, Orderable, Respects
<1> QED BY <1>1, <1>2, <1>3 DEF SortInv, BuildInv

\* Past the sort, a stage that does not end in failure.
LEMMA OnSorts ==
  ASSUME BootTyped, SortInv, stage # "sort", stage = "failed" => stage' = "failed", stage' # "sort",
         UNCHANGED <<dependsOn, order, visiting>>
  PROVE  SortInv'
<1>1. InOrder' /\ Frames' /\ Descends'
  BY SameSort DEF SortInv
<1>2. SortEnds'
  <2>1. stage' # "failed" => visiting = <<>> /\ ToSet(order) = 1..Modules
    BY DEF SortInv, SortEnds
  <2>2. ToSet(order) = 1..Modules \/ ~Orderable
    BY DEF SortInv, SortEnds
  <2>3. Orderable' <=> Orderable
    BY DEF Orderable, Respects
  <2>4. UNCHANGED <<dependsOn, order, visiting>> /\ stage' # "sort"
    OBVIOUS
  <2> QED BY ONLY <2>1, <2>2, <2>3, <2>4 DEF SortEnds
<1> QED BY <1>1, <1>2 DEF SortInv

\* Building the next module in order, or failing to.
LEMMA BuildStep ==
  ASSUME BootInv, BootAssumption, Build
  PROVE  BootTyped' /\ SortInv' /\ BuildInv'
<1>0. /\ stage = "build" /\ UNCHANGED <<dependsOn, visiting, order, hooked, client, pipe, listening, trapped, signals>>
      /\ BootTyped /\ SortInv /\ BuildInv
      /\ order \in Seq(1..Modules) /\ built \in Seq(1..Modules) /\ Len(order) \in Nat /\ Len(built) \in Nat
      /\ ToSet(order) = 1..Modules
  <2>1. stage = "build" /\ BootTyped /\ SortInv /\ BuildInv
        /\ UNCHANGED <<dependsOn, visiting, order, hooked, client, pipe, listening, trapped, signals>>
    BY DEF Build, BootInv
  <2>2. order \in Seq(1..Modules) /\ built \in Seq(1..Modules)
    BY <2>1 DEF BootTyped
  <2> QED BY <2>1, <2>2 DEF SortInv, SortEnds
<1>1. CASE Len(built) < Len(order) /\ built' = Append(built, order[Len(built) + 1]) /\ UNCHANGED <<stage, ending>>
  <2>1. order[Len(built) + 1] \in 1..Modules
    BY <1>0, <1>1
  <2>2. /\ built' \in Seq(1..Modules) /\ Len(built') = Len(built) + 1 /\ built'[Len(built) + 1] = order[Len(built) + 1]
        /\ \A i \in 1..Len(built) : built'[i] = built[i]
    BY <1>0, <1>1, <2>1
  <2>3. BuildInv'
    <3>0. \A i \in 1..Len(built) : built[i] = order[i]
      BY <1>0 DEF BuildInv
    <3>1. \A i \in 1..(Len(built) + 1) : built'[i] = order[i]
      <4>1. Len(built) \in Nat
        BY <1>0
      <4>2. \A i \in 1..(Len(built) + 1) : i \in 1..Len(built) \/ i = Len(built) + 1
        BY <4>1
      <4> QED BY ONLY <2>2, <3>0, <4>2
    <3>2. hooked = <<>> /\ Len(hooked) = 0
      BY <1>0 DEF BuildInv
    <3> QED BY <1>0, <1>1, <2>2, <3>1, <3>2 DEF BuildInv, ending
  <2>4. SortInv'
    BY <1>0, <1>1, OnSorts
  <2>5. BootTyped'
    BY <1>0, <1>1, <2>2 DEF BootTyped, ending
  <2> QED BY <2>3, <2>4, <2>5
<1>2. CASE Fails /\ UNCHANGED built
  <2>1. stage' = "failed"
    BY <1>2 DEF Fails
  <2> QED BY <1>0, <1>2, <2>1, OnSorts, LeaveTyped DEF Fails, BootTyped, BuildInv
<1>3. CASE Len(built) = Len(order) /\ stage' = "sync" /\ UNCHANGED <<built, ending>>
  BY <1>0, <1>3, OnSorts DEF BootTyped, BuildInv, ending
<1> QED BY <1>1, <1>2, <1>3 DEF Build

\* Running the next hook, in the order the modules were built.
LEMMA HookStep ==
  ASSUME BootInv, BootAssumption, OnIndexReady
  PROVE  BootTyped' /\ SortInv' /\ BuildInv'
<1>0. /\ stage = "hooks" /\ UNCHANGED <<dependsOn, visiting, order, built, client, pipe, listening, trapped, signals>>
      /\ BootTyped /\ SortInv /\ BuildInv
      /\ hooked \in Seq(1..Modules) /\ built \in Seq(1..Modules) /\ Len(hooked) \in Nat /\ Len(built) \in Nat
      /\ ToSet(order) = 1..Modules /\ Len(built) = Len(order)
  <2>1. stage = "hooks" /\ BootTyped /\ SortInv /\ BuildInv
        /\ UNCHANGED <<dependsOn, visiting, order, built, client, pipe, listening, trapped, signals>>
    BY DEF OnIndexReady, BootInv
  <2>2. hooked \in Seq(1..Modules) /\ built \in Seq(1..Modules)
    BY <2>1 DEF BootTyped
  <2> QED BY <2>1, <2>2 DEF SortInv, SortEnds, BuildInv
<1>1. CASE Len(hooked) < Len(built) /\ hooked' = Append(hooked, built[Len(hooked) + 1]) /\ UNCHANGED <<stage, ending>>
  <2>1. built[Len(hooked) + 1] \in 1..Modules
    BY <1>0, <1>1
  <2>2. /\ hooked' \in Seq(1..Modules) /\ Len(hooked') = Len(hooked) + 1 /\ hooked'[Len(hooked) + 1] = built[Len(hooked) + 1]
        /\ \A i \in 1..Len(hooked) : hooked'[i] = hooked[i]
    BY <1>0, <1>1, <2>1
  <2>3. BuildInv'
    <3>0. \A i \in 1..Len(hooked) : hooked[i] = built[i]
      BY <1>0 DEF BuildInv
    <3>1. \A i \in 1..(Len(hooked) + 1) : hooked'[i] = built[i]
      <4>1. Len(hooked) \in Nat
        BY <1>0
      <4>2. \A i \in 1..(Len(hooked) + 1) : i \in 1..Len(hooked) \/ i = Len(hooked) + 1
        BY <4>1
      <4> QED BY ONLY <2>2, <3>0, <4>2
    <3> QED BY <1>0, <1>1, <2>2, <3>1 DEF BuildInv, ending
  <2>4. SortInv'
    BY <1>0, <1>1, OnSorts
  <2>5. BootTyped'
    <3>1. BootTyped /\ hooked' \in Seq(1..Modules)
      BY <1>0, <2>2
    <3>2. UNCHANGED <<dependsOn, visiting, order, built, client, pipe, listening, trapped, signals, stage, ending>>
      BY <1>0, <1>1
    <3> QED BY ONLY <3>1, <3>2 DEF BootTyped, ending
  <2> QED BY <2>3, <2>4, <2>5
<1>2. CASE Fails /\ UNCHANGED hooked
  <2>1. stage' = "failed"
    BY <1>2 DEF Fails
  <2> QED BY <1>0, <1>2, <2>1, OnSorts, LeaveTyped DEF Fails, BootTyped, BuildInv
<1>3. CASE Len(hooked) = Len(built) /\ stage' = "session" /\ UNCHANGED <<hooked, ending>>
  BY <1>0, <1>3, OnSorts DEF BootTyped, BuildInv, ending
<1> QED BY <1>1, <1>2, <1>3 DEF OnIndexReady

\* A step of the start, which may fail, does not end anything.
LEMMA StartEnds ==
  ASSUME BootInv, Alive, UNCHANGED <<client, pipe, listening, trapped, signals>>,
         stage' \notin {"handle", "up"}, Fails \/ UNCHANGED ending
  PROVE  EndInv'
<1>1. CASE Fails
  BY <1>1 DEF BootInv, BootTyped, EndInv, Fails, Leave, Alive
<1>2. CASE UNCHANGED ending
  BY <1>2 DEF BootInv, BootTyped, EndInv, ending
<1> QED BY <1>1, <1>2

\* The steps of the start.
LEMMA StartedKeeps ==
  ASSUME BootInv, BootAssumption, Started
  PROVE  BootInv'
<1> USE DEF BootInv
<1>0. Alive /\ (Visit \/ Depend \/ Build \/ InitialCycle \/ OnIndexReady \/ Connect)
  BY DEF Started
<1>1. CASE Visit
  <2>1. SortInv' /\ stage' \in {"sort", "build"} /\ BootTyped'
    BY <1>1, VisitKeeps
  <2>2. EndInv'
    BY <1>0, <1>1, <2>1, StartEnds DEF Visit
  <2>3. BuildInv'
    <3>1. stage = "sort" /\ UNCHANGED <<order, built, hooked>> /\ BuildInv
      BY <1>1 DEF Visit
    <3> QED BY ONLY <2>1, <3>1 DEF BuildInv
  <2> QED BY <2>1, <2>2, <2>3
<1>2. CASE Depend
  <2>1. SortInv' /\ stage' \in {"sort", "failed"} /\ BootTyped'
    BY <1>2, DependKeeps, DependTyped
  <2>2. EndInv'
    <3>1. Fails \/ UNCHANGED ending
      BY <1>2, DependTyped
    <3> QED BY <1>0, <1>2, <2>1, <3>1, StartEnds DEF Depend
  <2>3. BuildInv'
    <3>1. built = <<>> /\ hooked = <<>> /\ UNCHANGED <<built, hooked>>
      BY <1>2 DEF Depend, BuildInv
    <3>2. Len(order') \in Nat
      BY <2>1 DEF BootTyped
    <3> QED BY <2>1, <3>1, <3>2 DEF BuildInv
  <2> QED BY <2>1, <2>2, <2>3
<1>3. CASE Build
  <2>1. BootTyped' /\ SortInv' /\ BuildInv'
    BY <1>3, BuildStep
  <2>2. UNCHANGED <<client, pipe, listening, trapped, signals>> /\ stage' \notin {"handle", "up"} /\ (Fails \/ UNCHANGED ending)
    BY <1>3 DEF Build, Fails
  <2> QED BY <1>0, <2>1, <2>2, StartEnds
<1>4. CASE InitialCycle
  <2>1. stage = "sync" /\ stage' = "hooks"
        /\ UNCHANGED <<dependsOn, visiting, order, built, hooked, client, pipe, listening, trapped, ending, signals>>
    BY <1>4 DEF InitialCycle
  <2>2. SortInv'
    BY <2>1, OnSorts
  <2>3. BuildInv'
    BY <2>1 DEF BuildInv
  <2>4. BootTyped'
    BY <2>1 DEF BootTyped, ending
  <2> QED BY <1>0, <2>1, <2>2, <2>3, <2>4, StartEnds
<1>5. CASE OnIndexReady
  <2>1. BootTyped' /\ SortInv' /\ BuildInv'
    BY <1>5, HookStep
  <2>2. UNCHANGED <<client, pipe, listening, trapped, signals>> /\ stage' \notin {"handle", "up"} /\ (Fails \/ UNCHANGED ending)
    BY <1>5 DEF OnIndexReady, Fails
  <2> QED BY <1>0, <2>1, <2>2, StartEnds
<1>6. CASE Connect
  <2>1. PICK l \in {"none", "on"} :
          /\ stage = "session" /\ pipe = "unread" /\ loop' = l /\ pipe' = "read"
          /\ UNCHANGED <<starting, client, listening, trapped, shuttingDown, sessions, telemetry, leaving, exit, signals>>
    BY <1>6 DEF Connect
  <2>2. SortInv' /\ BuildInv'
    BY <2>1, OnStarts
  <2>3. BootTyped'
    BY <2>1 DEF BootTyped, starting
  <2>4. EndInv'
    BY <2>1 DEF EndInv, starting, BootTyped
  <2> QED BY <2>2, <2>3, <2>4
<1> QED BY <1>0, <1>1, <1>2, <1>3, <1>4, <1>5, <1>6

\* The end of the session, when the client has gone or a signal was caught.
LEMMA SessionEnds ==
  ASSUME BootInv, Alive, pipe' # "unread", endSession, Leave("zero"), shuttingDown' \in BOOLEAN,
         ~client' \/ signals' < MaxSignals,
         UNCHANGED <<dependsOn, visiting, order, built, hooked>>,
         stage' \in {"sort", "build", "sync", "hooks", "session", "handle", "up", "failed"},
         client' \in BOOLEAN, listening' \in BOOLEAN, trapped' \in BOOLEAN, signals' \in 0..MaxSignals,
         pipe' \in {"read", "ended", "closed"}, pipe' \in {"ended", "closed"} => ~client'
  PROVE  BootTyped' /\ EndInv'
<1>1. sessions' = 1 /\ loop' # "on" /\ loop' \in {"none", "on", "off"}
  BY DEF endSession, BootInv, BootTyped, EndInv
<1>2. telemetry' \in {"on", "flushing", "flushed"} /\ leaving' \subseteq {"zero", "one"} /\ exit' = "none"
  BY LeaveTyped DEF BootInv, Alive
<1>3. BootTyped'
  BY <1>1, <1>2 DEF BootInv, BootTyped
<1>4. EndInv'
  BY <1>1, <1>2 DEF EndInv
<1> QED BY <1>3, <1>4

\* Listening to the client, and to signals: a client that went before is noticed here.
LEMMA ServedKeeps ==
  ASSUME BootInv, BootAssumption, Served
  PROVE  BootInv'
<1> USE DEF BootInv
<1>0. Alive /\ (Listen \/ Trap)
  BY DEF Served
<1>1. CASE Listen
  <2>0. /\ stage = "session" /\ pipe # "unread" /\ stage' = "handle" /\ listening' = TRUE
        /\ UNCHANGED <<dependsOn, visiting, order, built, hooked, client, pipe, trapped, signals>>
        /\ BootTyped
    BY <1>1 DEF Listen
  <2>1. SortInv'
    BY <2>0, OnSorts
  <2>2. BuildInv'
    BY <2>0 DEF BuildInv
  <2>3. CASE EndedBefore
    <3>1. endSession /\ Leave("zero") /\ shuttingDown' = shuttingDown
      BY <1>1, <2>3 DEF Listen, onStdinClosed
    <3>2. ~client /\ pipe \in {"ended", "closed"}
      BY <2>3 DEF EndedBefore, EndInv
    <3>3. BootTyped' /\ EndInv'
      BY <1>0, <2>0, <3>1, <3>2, SessionEnds DEF BootTyped
    <3> QED BY <2>1, <2>2, <3>3
  <2>4. CASE ~EndedBefore
    <3>1. UNCHANGED ending
      BY <1>1, <2>4 DEF Listen
    <3>2. BootTyped'
      BY <2>0, <3>1 DEF BootTyped, ending
    <3>3. EndInv'
      BY <2>0, <2>4, <3>1 DEF EndInv, EndedBefore, ending
    <3> QED BY <2>1, <2>2, <3>2, <3>3
  <2> QED BY <2>3, <2>4
<1>2. CASE Trap
  <2>0. /\ stage = "handle" /\ stage' = "up" /\ trapped' = TRUE
        /\ UNCHANGED <<dependsOn, visiting, order, built, hooked, client, pipe, listening, ending, signals>>
    BY <1>2 DEF Trap
  <2>1. SortInv'
    BY <2>0, OnSorts
  <2>2. BuildInv'
    BY <2>0 DEF BuildInv
  <2>3. BootTyped' /\ EndInv'
    BY <2>0 DEF BootTyped, EndInv, ending
  <2> QED BY <2>1, <2>2, <2>3
<1> QED BY <1>0, <1>1, <1>2

\* The steps of the end: the flush, the exit, the client that goes and the signals.
LEMMA EndKeeps ==
  ASSUME BootInv, BootAssumption, Flushed \/ Exits \/ ClientGone \/ StdinOver \/ onSignal
  PROVE  BootInv'
<1> USE DEF BootInv
<1>0. UNCHANGED starting
  BY DEF Flushed, Exits, ClientGone, StdinOver, onSignal
<1>s. SortInv' /\ BuildInv'
  BY <1>0, OnStarts
<1>1. CASE Flushed
  BY <1>1, <1>s DEF Flushed, starting, BootTyped, EndInv, Alive
<1>2. CASE Exits
  BY <1>2, <1>s DEF Exits, starting, BootTyped, EndInv, Alive
<1>3. CASE ClientGone
  <2>1. client' = FALSE /\ UNCHANGED <<starting, pipe, listening, trapped, ending, signals>>
    BY <1>3 DEF ClientGone
  <2>2. BootTyped'
    <3>1. BootTyped /\ UNCHANGED starting /\ UNCHANGED ending /\ UNCHANGED <<pipe, listening, trapped, signals>>
          /\ client' \in BOOLEAN
      BY <2>1
    <3> QED BY ONLY <3>1 DEF starting, ending, BootTyped
  <2>3. EndInv'
    BY <2>1 DEF starting, ending, EndInv
  <2> QED BY <1>s, <2>2, <2>3
<1>4. CASE StdinOver
  <2>0. /\ Alive /\ ~client /\ pipe \in {"read", "ended"} /\ pipe' \in {"ended", "closed"}
        /\ UNCHANGED <<starting, client, listening, trapped, signals>> /\ BootTyped
    BY <1>4 DEF StdinOver
  <2>1. CASE listening
    <3>1. endSession /\ Leave("zero") /\ shuttingDown' = shuttingDown
      BY <1>4, <2>1 DEF StdinOver, onStdinClosed
    <3>2. BootTyped' /\ EndInv'
      BY <2>0, <3>1, SessionEnds DEF BootTyped, starting
    <3> QED BY <1>s, <3>2
  <2>2. CASE ~listening
    <3>1. UNCHANGED ending
      BY <1>4, <2>2 DEF StdinOver
    <3>2. BootTyped'
      BY <2>0, <3>1 DEF BootTyped, starting, ending
    <3>3. EndInv'
      BY <2>0, <2>2, <3>1 DEF EndInv, starting, ending
    <3> QED BY <1>s, <3>2, <3>3
  <2> QED BY <2>1, <2>2 DEF BootTyped
<1>5. CASE onSignal
  <2>0. /\ Alive /\ signals > 0 /\ signals' = signals - 1 /\ signals' \in 0..MaxSignals /\ signals' < MaxSignals
        /\ UNCHANGED <<starting, client, pipe, listening, trapped>> /\ BootTyped
    BY <1>5 DEF onSignal, BootTyped, BootAssumption
  <2>1. CASE ~trapped
    <3>1. exit' = "killed" /\ UNCHANGED <<shuttingDown, loop, sessions, telemetry, leaving>>
      BY <1>5, <2>1 DEF onSignal
    <3>2. BootTyped' /\ EndInv'
      BY <2>0, <3>1 DEF BootTyped, EndInv, starting
    <3> QED BY <1>s, <3>2
  <2>2. CASE trapped /\ shuttingDown
    <3>1. UNCHANGED ending
      BY <1>5, <2>2 DEF onSignal
    <3>2. BootTyped' /\ EndInv'
      BY <2>0, <3>1 DEF BootTyped, EndInv, starting, ending
    <3> QED BY <1>s, <3>2
  <2>3. CASE trapped /\ ~shuttingDown
    <3>1. endSession /\ Leave("zero") /\ shuttingDown' = TRUE
      BY <1>5, <2>3 DEF onSignal
    <3>2. pipe # "unread" /\ (pipe \in {"ended", "closed"} => ~client)
      BY <2>3 DEF EndInv
    <3>3. BootTyped' /\ EndInv'
      BY <2>0, <3>1, <3>2, SessionEnds DEF BootTyped, starting
    <3> QED BY <1>s, <3>3
  <2> QED BY <2>1, <2>2, <2>3 DEF BootTyped
<1> QED BY <1>1, <1>2, <1>3, <1>4, <1>5

\* Whatever the modules declare, and however the client, the signals and the start meet, the invariant holds.
THEOREM BootInvariant == BootSpec => []BootInv
<1>1. BootInit => BootInv
  <2> SUFFICES ASSUME BootInit PROVE BootInv
    OBVIOUS
  <2>1. BootTyped
    <3>1. dependsOn \in [1..Modules -> Seq(Nat \ {0})]
      BY BootAssumption DEF BootInit, BootAssumption
    <3>2. visiting \in Seq(VisitFrame) /\ order \in Seq(1..Modules) /\ built \in Seq(1..Modules) /\ hooked \in Seq(1..Modules)
      BY DEF BootInit
    <3>3. signals \in 0..MaxSignals
      BY BootAssumption DEF BootInit, BootAssumption
    <3> QED BY <3>1, <3>2, <3>3 DEF BootInit, BootTyped
  <2>2. SortInv
    BY DEF BootInit, SortInv, InOrder, Frames, Descends, SortEnds
  <2>3. BuildInv /\ EndInv
    BY DEF BootInit, BuildInv, EndInv
  <2> QED BY <2>1, <2>2, <2>3 DEF BootInv
<1>2. BootInv /\ [BootNext]_bootVars => BootInv'
  <2> SUFFICES ASSUME BootInv, [BootNext]_bootVars PROVE BootInv'
    OBVIOUS
  <2>1. CASE BootNext
    BY <2>1, BootAssumption, StartedKeeps, ServedKeeps, EndKeeps DEF BootNext
  <2>2. CASE UNCHANGED bootVars
    <3>1. UNCHANGED starting
      BY <2>2 DEF bootVars, starting
    <3>2. SortInv' /\ BuildInv'
      BY <3>1, BootAssumption, OnStarts
    <3>3. BootTyped' /\ EndInv'
      BY <2>2 DEF bootVars, BootInv, BootTyped, EndInv
    <3> QED BY <3>2, <3>3 DEF BootInv
  <2> QED BY <2>1, <2>2
<1> QED BY <1>1, <1>2, PTL DEF BootSpec

\* Types, and no more visits under way than there are modules: the sort ends.
LEMMA BootTypesHold ==
  ASSUME BootInv, BootAssumption
  PROVE  BootTypeOK
<1>1. ToSet(order) \subseteq 1..Modules
  BY DEF BootInv, BootTyped, ToSet
<1>2. Len(visiting) <= Modules
  <2> DEFINE n == Len(visiting)  spot == [i \in 1..n |-> visiting[i].m]
  <2>1. n \in Nat /\ \A i \in 1..n : visiting[i].m \in 1..Modules
    <3>1. visiting \in Seq(VisitFrame)
      BY DEF BootInv, BootTyped
    <3>2. \A i \in 1..n : visiting[i] \in VisitFrame
      BY <3>1
    <3> QED BY <3>1, <3>2 DEF VisitFrame
  <2>2. spot \in [1..n -> 1..Modules]
    BY <2>1
  <2>3. \A i, j \in 1..n : spot[i] = spot[j] => i = j
    BY DEF BootInv, SortInv, Frames
  <2>4. spot \in Injection(1..n, 1..Modules)
    <3> HIDE DEF n, spot
    <3>1. DOMAIN spot = 1..n
      BY <2>2
    <3> QED BY <2>2, <2>3, <3>1 DEF Injection, IsInjective
  <2> HIDE DEF n, spot
  <2>5. Cardinality(1..n) = (IF 1 > n THEN 0 ELSE n - 1 + 1)
    BY <2>1, FS_Interval
  <2>6. Cardinality(1..Modules) = (IF 1 > Modules THEN 0 ELSE Modules - 1 + 1) /\ IsFiniteSet(1..Modules)
    BY FS_Interval DEF BootAssumption
  <2>7. Cardinality(1..n) <= Cardinality(1..Modules)
    BY <2>4, <2>6, FS_Injection
  <2>8. n <= Modules
    BY <2>1, <2>5, <2>6, <2>7 DEF BootAssumption
  <2> QED BY <2>8 DEF n
<1>3. Len(visiting) \in Nat
  BY DEF BootInv, BootTyped
<1> QED BY <1>1, <1>2, <1>3 DEF BootTypeOK, BootInv, BootTyped, BootAssumption

\* What the start and the end of the process promise.
THEOREM BootRightHolds == BootSpec => [](BootTypeOK /\ BootRight)
<1>1. ASSUME BootInv PROVE BootRight
  <2> USE <1>1, BootAssumption DEF BootInv
  <2>1. stage \notin {"sort", "failed"} => Orderable
    BY SortedOrders DEF SortInv, SortEnds
  <2>2. stage = "failed" /\ Len(order) < Modules => ~Orderable
    <3> SUFFICES ASSUME stage = "failed", Len(order) < Modules, ToSet(order) = 1..Modules PROVE FALSE
      BY DEF SortInv, SortEnds
    <3>1. Len(order) = Modules
      BY SortedOrders DEF SortInv
    <3> QED BY <3>1 DEF BootAssumption
  <2>3. ASSUME NEW i \in DOMAIN built
        PROVE  ToSet(dependsOn[built[i]]) \subseteq ToSet(SubSeq(built, 1, i - 1))
    <3>1. built \in Seq(1..Modules) /\ order \in Seq(1..Modules) /\ Len(built) \in Nat /\ Len(order) \in Nat
      BY DEF BootTyped
    <3>2. i \in 1..Len(built) /\ i \in 1..Len(order) /\ built[i] = order[i] /\ i - 1 \in Nat
      BY <3>1 DEF BuildInv
    <3>3. ASSUME NEW dep \in ToSet(dependsOn[order[i]]) PROVE dep \in ToSet(SubSeq(built, 1, i - 1))
      <4>1. PICK j \in 1..Len(order) : j < i /\ order[j] = dep
        BY <3>2 DEF SortInv, InOrder
      <4>2. j \in 1..(i - 1) /\ j \in 1..Len(built) /\ built[j] = dep
        <5>1. j \in 1..(i - 1) /\ j \in 1..Len(built)
          BY ONLY <3>1, <3>2, <4>1
        <5>2. \A l \in 1..Len(built) : built[l] = order[l]
          BY DEF BuildInv
        <5> QED BY <4>1, <5>1, <5>2
      <4>3. PICK k \in Nat : k = i - 1
        BY <3>2
      <4>4. Len(SubSeq(built, 1, k)) = k /\ SubSeq(built, 1, k)[j] = built[j] /\ SubSeq(built, 1, k) \in Seq(1..Modules)
        <5>1. k <= Len(built) /\ j \in 1..k
          BY ONLY <3>1, <3>2, <4>2, <4>3
        <5> QED BY <3>1, <5>1, PrefixIs
      <4>5. j \in DOMAIN SubSeq(built, 1, k)
        BY <4>2, <4>3, <4>4
      <4> QED BY <4>2, <4>3, <4>4, <4>5 DEF ToSet
    <3> QED BY <3>2, <3>3
  <2>4. hooked # <<>> => Len(built) = Modules
    BY SortedOrders DEF BuildInv, SortInv
  <2>5. sessions <= 1
    BY DEF BootTyped
  <2> QED BY <2>1, <2>2, <2>3, <2>4, <2>5 DEF BootRight, EndInv
<1>2. BootInv => BootTypeOK /\ BootRight
  BY <1>1, BootAssumption, BootTypesHold
<1> QED BY <1>2, BootInvariant, PTL

(***************************************************************************)
(* VectorIndex: what the index holds can be compared, before and after a   *)
(* restart, whatever the embeddings and the failures.                      *)
(***************************************************************************)

\* What an index may hold: nonzero vectors, all of one dimension.
Items == UNION {[D -> Vector] : D \in SUBSET Id}
Comparable(items) ==
  /\ items \in Items
  /\ \A k \in DOMAIN items : items[k] # <<>> /\ VectorNorm(items[k]) # 0
  /\ \A k, l \in DOMAIN items : Len(items[k]) = Len(items[l])

\* What is whole is loaded as it is, and its dimension is that of each of its vectors.
LEMMA WholeLoads ==
  ASSUME NEW items, Comparable(items), VectorIndexAssumption
  PROVE  /\ Loadable(items)
         /\ \A k \in DOMAIN items : Len(items[k]) = DimensionOf(items)
         /\ DOMAIN items # {} => DimensionOf(items) \in Nat \ {0}
         /\ DOMAIN items = {} => DimensionOf(items) = 0
<1>1. CASE DOMAIN items = {}
  BY <1>1 DEF Loadable, DimensionOf
<1>2. CASE DOMAIN items # {}
  <2>1. DOMAIN items \subseteq Nat
    BY DEF Comparable, Items, VectorIndexAssumption
  <2>2. Min(DOMAIN items) \in DOMAIN items
    BY <1>2, <2>1, LeastNumber DEF Min
  <2>3. \A k \in DOMAIN items : Len(items[k]) = DimensionOf(items)
    BY <1>2, <2>2 DEF Comparable, DimensionOf
  <2>4. \A k \in DOMAIN items : items[k] \in Seq(Nat) /\ items[k] # <<>>
    BY DEF Comparable, Items, VectorIndexAssumption
  <2>5. \A k \in DOMAIN items : Len(items[k]) \in Nat \ {0}
    BY <2>4
  <2> QED BY <1>2, <2>2, <2>3, <2>4, <2>5 DEF Comparable, Loadable, ValidVector
<1> QED BY <1>1, <1>2

\* An empty index is a whole one.
LEMMA NoItemsWhole == Comparable(NoItems)
<1>1. NoItems \in [{} -> Vector]
  BY DEF NoItems
<1> QED BY <1>1 DEF Comparable, Items, NoItems

\* What a put of a valid vector and a removal leave is whole.
LEMMA PutWhole ==
  ASSUME NEW items, Comparable(items), NEW k \in Id, NEW v \in Vector, v # <<>>, VectorNorm(v) # 0,
         \A l \in DOMAIN items : Len(items[l]) = Len(v)
  PROVE  /\ Comparable(WithItem(items, k, v))
         /\ \A l \in DOMAIN WithItem(items, k, v) : Len(WithItem(items, k, v)[l]) = Len(v)
<1> DEFINE new == WithItem(items, k, v)
<1>1. DOMAIN new = DOMAIN items \cup {k} /\ \A l \in DOMAIN new : new[l] = IF l = k THEN v ELSE items[l]
  BY DEF WithItem
<1>2. new \in [DOMAIN items \cup {k} -> Vector]
  BY <1>1 DEF Comparable, Items, WithItem
<1>3. DOMAIN items \cup {k} \in SUBSET Id
  BY DEF Comparable, Items
<1>4. new \in Items
  BY <1>2, <1>3 DEF Items
<1> HIDE DEF new
<1>5. Comparable(new) /\ \A l \in DOMAIN new : Len(new[l]) = Len(v)
  BY <1>1, <1>4 DEF Comparable
<1> QED BY <1>5 DEF new

\* What is left of a whole index after a removal is whole.
LEMMA RemoveWhole ==
  ASSUME NEW items, Comparable(items), NEW k
  PROVE  Comparable(Restrict(items, DOMAIN items \ {k}))
<1> DEFINE new == Restrict(items, DOMAIN items \ {k})
<1>1. new \in [DOMAIN items \ {k} -> Vector] /\ DOMAIN new = DOMAIN items \ {k}
  BY DEF Comparable, Items, Restrict
<1>2. DOMAIN items \ {k} \in SUBSET Id
  BY DEF Comparable, Items
<1>3. new \in Items
  BY <1>1, <1>2 DEF Items
<1>4. \A l \in DOMAIN new : new[l] = items[l] /\ l \in DOMAIN items
  BY <1>1 DEF Restrict
<1> HIDE DEF new
<1>5. Comparable(new)
  BY <1>3, <1>4 DEF Comparable
<1> QED BY <1>5 DEF new

\* The kinds of the state.
VectorTyped ==
  /\ indexFile \in [state : {"missing", "whole", "damaged"}, items : Items]
  /\ live \in [loaded : BOOLEAN, items : Items, dimension : Nat]
  /\ draft \in [open : BOOLEAN, items : Items]
  /\ writer \in {"off", "recreating", "empty", "idle", "puts", "removes", "writing", "written"}
  /\ acked \in [done : Items, next : Items]
  /\ Comparable(indexFile.items) /\ Comparable(live.items) /\ Comparable(draft.items) /\ Comparable(acked.done) /\ Comparable(acked.next)
  /\ draft.open <=> writer \in {"puts", "removes", "writing", "written"}

\* What searches see is what was reported done, and its dimension; before the start it is nothing.
Seen == /\ live.loaded => live.items = acked.done
        /\ ~live.loaded => live.items = NoItems
        /\ live.dimension = DimensionOf(live.items)
        /\ writer = "off" => ~live.loaded
        /\ writer \in {"idle", "puts", "removes", "writing", "written"} => live.loaded

\* What is on disk, at each step of a write.
OnFile ==
  /\ indexFile.state = "whole" => indexFile.items \in {acked.done, acked.next}
  /\ writer \in {"idle", "puts", "removes", "writing"} => indexFile.state = "whole" /\ indexFile.items = acked.done
  /\ writer \in {"idle", "puts", "removes"} => acked.next = acked.done
  /\ writer = "writing" => acked.next = draft.items
  /\ writer = "written" => /\ acked.next = draft.items
                           /\ indexFile.state = "whole" /\ indexFile.items = draft.items

\* The vectors of a draft have the dimension later ones are held to.
Expecting == writer = "puts" => \A k \in DOMAIN draft.items : Len(draft.items[k]) = Expected

VectorInv == VectorTyped /\ Seen /\ OnFile /\ Expecting

\* The invariant holds before anything is loaded.
LEMMA VectorInitially ==
  ASSUME VectorIndexInit
  PROVE  VectorInv
<1>1. NoItems \in Items
  BY NoItemsWhole DEF Comparable
<1>2. DimensionOf(NoItems) = 0
  BY DEF DimensionOf, NoItems
<1> QED BY <1>1, <1>2, NoItemsWhole DEF VectorIndexInit, VectorInv, VectorTyped, Seen, OnFile, Expecting, NotLoaded, NoDraft

\* Every step keeps the invariant: one step below for each action.
LEMMA VectorStep ==
  ASSUME VectorInv, [VectorIndexNext]_vectorIndexVars, VectorIndexAssumption
  PROVE  VectorInv'
<1> USE DEF VectorInv
<1>0. NoItems \in Items /\ DimensionOf(NoItems) = 0 /\ Comparable(NoItems) /\ DOMAIN NoItems = {}
  BY NoItemsWhole DEF Comparable, DimensionOf, NoItems
<1>d. \A items \in Items : Comparable(items) => DimensionOf(items) \in Nat
  <2> SUFFICES ASSUME NEW items \in Items, Comparable(items) PROVE DimensionOf(items) \in Nat
    OBVIOUS
  <2>1. CASE DOMAIN items = {}
    BY <2>1 DEF DimensionOf
  <2>2. CASE DOMAIN items # {}
    BY <2>2, WholeLoads
  <2> QED BY <2>1, <2>2
<1>1. ASSUME LoadIndexData PROVE VectorInv'
  BY <1>0, <1>1, <1>d DEF LoadIndexData, Loaded, VectorTyped, Seen, OnFile, Expecting
<1>2. ASSUME Recover PROVE VectorInv'
  BY <1>0, <1>2 DEF Recover, VectorTyped, Seen, OnFile, Expecting
<1>3. ASSUME RemoveIndex PROVE VectorInv'
  BY <1>0, <1>3 DEF RemoveIndex, VectorTyped, Seen, OnFile, Expecting
<1>4. ASSUME CreateIndex PROVE VectorInv'
  BY <1>0, <1>4 DEF CreateIndex, Loaded, VectorTyped, Seen, OnFile, Expecting
<1>5. ASSUME BeginUpdate PROVE VectorInv'
  <2>1. Expecting'
    <3>1. Comparable(live.items) /\ draft'.items = live.items /\ live' = live
      BY <1>5 DEF BeginUpdate, VectorTyped
    <3>2. Expected' = DimensionOf(live.items)
      BY <3>1, <1>d DEF Expected, Seen, VectorTyped
    <3> QED BY <3>1, <3>2, WholeLoads DEF Expecting
  <2> QED BY <1>5, <2>1 DEF BeginUpdate, VectorTyped, Seen, OnFile
<1>c. ASSUME CancelUpdate, UNCHANGED <<indexFile, live>>, writer \in {"puts", "writing"} PROVE VectorInv'
  BY <1>0, <1>c DEF CancelUpdate, NoDraft, VectorTyped, Seen, OnFile, Expecting
<1>6. ASSUME NEW k \in Id, NEW v \in Vector, UpsertItem(k, v) PROVE VectorInv'
  <2>1. CASE ~ValidVector(v, Expected)
    BY <1>6, <1>c, <2>1 DEF UpsertItem
  <2>2. CASE ValidVector(v, Expected)
    <3> DEFINE new == WithItem(draft.items, k, v)
    <3>1. /\ draft' = [draft EXCEPT !.items = new]
          /\ UNCHANGED <<writer, acked, indexFile, live>> /\ writer = "puts" /\ VectorNorm(v) # 0
      BY <1>6, <2>2 DEF UpsertItem
    <3>2. v # <<>> /\ (Expected # 0 => Len(v) = Expected)
      BY <2>2 DEF ValidVector
    <3>3. Comparable(draft.items) /\ \A l \in DOMAIN draft.items : Len(draft.items[l]) = Expected /\ Len(draft.items[l]) # 0
      <4>1. \A l \in DOMAIN draft.items : Len(draft.items[l]) = DimensionOf(draft.items) /\ DimensionOf(draft.items) # 0
        BY WholeLoads DEF VectorTyped
      <4> QED BY <3>1, <4>1 DEF VectorTyped, Expecting
    <3>4. \A l \in DOMAIN draft.items : Len(draft.items[l]) = Len(v)
      BY <3>2, <3>3
    <3>5. Comparable(new) /\ \A l \in DOMAIN new : Len(new[l]) = Len(v)
      BY <3>1, <3>2, <3>3, <3>4, PutWhole
    <3>6. k \in DOMAIN new
      BY DEF WithItem
    <3> HIDE DEF new
    <3>7. draft'.items = new /\ draft'.open = draft.open /\ draft' \in [open : BOOLEAN, items : Items]
      BY <3>1, <3>5 DEF VectorTyped, Comparable
    <3>8. DimensionOf(new) = Len(v)
      BY <3>5, <3>6, WholeLoads
    <3>9. Len(v) = Expected'
      BY <3>1, <3>2, <3>7, <3>8 DEF Expected
    <3>10. Expecting'
      BY <3>5, <3>7, <3>9 DEF Expecting
    <3> QED BY <3>1, <3>5, <3>7, <3>10 DEF VectorTyped, Seen, OnFile
  <2> QED BY <2>1, <2>2
<1>7. ASSUME NEW k \in Id, DeleteVector(k) PROVE VectorInv'
  <2> DEFINE new == Restrict(draft.items, DOMAIN draft.items \ {k})
  <2>1. Comparable(new)
    BY RemoveWhole DEF VectorTyped
  <2>2. draft' = [draft EXCEPT !.items = new]
    BY <1>7 DEF DeleteVector
  <2> HIDE DEF new
  <2>3. /\ draft' \in [open : BOOLEAN, items : Items] /\ draft'.items = new /\ draft'.open = draft.open
        /\ acked' = [acked EXCEPT !.next = new]
        /\ writer = "removes" /\ writer' = "writing" /\ UNCHANGED <<indexFile, live, writes, failures>>
    BY <1>7, <2>1, <2>2 DEF DeleteVector, VectorTyped, Comparable
  <2> QED BY <2>1, <2>3 DEF VectorTyped, Seen, OnFile, Expecting, Comparable
<1>8. ASSUME EndUpdate PROVE VectorInv'
  BY <1>8 DEF EndUpdate, VectorTyped, Seen, OnFile, Expecting
<1>9. ASSUME Persist PROVE VectorInv'
  BY <1>9, <1>c DEF Persist, VectorTyped, Seen, OnFile, Expecting
<1>10. ASSUME Swap PROVE VectorInv'
  BY <1>0, <1>10, <1>d DEF Swap, NoDraft, Promoted, VectorTyped, Seen, OnFile, Expecting
<1>11. ASSUME ProcessStops PROVE VectorInv'
  BY <1>0, <1>11 DEF ProcessStops, NoDraft, NotLoaded, VectorTyped, Seen, OnFile, Expecting
<1>12. ASSUME UNCHANGED vectorIndexVars PROVE VectorInv'
  BY <1>12 DEF vectorIndexVars, VectorTyped, Seen, OnFile, Expecting, Expected
<1> QED BY <1>1, <1>2, <1>3, <1>4, <1>5, <1>6, <1>7, <1>8, <1>9, <1>10, <1>11, <1>12 DEF VectorIndexNext

\* The inductive invariant of the index and its file (json-vector-index.ts 195-322).
THEOREM VectorIndexInvariant == VectorIndexSpec => []VectorInv
<1> USE VectorIndexAssumption
<1> QED BY VectorInitially, VectorStep, PTL DEF VectorIndexSpec

\* For any ids, vectors, updates and failures: searches see what was last reported done, of one dimension and
\* without a zero vector, and the file holds that or the update being written, whole (json-vector-index.ts 246-322).
THEOREM IndexKeptHolds == VectorIndexSpec => []IndexKept
<1>1. VectorInv => IndexKept
  BY VectorIndexAssumption, WholeLoads DEF VectorInv, VectorTyped, Seen, OnFile, IndexKept
<1> QED BY <1>1, VectorIndexInvariant, PTL

(***************************************************************************)
(* Requests, for any number of them, of retries and of mishaps.            *)
(***************************************************************************)

Ask == [what : Purpose, at : {"idle", "queued", "begins", "ready", "sent", "answered", "signs", "signed", "ended"},
        call : Nat, tries : 0..MaxRetries, again : BOOLEAN, probe : BOOLEAN, bearer : Nat,
        answer : {"none", "ok", "expired", "transient", "refused", "absent", "open", "failed", "auth", "shut out"}]
Tale == [done : Nat, attempts : Nat, spared : BOOLEAN]
Circuit == [state : {"closed", "open", "half"}, fails : 0..BreakAfter, ready : BOOLEAN]

\* The kinds of the state.
RequestsTyped ==
  /\ minted \in Nat /\ token \in 1..minted /\ honored \subseteq 1..minted
  /\ circuit \in Circuit
  /\ asking \in [Request -> Ask]
  /\ told \in [Request -> Tale]

\* How far a request is, and how often it was sent: t of its attempts are those of this run.
Course(a, t) ==
  /\ a.call \in 1..Length(a.what)
  /\ a.at = "idle" => a.call = 1 /\ a.answer = "none"
  /\ a.at \in {"idle", "queued"} => ~a.again /\ a.tries = 0 /\ ~a.probe /\ t.attempts = 0
  /\ t.done \in {a.call - 1, a.call}
  /\ a.at = "answered" /\ a.answer = "ok" => t.done = a.call
  /\ a.at = "answered" => a.answer \in {"ok", "expired", "transient", "refused", "absent"}
  /\ a.at = "ended" /\ a.answer = "ok" => t.done = Length(a.what)
  /\ a.at \in {"signs", "signed"} => ~a.again
  /\ a.at = "begins" => a.tries = 0
  /\ a.at = "signed" => a.answer \in {"ok", "transient", "refused"}
  /\ a.probe => a.at \in {"ready", "sent", "answered"}
  /\ a.answer = "auth" => a.at = "ended"

\* The attempts of an earlier run and of this one.
TimesSent(a) == CASE a.at = "begins" -> 0
             [] a.at = "ready" -> a.tries
             [] OTHER -> a.tries + 1
Counts(a, t) ==
  /\ t.attempts <= 2 * (MaxRetries + 1)
  /\ a.at \in {"begins", "ready", "sent", "answered"} => t.attempts <= (IF a.again THEN MaxRetries + 1 ELSE 0) + TimesSent(a)
  /\ a.at \in {"signs", "signed"} => t.attempts <= MaxRetries + 1

\* A sign-in that has been answered has a token that Paprika minted.
Signing == \A r \in Request : asking[r].at = "signed" /\ asking[r].answer = "ok" => asking[r].bearer \in 1..minted

\* Who was spared a forgotten token gets a good one by its sign-in, or by another's.
Good == \A s \in Request : asking[s].at = "signed" /\ asking[s].answer = "ok" => asking[s].bearer \in honored
Busy(a) == a.at \notin {"idle", "ended"}
Serves(a, t, current, takes) ==
  /\ t.spared /\ Busy(a) /\ a.again => /\ current \in takes
                                       /\ a.at = "sent" => a.bearer \in takes
                                       /\ a.at = "answered" => a.answer # "expired"
  /\ a.answer = "auth" => ~t.spared
Spares(r) ==
  /\ told[r].spared /\ Busy(asking[r]) => Good
  /\ Serves(asking[r], told[r], token, honored)

\* A half-open circuit has its probe.
Probing == circuit.state = "half" => \E r \in Request : asking[r].probe

Places == IsFiniteSet(Fetching) /\ Cardinality(Fetching) <= Concurrency

RequestsInv ==
  /\ RequestsTyped
  /\ \A r \in Request : Course(asking[r], told[r]) /\ Counts(asking[r], told[r])
  /\ Signing
  /\ \A r \in Request : Spares(r)
  /\ Probing
  /\ Places

\* A step of one request leaves the others as they are.
LEMMA OneAsks ==
  ASSUME RequestsTyped, NEW r \in Request, NEW a, asking' = [asking EXCEPT ![r] = a]
  PROVE  asking'[r] = a /\ \A s \in Request : s # r => asking'[s] = asking[s]
BY DEF RequestsTyped

\* Places are taken one at a time.
LEMMA PlacesKept ==
  ASSUME RequestsInv, RequestsAssumption, Fetching' \subseteq Fetching
  PROVE  Places'
<1>1. IsFiniteSet(Fetching') /\ Cardinality(Fetching') <= Cardinality(Fetching)
  BY FS_Subset DEF RequestsInv, Places
<1>2. Cardinality(Fetching) \in Nat /\ Cardinality(Fetching') \in Nat
  BY <1>1, FS_CardinalityType DEF RequestsInv, Places
<1> QED BY <1>1, <1>2 DEF RequestsInv, Places, RequestsAssumption

\* Who has one of the places for recipe fetches.
LEMMA InFetching ==
  ASSUME NEW r \in Request
  PROVE  r \in Fetching <=> asking[r].at \notin {"idle", "ended", "queued"} /\ asking[r].what = "fetch"
BY DEF Fetching, UnderWay, Is

\* One more place may be taken while there are fewer than the limit.
LEMMA PlaceTaken ==
  ASSUME RequestsInv, RequestsAssumption, NEW r \in Request, Fetching' \subseteq Fetching \cup {r},
         Cardinality(Fetching) < Concurrency
  PROVE  Places'
<1>1. IsFiniteSet(Fetching \cup {r}) /\ Cardinality(Fetching \cup {r}) <= Cardinality(Fetching) + 1
  <2>1. IsFiniteSet(Fetching) /\ Cardinality(Fetching) \in Nat
    BY FS_CardinalityType DEF RequestsInv, Places
  <2>2. Cardinality(Fetching \cup {r}) = (IF r \in Fetching THEN Cardinality(Fetching) ELSE Cardinality(Fetching) + 1)
    BY <2>1, FS_AddElement
  <2> QED BY <2>1, <2>2, FS_AddElement
<1>2. IsFiniteSet(Fetching') /\ Cardinality(Fetching') <= Cardinality(Fetching \cup {r})
  BY <1>1, FS_Subset
<1>3. Cardinality(Fetching) \in Nat /\ Cardinality(Fetching') \in Nat /\ Cardinality(Fetching \cup {r}) \in Nat
  BY <1>1, <1>2, FS_CardinalityType DEF RequestsInv, Places
<1> QED BY <1>1, <1>2, <1>3 DEF RequestsInv, Places, RequestsAssumption

\* A request is at least one call.
LEMMA ChainLength ==
  ASSUME RequestsAssumption, NEW what
  PROVE  Length(what) \in Nat \ {0}
BY DEF Length, RequestsAssumption

\* What a step of one request has to show: where it is itself, and that it leaves the others well.
Tokens(r) ==
  /\ minted' \in Nat /\ minted <= minted' /\ honored \subseteq honored' /\ honored' \subseteq 1..minted'
  /\ token' \in 1..minted'
  /\ token' = token \/ (asking[r].at = "signed" /\ asking[r].answer = "ok" /\ token' = asking[r].bearer)
Becomes(r, a, t) ==
  /\ asking' = [asking EXCEPT ![r] = a] /\ a \in Ask
  /\ told' = [told EXCEPT ![r] = t] /\ t \in Tale
  /\ Tokens(r)
  /\ circuit' \in Circuit
Sound(r, a, t) ==
  /\ Course(a, t) /\ Counts(a, t)
  /\ a.at = "signed" /\ a.answer = "ok" => a.bearer \in honored'
  /\ t.spared /\ Busy(a) => Good
  /\ Serves(a, t, token', honored')
  /\ circuit'.state = "half" => a.probe \/ \E s \in Request : s # r /\ asking[s].probe
  /\ a.at \notin {"idle", "ended", "queued"} /\ a.what = "fetch" => r \in Fetching \/ Cardinality(Fetching) < Concurrency

\* A step that is sound for the request that takes it keeps the invariant of all.
LEMMA OneStep ==
  ASSUME RequestsInv, RequestsAssumption, NEW r \in Request, NEW a, NEW t, Becomes(r, a, t), Sound(r, a, t)
  PROVE  RequestsInv'
<1> USE DEF RequestsInv
<1>1. /\ asking' \in [Request -> Ask] /\ asking'[r] = a /\ \A s \in Request : s # r => asking'[s] = asking[s]
      /\ told' \in [Request -> Tale] /\ told'[r] = t /\ \A s \in Request : s # r => told'[s] = told[s]
  BY DEF Becomes, RequestsTyped
<1>2. RequestsTyped'
  BY <1>1 DEF Becomes, Tokens, RequestsTyped
<1>3. \A s \in Request : Course(asking'[s], told'[s]) /\ Counts(asking'[s], told'[s])
  BY <1>1 DEF Sound
<1>4. Signing'
  <2> SUFFICES ASSUME NEW s \in Request, asking'[s].at = "signed", asking'[s].answer = "ok"
               PROVE  asking'[s].bearer \in 1..minted'
    BY DEF Signing
  <2>1. asking[s].at = "signed" /\ asking[s].answer = "ok" => asking[s].bearer \in 1..minted'
    BY DEF Signing, Becomes, Tokens, RequestsTyped
  <2>2. honored' \subseteq 1..minted'
    BY DEF Becomes, Tokens
  <2> QED BY <1>1, <2>1, <2>2 DEF Sound
<1>5. ASSUME NEW x \in Request, told'[x].spared, Busy(asking'[x]) PROVE Good
  <2>1. CASE x = r
    BY <1>1, <1>5, <2>1 DEF Sound
  <2>2. CASE x # r
    BY <1>1, <1>5, <2>2 DEF Spares
  <2> QED BY <2>1, <2>2
<1>6. ASSUME Good PROVE Good' \/ ~\E x \in Request : told'[x].spared /\ Busy(asking'[x])
  <2>1. ASSUME NEW s \in Request, asking'[s].at = "signed", asking'[s].answer = "ok"
        PROVE  asking'[s].bearer \in honored'
    <3>1. asking[s].at = "signed" /\ asking[s].answer = "ok" => asking[s].bearer \in honored'
      BY <1>6 DEF Good, Becomes, Tokens
    <3> QED BY <1>1, <2>1, <3>1 DEF Sound
  <2> QED BY <2>1 DEF Good
<1>7. ASSUME NEW x \in Request, x # r PROVE Serves(asking'[x], told'[x], token', honored')
  <2>1. asking'[x] = asking[x] /\ told'[x] = told[x] /\ Serves(asking[x], told[x], token, honored)
    BY <1>1, <1>7 DEF Spares
  <2>2. told[x].spared /\ Busy(asking[x]) => Good
    BY DEF Spares
  <2>3. told[x].spared /\ Busy(asking[x]) /\ token \in honored => token' \in honored'
    BY <2>2 DEF Good, Becomes, Tokens
  <2> QED BY <2>1, <2>3 DEF Serves, Becomes, Tokens
<1>8. \A x \in Request : Serves(asking'[x], told'[x], token', honored')
  BY <1>1, <1>7 DEF Sound
<1>9. \A x \in Request : Spares(x)'
  BY <1>5, <1>6, <1>8 DEF Spares
<1>10. Probing'
  BY <1>1 DEF Probing, Sound
<1>11. Places'
  <2>1. ASSUME NEW s \in Fetching' PROVE s \in Fetching \/ (s = r /\ Cardinality(Fetching) < Concurrency)
    <3>1. s \in Request /\ asking'[s].at \notin {"idle", "ended", "queued"} /\ asking'[s].what = "fetch"
      BY <2>1 DEF Fetching, UnderWay, Is
    <3>2. CASE s # r
      BY <1>1, <3>1, <3>2 DEF Fetching, UnderWay, Is
    <3>3. CASE s = r
      BY <1>1, <3>1, <3>3 DEF Sound
    <3> QED BY <3>2, <3>3
  <2>2. CASE Fetching' \subseteq Fetching
    BY <2>2, PlacesKept
  <2>3. CASE ~(Fetching' \subseteq Fetching)
    BY <2>1, <2>3, PlaceTaken
  <2> QED BY <2>2, <2>3
<1> QED BY <1>2, <1>3, <1>4, <1>9, <1>10, <1>11

\* A step that tells nothing new of a request.
LEMMA Untold ==
  ASSUME RequestsTyped, NEW r \in Request, told' = told
  PROVE  told' = [told EXCEPT ![r] = told[r]] /\ told[r] \in Tale
BY DEF RequestsTyped

\* A step that leaves the tokens alone.
LEMMA TokensKept ==
  ASSUME RequestsTyped, RequestsAssumption, NEW r \in Request, UNCHANGED <<token, minted, honored>>
  PROVE  Tokens(r)
BY DEF RequestsTyped, Tokens

\* The request and what is told of it, as the invariant has them.
LEMMA AsksNow ==
  ASSUME RequestsInv, RequestsAssumption, NEW r \in Request
  PROVE  /\ asking[r] \in Ask /\ told[r] \in Tale
         /\ Course(asking[r], told[r]) /\ Counts(asking[r], told[r])
         /\ Serves(asking[r], told[r], token, honored)
         /\ told[r].spared /\ Busy(asking[r]) => Good
         /\ MaxRetries \in Nat /\ Length(asking[r].what) \in Nat \ {0}
BY ChainLength DEF RequestsInv, RequestsTyped, RequestsAssumption, Spares

Stands(r, q, u) ==
  /\ q = asking[r] /\ u = told[r]
  /\ Course(q, u) /\ Counts(q, u) /\ Serves(q, u, token, honored) /\ (u.spared /\ Busy(q) => Good)
  /\ MaxRetries \in Nat /\ Length(q.what) \in Nat \ {0} /\ token \in 1..minted /\ token \in Nat
  /\ q.tries \in 0..MaxRetries /\ q.again \in BOOLEAN /\ u.attempts \in Nat /\ q.call \in Nat
\* There are constants equal to the request and what is told of it, with all the invariant says of them.
LEMMA Standing ==
  ASSUME RequestsInv, RequestsAssumption, NEW r \in Request
  PROVE  \E q \in Ask, u \in Tale : Stands(r, q, u)
<1>1. asking[r] \in Ask /\ told[r] \in Tale
  BY AsksNow
<1>2. /\ asking[r].tries \in 0..MaxRetries /\ asking[r].again \in BOOLEAN /\ asking[r].call \in Nat
      /\ told[r].attempts \in Nat
  BY <1>1 DEF Ask, Tale
<1>3. token \in 1..minted /\ token \in Nat
  BY DEF RequestsInv, RequestsTyped
<1>4. Stands(r, asking[r], told[r])
  BY <1>2, <1>3, AsksNow DEF Stands
<1> QED BY <1>1, <1>4

\* A half-open circuit has a probe, this request or another.
LEMMA SomeProbe ==
  ASSUME RequestsInv, NEW r \in Request, circuit.state = "half"
  PROVE  asking[r].probe \/ \E s \in Request : s # r /\ asking[s].probe
BY DEF RequestsInv, Probing

----------------------------------------------------------------------------
\* The steps of a request.

\* A request is made.
LEMMA AskedStep ==
  ASSUME RequestsInv, RequestsAssumption, NEW r \in Request, Asked(r)
  PROVE  RequestsInv'
<1> USE DEF RequestsInv
<1>1. PICK what \in Purpose :
        /\ Is(r, "idle")
        /\ asking' = [asking EXCEPT ![r] = [@ EXCEPT !.what = what, !.at = IF what = "fetch" THEN "queued" ELSE "begins"]]
        /\ told' = [told EXCEPT ![r].spared = ~\E s \in UnderWay : Is(s, "signed") /\ asking[s].bearer \notin honored]
        /\ UNCHANGED <<token, minted, honored, circuit, trouble>>
  BY DEF Asked
<1>2. PICK q \in Ask, u \in Tale : q = asking[r] /\ u = told[r]
  BY AsksNow
<1>3. PICK b \in BOOLEAN : b <=> ~\E s \in UnderWay : Is(s, "signed") /\ asking[s].bearer \notin honored
  OBVIOUS
<1>4. PICK next \in {"queued", "begins"} : next = IF what = "fetch" THEN "queued" ELSE "begins"
  OBVIOUS
<1> DEFINE a == [q EXCEPT !.what = what, !.at = next]
           t == [u EXCEPT !.spared = b]
<1>5. a \in Ask /\ t \in Tale
  BY <1>1, <1>4 DEF Ask, Tale
<1>6. /\ a.what = what /\ a.at = next /\ a.call = q.call /\ a.tries = q.tries /\ a.again = q.again
      /\ a.probe = q.probe /\ a.bearer = q.bearer /\ a.answer = q.answer
      /\ t.done = u.done /\ t.attempts = u.attempts /\ t.spared = b
  BY <1>1, <1>4 DEF Ask, Tale
<1>7. told' = [told EXCEPT ![r] = t]
  BY <1>1, <1>2, <1>3 DEF RequestsTyped, Tale
<1>8. Becomes(r, a, t)
  BY <1>1, <1>2, <1>4, <1>5, <1>7, TokensKept DEF Becomes, RequestsTyped
<1> HIDE DEF a, t
<1>9. /\ q.at = "idle" /\ Course(q, u) /\ Counts(q, u) /\ Serves(q, u, token, honored)
      /\ MaxRetries \in Nat /\ Length(what) \in Nat \ {0} /\ circuit' = circuit
  BY <1>1, <1>2, AsksNow, ChainLength DEF Is
<1>10. b => Good
  BY <1>1, <1>3 DEF Good, UnderWay, Is
<1>11. Course(a, t) /\ Counts(a, t)
  <2>0. /\ q.call = 1 /\ q.tries = 0 /\ ~q.again /\ ~q.probe /\ q.answer = "none"
        /\ u.attempts = 0 /\ u.done \in {q.call - 1, q.call}
    BY ONLY <1>9 DEF Course
  <2>1. /\ a.call = 1 /\ a.tries = 0 /\ ~a.again /\ ~a.probe /\ a.answer = "none"
        /\ t.attempts = 0 /\ t.done \in {0, 1}
    BY ONLY <2>0, <1>6
  <2>2. Course(a, t)
    BY ONLY <1>4, <1>6, <1>9, <2>1 DEF Course
  <2>3. Counts(a, t)
    BY ONLY <1>4, <1>6, <1>9, <2>1 DEF Counts, TimesSent
  <2> QED BY <2>2, <2>3
<1>12. Sound(r, a, t)
  BY <1>1, <1>2, <1>4, <1>6, <1>9, <1>10, <1>11, SomeProbe DEF Sound, Serves, Busy, Course
<1> QED BY <1>8, <1>12, OneStep

\* A fetch gets its turn.
LEMMA EntersStep ==
  ASSUME RequestsInv, RequestsAssumption, NEW r \in Request,
         Enters(r)
  PROVE  RequestsInv'
<1> USE DEF RequestsInv, Stands
<1>1. PICK q \in Ask, u \in Tale : Stands(r, q, u)
  BY Standing
<1>2. /\ q.at = "queued" /\ Cardinality(Fetching) < Concurrency
      /\ UNCHANGED <<token, minted, honored, circuit, told>>
      /\ asking' = [asking EXCEPT ![r].at = "begins"]
  BY <1>1 DEF Enters, Goes, Is
<1> DEFINE a == [q EXCEPT !.at = "begins"]
           t == u
<1>3. a \in Ask /\ t \in Tale
  BY <1>1 DEF Ask, Tale
<1>4. /\ a.what = q.what /\ a.at = "begins" /\ a.call = q.call /\ a.tries = q.tries /\ a.again = q.again
      /\ a.probe = q.probe /\ a.bearer = q.bearer /\ a.answer = q.answer /\ t.done = u.done /\ t.attempts = u.attempts
      /\ t.spared = u.spared
  BY <1>1 DEF Ask, Tale
<1>5. Becomes(r, a, t)
  BY <1>1, <1>2, <1>3, TokensKept DEF Becomes, RequestsTyped
<1> HIDE DEF a, t
<1>6. Course(a, t)
  BY ONLY <1>1, <1>2, <1>4 DEF Course
<1>7. Counts(a, t)
  BY ONLY <1>1, <1>2, <1>4 DEF Counts, Course, TimesSent
<1>8. Serves(a, t, token', honored')
  BY <1>1, <1>4, <1>2 DEF Serves, Busy, Course
<1>9. Sound(r, a, t)
  BY <1>1, <1>2, <1>4, <1>6, <1>7, <1>8, SomeProbe DEF Sound, Busy
<1> QED BY <1>5, <1>9, OneStep

\* The breaker turns a run away.
LEMMA TurnedAwayStep ==
  ASSUME RequestsInv, RequestsAssumption, NEW r \in Request,
         Begins(r), circuit.state = "open", ~circuit.ready
  PROVE  RequestsInv'
<1> USE DEF RequestsInv, Stands
<1>1. PICK q \in Ask, u \in Tale : Stands(r, q, u)
  BY Standing
<1>2. /\ q.at = "begins" /\ circuit.state = "open"
      /\ UNCHANGED <<token, minted, honored, circuit, told>>
      /\ asking' = [asking EXCEPT ![r] = [@ EXCEPT !.at = "ended", !.answer = "open", !.probe = FALSE]]
  BY <1>1 DEF Begins, Ends, Is
<1> DEFINE a == [q EXCEPT !.at = "ended", !.answer = "open", !.probe = FALSE]
           t == u
<1>3. a \in Ask /\ t \in Tale
  BY <1>1 DEF Ask, Tale
<1>4. /\ a.what = q.what /\ a.at = "ended" /\ a.call = q.call /\ a.tries = q.tries /\ a.again = q.again
      /\ a.probe = FALSE /\ a.bearer = q.bearer /\ a.answer = "open" /\ t.done = u.done /\ t.attempts = u.attempts
      /\ t.spared = u.spared
  BY <1>1 DEF Ask, Tale
<1>5. Becomes(r, a, t)
  BY <1>1, <1>2, <1>3, TokensKept DEF Becomes, RequestsTyped
<1> HIDE DEF a, t
<1>6. Course(a, t)
  BY ONLY <1>1, <1>2, <1>4 DEF Course
<1>7. Counts(a, t)
  <2>1. u.attempts <= 2 * (MaxRetries + 1)
    BY ONLY <1>1 DEF Counts
  <2>2. a.at \notin {"begins", "ready", "sent", "answered", "signs", "signed"}
    BY ONLY <1>4
  <2> QED BY ONLY <1>4, <2>1, <2>2 DEF Counts
<1>8. Serves(a, t, token', honored')
  BY <1>1, <1>4, <1>2 DEF Serves, Busy, Course
<1>9. Sound(r, a, t)
  BY <1>1, <1>2, <1>4, <1>6, <1>7, <1>8, SomeProbe DEF Sound, Busy
<1> QED BY <1>5, <1>9, OneStep

\* The breaker lets a run pass, or makes it its probe.
LEMMA PassesStep ==
  ASSUME RequestsInv, RequestsAssumption, NEW r \in Request,
         Begins(r), ~(circuit.state = "open" /\ ~circuit.ready)
  PROVE  RequestsInv'
<1> USE DEF RequestsInv, Stands
<1>1. PICK q \in Ask, u \in Tale : Stands(r, q, u)
  BY Standing
<1>2. /\ q.at = "begins" /\ circuit.state # "half"
      /\ UNCHANGED <<token, minted, honored, told>>
      /\ asking' = [asking EXCEPT ![r] = [@ EXCEPT !.at = "ready", !.probe = circuit.state = "open"]]
      /\ circuit' = [circuit EXCEPT !.state = IF @ = "open" THEN "half" ELSE @]
  BY <1>1 DEF Begins, Is
<1> DEFINE a == [q EXCEPT !.at = "ready", !.probe = (circuit.state = "open")]
           t == u
<1>3. a \in Ask /\ t \in Tale
  BY <1>1 DEF Ask, Tale
<1>4. /\ a.what = q.what /\ a.at = "ready" /\ a.call = q.call /\ a.tries = q.tries /\ a.again = q.again
      /\ a.probe = (circuit.state = "open") /\ a.bearer = q.bearer /\ a.answer = q.answer
      /\ t.done = u.done /\ t.attempts = u.attempts
      /\ t.spared = u.spared
  BY <1>1 DEF Ask, Tale
<1>5. Becomes(r, a, t)
  BY <1>1, <1>2, <1>3, TokensKept DEF Becomes, RequestsTyped, Circuit
<1> HIDE DEF a, t
<1>6. Course(a, t)
  BY ONLY <1>1, <1>2, <1>4 DEF Course
<1>7. Counts(a, t)
  BY ONLY <1>1, <1>2, <1>4 DEF Counts, TimesSent
<1>8. Serves(a, t, token', honored')
  BY <1>1, <1>4, <1>2 DEF Serves, Busy, Course
<1>9. Sound(r, a, t)
  BY <1>1, <1>2, <1>4, <1>6, <1>7, <1>8 DEF Sound, Busy, RequestsTyped, Circuit, Fetching, UnderWay, Is
<1> QED BY <1>5, <1>9, OneStep

\* An attempt is sent.
LEMMA AttemptStep ==
  ASSUME RequestsInv, RequestsAssumption, NEW r \in Request,
         Attempt(r)
  PROVE  RequestsInv'
<1> USE DEF RequestsInv, Stands
<1>1. PICK q \in Ask, u \in Tale : Stands(r, q, u)
  BY Standing
<1>2. /\ q.at = "ready"
      /\ UNCHANGED <<token, minted, honored, circuit>>
      /\ asking' = [asking EXCEPT ![r] = [@ EXCEPT !.at = "sent", !.bearer = token]]
      /\ told' = [told EXCEPT ![r].attempts = @ + 1]
  BY <1>1 DEF Attempt, Is
<1> DEFINE a == [q EXCEPT !.at = "sent", !.bearer = token]
           t == [u EXCEPT !.attempts = u.attempts + 1]
<1>3. a \in Ask /\ t \in Tale
  <2>1. a \in Ask
    BY <1>1 DEF Ask
  <2>2. t \in Tale
    BY ONLY <1>1 DEF Tale
  <2> QED BY <2>1, <2>2
<1>4. /\ a.what = q.what /\ a.at = "sent" /\ a.call = q.call /\ a.tries = q.tries /\ a.again = q.again
      /\ a.probe = q.probe /\ a.bearer = token /\ a.answer = q.answer /\ t.done = u.done /\ t.attempts = u.attempts + 1
      /\ t.spared = u.spared
  BY <1>1 DEF Ask, Tale
<1>5. Becomes(r, a, t)
  BY <1>1, <1>2, <1>3, TokensKept DEF Becomes, RequestsTyped
<1> HIDE DEF a, t
<1>6. Course(a, t)
  BY ONLY <1>1, <1>2, <1>4 DEF Course
<1>7. Counts(a, t)
  <2>1. u.attempts <= (IF q.again THEN MaxRetries + 1 ELSE 0) + q.tries
    BY ONLY <1>1, <1>2 DEF Counts, TimesSent
  <2> QED BY ONLY <1>1, <1>2, <1>4, <2>1 DEF Counts, TimesSent
<1>8. Serves(a, t, token', honored')
  BY <1>1, <1>4, <1>2 DEF Serves, Busy, Course
<1>9. Sound(r, a, t)
  BY <1>1, <1>2, <1>4, <1>6, <1>7, <1>8, SomeProbe DEF Sound, Busy, Fetching, UnderWay, Is
<1> QED BY <1>5, <1>9, OneStep

\* Paprika refuses a token it does not know.
LEMMA RefusedStep ==
  ASSUME RequestsInv, RequestsAssumption, NEW r \in Request,
         Is(r, "sent"), asking[r].bearer \notin honored, Answers(r, "expired"),
         UNCHANGED <<token, minted, honored, circuit, told>>
  PROVE  RequestsInv'
<1> USE DEF RequestsInv, Stands
<1>1. PICK q \in Ask, u \in Tale : Stands(r, q, u)
  BY Standing
<1>2. /\ q.at = "sent" /\ q.bearer \notin honored
      /\ UNCHANGED <<token, minted, honored, circuit>>
      /\ told' = told
      /\ asking' = [asking EXCEPT ![r] = [@ EXCEPT !.at = "answered", !.answer = "expired"]]
  BY <1>1 DEF Is, Answers
<1> DEFINE a == [q EXCEPT !.at = "answered", !.answer = "expired"]
           t == u
<1>3. a \in Ask /\ t \in Tale
  BY <1>1 DEF Ask, Tale
<1>4. /\ a.what = q.what /\ a.at = "answered" /\ a.call = q.call /\ a.tries = q.tries /\ a.again = q.again
      /\ a.probe = q.probe /\ a.bearer = q.bearer /\ a.answer = "expired" /\ t.done = u.done /\ t.attempts = u.attempts
      /\ t.spared = u.spared
  BY <1>1 DEF Ask, Tale
<1>5. Becomes(r, a, t)
  BY <1>1, <1>2, <1>3, TokensKept DEF Becomes, RequestsTyped
<1> HIDE DEF a, t
<1>6. Course(a, t)
  BY ONLY <1>1, <1>2, <1>4 DEF Course
<1>7. Counts(a, t)
  BY ONLY <1>1, <1>2, <1>4 DEF Counts, TimesSent
<1>8. Serves(a, t, token', honored')
  BY <1>1, <1>4, <1>2 DEF Serves, Busy, Course
<1>9. Sound(r, a, t)
  BY <1>1, <1>2, <1>4, <1>6, <1>7, <1>8, SomeProbe DEF Sound, Busy, Fetching, UnderWay, Is
<1> QED BY <1>5, <1>9, OneStep

\* Paprika carries the call out, and its answer may be lost or unreadable.
LEMMA CarriedOutStep ==
  ASSUME RequestsInv, RequestsAssumption, NEW r \in Request,
         Is(r, "sent"), NEW how \in {"ok", "transient", "refused"}, Answers(r, how), CarriedOut(r),
         UNCHANGED <<token, minted, honored, circuit>>
  PROVE  RequestsInv'
<1> USE DEF RequestsInv, Stands
<1>1. PICK q \in Ask, u \in Tale : Stands(r, q, u)
  BY Standing
<1>2. /\ q.at = "sent" /\ how \in {"ok", "transient", "refused"}
      /\ UNCHANGED <<token, minted, honored, circuit>>
      /\ told' = [told EXCEPT ![r].done = q.call]
      /\ asking' = [asking EXCEPT ![r] = [@ EXCEPT !.at = "answered", !.answer = how]]
  BY <1>1 DEF Is, Answers, CarriedOut
<1> DEFINE a == [q EXCEPT !.at = "answered", !.answer = how]
           t == [u EXCEPT !.done = q.call]
<1>3. a \in Ask /\ t \in Tale
  BY <1>1 DEF Ask, Tale
<1>4. /\ a.what = q.what /\ a.at = "answered" /\ a.call = q.call /\ a.tries = q.tries /\ a.again = q.again
      /\ a.probe = q.probe /\ a.bearer = q.bearer /\ a.answer = how /\ t.done = q.call /\ t.attempts = u.attempts
      /\ t.spared = u.spared
  BY <1>1 DEF Ask, Tale
<1>5. Becomes(r, a, t)
  BY <1>1, <1>2, <1>3, TokensKept DEF Becomes, RequestsTyped
<1> HIDE DEF a, t
<1>6. Course(a, t)
  BY ONLY <1>1, <1>2, <1>4 DEF Course
<1>7. Counts(a, t)
  BY ONLY <1>1, <1>2, <1>4 DEF Counts, TimesSent
<1>8. Serves(a, t, token', honored')
  BY <1>1, <1>4, <1>2 DEF Serves, Busy, Course
<1>9. Sound(r, a, t)
  BY <1>1, <1>2, <1>4, <1>6, <1>7, <1>8, SomeProbe DEF Sound, Busy, Fetching, UnderWay, Is
<1> QED BY <1>5, <1>9, OneStep

\* The call is not carried out.
LEMMA NotCarriedOutStep ==
  ASSUME RequestsInv, RequestsAssumption, NEW r \in Request,
         Is(r, "sent"), NEW how \in {"transient", "refused", "absent"}, Answers(r, how), UNCHANGED told,
         UNCHANGED <<token, minted, honored, circuit>>
  PROVE  RequestsInv'
<1> USE DEF RequestsInv, Stands
<1>1. PICK q \in Ask, u \in Tale : Stands(r, q, u)
  BY Standing
<1>2. /\ q.at = "sent" /\ how \in {"transient", "refused", "absent"}
      /\ UNCHANGED <<token, minted, honored, circuit>>
      /\ told' = told
      /\ asking' = [asking EXCEPT ![r] = [@ EXCEPT !.at = "answered", !.answer = how]]
  BY <1>1 DEF Is, Answers
<1> DEFINE a == [q EXCEPT !.at = "answered", !.answer = how]
           t == u
<1>3. a \in Ask /\ t \in Tale
  BY <1>1 DEF Ask, Tale
<1>4. /\ a.what = q.what /\ a.at = "answered" /\ a.call = q.call /\ a.tries = q.tries /\ a.again = q.again
      /\ a.probe = q.probe /\ a.bearer = q.bearer /\ a.answer = how /\ t.done = u.done /\ t.attempts = u.attempts
      /\ t.spared = u.spared
  BY <1>1 DEF Ask, Tale
<1>5. Becomes(r, a, t)
  BY <1>1, <1>2, <1>3, TokensKept DEF Becomes, RequestsTyped
<1> HIDE DEF a, t
<1>6. Course(a, t)
  BY ONLY <1>1, <1>2, <1>4 DEF Course
<1>7. Counts(a, t)
  BY ONLY <1>1, <1>2, <1>4 DEF Counts, TimesSent
<1>8. Serves(a, t, token', honored')
  BY <1>1, <1>4, <1>2 DEF Serves, Busy, Course
<1>9. Sound(r, a, t)
  BY <1>1, <1>2, <1>4, <1>6, <1>7, <1>8, SomeProbe DEF Sound, Busy, Fetching, UnderWay, Is
<1> QED BY <1>5, <1>9, OneStep

\* A call arrives: refused for its token, carried out, or not.
LEMMA ArrivesStep ==
  ASSUME RequestsInv, RequestsAssumption, NEW r \in Request, Arrives(r)
  PROVE  RequestsInv'
<1>1. Is(r, "sent") /\ UNCHANGED <<token, minted, honored, circuit>>
  BY DEF Arrives
<1>2. CASE asking[r].bearer \notin honored /\ Answers(r, "expired") /\ UNCHANGED told
  BY <1>1, <1>2, RefusedStep
<1>3. CASE Answers(r, "ok") /\ CarriedOut(r)
  BY <1>1, <1>3, CarriedOutStep
<1>4. CASE (\E how \in {"transient", "refused"} : Answers(r, how)) /\ CarriedOut(r)
  <2>1. PICK how \in {"transient", "refused"} : Answers(r, how)
    BY <1>4
  <2> QED BY <1>1, <1>4, <2>1, CarriedOutStep
<1>5. CASE (\E how \in {"transient", "refused", "absent"} : Answers(r, how)) /\ UNCHANGED told
  <2>1. PICK how \in {"transient", "refused", "absent"} : Answers(r, how)
    BY <1>5
  <2> QED BY <1>1, <1>5, <2>1, NotCarriedOutStep
<1> QED BY <1>2, <1>3, <1>4, <1>5 DEF Arrives

\* The end of a run leaves the circuit half-open only to the probe of another.
LEMMA RunEnds ==
  ASSUME RequestsInv, RequestsAssumption, NEW r \in Request, RunSucceeds(r) \/ RunErrs(r) \/ RunFails(r)
  PROVE  /\ circuit' \in Circuit
         /\ circuit'.state = "half" => \E s \in Request : s # r /\ asking[s].probe
<1> USE DEF RequestsInv
<1>0. RunSucceeds(r) \/ RunErrs(r) \/ RunFails(r)
  OBVIOUS
<1>1. PICK c \in Circuit : c = circuit
  BY DEF RequestsTyped
<1>2. /\ c.state \in {"closed", "open", "half"} /\ c.fails \in 0..BreakAfter /\ c.ready \in BOOLEAN
      /\ BreakAfter \in Nat \ {0} /\ asking[r].probe \in BOOLEAN
  BY AsksNow DEF Circuit, RequestsAssumption, Ask
<1>3. /\ circuit' \in Circuit
      /\ circuit'.state = "half" => c.state = "half" /\ ~asking[r].probe
  <2>1. CASE RunSucceeds(r)
    <3>1. CASE asking[r].probe
      <4>1. PICK x \in {"closed", "open", "half"} : x = IF c.state = "half" THEN "closed" ELSE c.state
        BY ONLY <1>2
      <4>2. circuit' = [c EXCEPT !.state = x, !.fails = 0]
        BY ONLY <1>1, <2>1, <3>1, <4>1 DEF RunSucceeds, Closed
      <4>3. 0 \in 0..BreakAfter
        BY ONLY <1>2
      <4>4. circuit' \in Circuit /\ circuit'.state = x
        BY ONLY <1>1, <4>1, <4>2, <4>3 DEF Circuit
      <4> QED BY ONLY <4>1, <4>4
    <3>2. CASE ~asking[r].probe
      BY ONLY <1>1, <1>2, <2>1, <3>2 DEF RunSucceeds, Circuit
    <3> QED BY <3>1, <3>2
  <2>2. CASE RunErrs(r)
    <3>1. CASE asking[r].probe
      BY ONLY <1>1, <1>2, <2>2, <3>1 DEF RunErrs, Closed, Circuit
    <3>2. CASE ~asking[r].probe
      BY ONLY <1>1, <1>2, <2>2, <3>2 DEF RunErrs, Circuit
    <3> QED BY <3>1, <3>2
  <2>3. CASE RunFails(r)
    <3>1. CASE Breaks(r)
      BY ONLY <1>1, <1>2, <2>3, <3>1 DEF RunFails, Circuit
    <3>2. CASE ~Breaks(r)
      <4>1. circuit' = [c EXCEPT !.fails = IF @ < BreakAfter THEN @ + 1 ELSE @]
        BY ONLY <1>1, <2>3, <3>2 DEF RunFails
      <4>2. circuit' \in Circuit /\ circuit'.state = c.state
        BY ONLY <1>1, <1>2, <4>1 DEF Circuit
      <4>3. c.state = "half" => ~asking[r].probe
        BY ONLY <1>1, <1>2, <3>2 DEF Breaks
      <4> QED BY <4>2, <4>3
    <3> QED BY <3>1, <3>2
  <2> QED BY ONLY <1>0, <2>1, <2>2, <2>3
<1> QED BY <1>1, <1>3, SomeProbe

\* The last call succeeds.
LEMMA LastCallStep ==
  ASSUME RequestsInv, RequestsAssumption, NEW r \in Request,
         Is(r, "answered"), asking[r].answer = "ok",
         asking[r].call = Length(asking[r].what), Ends(r, "ok"), UNCHANGED told, RunSucceeds(r) \/ RunErrs(r) \/ RunFails(r),
         UNCHANGED <<token, minted, honored>>
  PROVE  RequestsInv'
<1> USE DEF RequestsInv, Stands
<1>1. PICK q \in Ask, u \in Tale : Stands(r, q, u)
  BY Standing
<1>2. /\ q.at = "answered" /\ q.answer = "ok" /\ q.call = Length(q.what)
      /\ UNCHANGED <<token, minted, honored>>
      /\ told' = told
      /\ asking' = [asking EXCEPT ![r] = [@ EXCEPT !.at = "ended", !.answer = "ok", !.probe = FALSE]]
  BY <1>1 DEF Is, Ends
<1> DEFINE a == [q EXCEPT !.at = "ended", !.answer = "ok", !.probe = FALSE]
           t == u
<1>3. a \in Ask /\ t \in Tale
  BY <1>1 DEF Ask, Tale
<1>4. /\ a.what = q.what /\ a.at = "ended" /\ a.call = q.call /\ a.tries = q.tries /\ a.again = q.again
      /\ a.probe = FALSE /\ a.bearer = q.bearer /\ a.answer = "ok" /\ t.done = u.done /\ t.attempts = u.attempts
      /\ t.spared = u.spared
  BY <1>1 DEF Ask, Tale
<1>5. Becomes(r, a, t)
  BY <1>1, <1>2, <1>3, TokensKept, RunEnds DEF Becomes, RequestsTyped
<1> HIDE DEF a, t
<1>6. Course(a, t)
  BY ONLY <1>1, <1>2, <1>4 DEF Course
<1>7. Counts(a, t)
  <2>1. u.attempts <= 2 * (MaxRetries + 1)
    BY ONLY <1>1 DEF Counts
  <2>2. a.at \notin {"begins", "ready", "sent", "answered", "signs", "signed"}
    BY ONLY <1>4
  <2> QED BY ONLY <1>4, <2>1, <2>2 DEF Counts
<1>8. Serves(a, t, token', honored')
  BY <1>1, <1>4, <1>2 DEF Serves, Busy, Course
<1>9. Sound(r, a, t)
  BY <1>1, <1>2, <1>4, <1>6, <1>7, <1>8, RunEnds DEF Sound, Busy, Fetching, UnderWay, Is
<1> QED BY <1>5, <1>9, OneStep

\* A call succeeds and the next one is made.
LEMMA NextCallStep ==
  ASSUME RequestsInv, RequestsAssumption, NEW r \in Request,
         Is(r, "answered"), asking[r].answer = "ok",
         asking[r].call # Length(asking[r].what), NextCall(r), RunSucceeds(r) \/ RunErrs(r) \/ RunFails(r),
         UNCHANGED <<token, minted, honored>>
  PROVE  RequestsInv'
<1> USE DEF RequestsInv, Stands
<1>1. PICK q \in Ask, u \in Tale : Stands(r, q, u)
  BY Standing
<1>2. /\ q.at = "answered" /\ q.answer = "ok" /\ q.call # Length(q.what)
      /\ UNCHANGED <<token, minted, honored>>
      /\ told' = [told EXCEPT ![r].attempts = 0]
      /\ asking' = [asking EXCEPT ![r] = [@ EXCEPT !.at = "begins", !.call = asking[r].call + 1, !.tries = 0,
                                                !.again = FALSE, !.probe = FALSE, !.answer = "none"]]
  BY <1>1 DEF Is, NextCall
<1> DEFINE a == [q EXCEPT !.at = "begins", !.call = q.call + 1, !.tries = 0, !.again = FALSE, !.probe = FALSE, !.answer = "none"]
           t == [u EXCEPT !.attempts = 0]
<1>3. a \in Ask /\ t \in Tale
  <2>1. 0 \in 0..MaxRetries /\ q.call + 1 \in Nat
    BY ONLY <1>1
  <2> QED BY <1>1, <2>1 DEF Ask, Tale
<1>4. /\ a.what = q.what /\ a.at = "begins" /\ a.call = q.call + 1 /\ a.tries = 0 /\ a.again = FALSE
      /\ a.probe = FALSE /\ a.bearer = q.bearer /\ a.answer = "none" /\ t.done = u.done /\ t.attempts = 0
      /\ t.spared = u.spared
  BY <1>1 DEF Ask, Tale
<1>5. Becomes(r, a, t)
  <2>1. asking' = [asking EXCEPT ![r] = a]
    BY <1>1, <1>2
  <2>2. told' = [told EXCEPT ![r] = t]
    BY <1>1, <1>2 DEF RequestsTyped
  <2> QED BY <1>2, <1>3, <2>1, <2>2, TokensKept, RunEnds DEF Becomes, RequestsTyped
<1> HIDE DEF a, t
<1>6. Course(a, t)
  BY ONLY <1>1, <1>2, <1>4 DEF Course
<1>7. Counts(a, t)
  BY ONLY <1>1, <1>2, <1>4 DEF Counts, TimesSent
<1>8. Serves(a, t, token', honored')
  BY <1>1, <1>4, <1>2 DEF Serves, Busy, Course
<1>9. Sound(r, a, t)
  BY <1>1, <1>2, <1>4, <1>6, <1>7, <1>8, RunEnds DEF Sound, Busy, Fetching, UnderWay, Is
<1> QED BY <1>5, <1>9, OneStep

\* A transient error is worth a retry.
LEMMA RetriedStep ==
  ASSUME RequestsInv, RequestsAssumption, NEW r \in Request,
         Is(r, "answered"), WorthARetry(r), Retried(r, "ready"), UNCHANGED told,
         UNCHANGED <<token, minted, honored, circuit>>
  PROVE  RequestsInv'
<1> USE DEF RequestsInv, Stands
<1>1. PICK q \in Ask, u \in Tale : Stands(r, q, u)
  BY Standing
<1>2. /\ q.at = "answered" /\ q.answer = "transient" /\ q.tries < MaxRetries
      /\ UNCHANGED <<token, minted, honored, circuit>>
      /\ told' = told
      /\ asking' = [asking EXCEPT ![r] = [@ EXCEPT !.at = "ready", !.tries = asking[r].tries + 1]]
  BY <1>1 DEF Is, WorthARetry, Retried
<1> DEFINE a == [q EXCEPT !.at = "ready", !.tries = q.tries + 1]
           t == u
<1>3. a \in Ask /\ t \in Tale
  <2>1. q.tries + 1 \in 0..MaxRetries
    BY ONLY <1>1, <1>2
  <2> QED BY <1>1, <2>1 DEF Ask, Tale
<1>4. /\ a.what = q.what /\ a.at = "ready" /\ a.call = q.call /\ a.tries = q.tries + 1 /\ a.again = q.again
      /\ a.probe = q.probe /\ a.bearer = q.bearer /\ a.answer = q.answer /\ t.done = u.done /\ t.attempts = u.attempts
      /\ t.spared = u.spared
  BY <1>1 DEF Ask, Tale
<1>5. Becomes(r, a, t)
  <2>1. asking' = [asking EXCEPT ![r] = a]
    BY <1>1, <1>2
  <2>2. told' = [told EXCEPT ![r] = t]
    BY <1>1, <1>2 DEF RequestsTyped
  <2> QED BY <1>2, <1>3, <2>1, <2>2, TokensKept DEF Becomes, RequestsTyped
<1> HIDE DEF a, t
<1>6. Course(a, t)
  BY ONLY <1>1, <1>2, <1>4 DEF Course
<1>7. Counts(a, t)
  BY ONLY <1>1, <1>2, <1>4 DEF Counts, TimesSent
<1>8. Serves(a, t, token', honored')
  BY <1>1, <1>4, <1>2 DEF Serves, Busy, Course
<1>9. Sound(r, a, t)
  BY <1>1, <1>2, <1>4, <1>6, <1>7, <1>8, SomeProbe DEF Sound, Busy, Fetching, UnderWay, Is
<1> QED BY <1>5, <1>9, OneStep

\* A run ends for good.
LEMMA GivenUpStep ==
  ASSUME RequestsInv, RequestsAssumption, NEW r \in Request,
         Is(r, "answered"), asking[r].answer # "ok", NEW how, Ends(r, how), UNCHANGED told,
         how \in {"failed", "refused", "absent"} \/ (how = "auth" /\ asking[r].answer = "expired" /\ SecondRun(r)),
         RunSucceeds(r) \/ RunErrs(r) \/ RunFails(r),
         UNCHANGED <<token, minted, honored>>
  PROVE  RequestsInv'
<1> USE DEF RequestsInv, Stands
<1>1. PICK q \in Ask, u \in Tale : Stands(r, q, u)
  BY Standing
<1>2. /\ q.at = "answered" /\ (how \in {"failed", "refused", "absent"} \/ (how = "auth" /\ q.answer = "expired" /\ q.again))
      /\ UNCHANGED <<token, minted, honored>>
      /\ told' = told
      /\ asking' = [asking EXCEPT ![r] = [@ EXCEPT !.at = "ended", !.answer = how, !.probe = FALSE]]
  BY <1>1 DEF Is, Ends, SecondRun
<1> DEFINE a == [q EXCEPT !.at = "ended", !.answer = how, !.probe = FALSE]
           t == u
<1>3. a \in Ask /\ t \in Tale
  BY <1>1, <1>2 DEF Ask, Tale
<1>4. /\ a.what = q.what /\ a.at = "ended" /\ a.call = q.call /\ a.tries = q.tries /\ a.again = q.again
      /\ a.probe = FALSE /\ a.bearer = q.bearer /\ a.answer = how /\ t.done = u.done /\ t.attempts = u.attempts
      /\ t.spared = u.spared
  BY <1>1 DEF Ask, Tale
<1>5. Becomes(r, a, t)
  BY <1>1, <1>2, <1>3, TokensKept, RunEnds DEF Becomes, RequestsTyped
<1> HIDE DEF a, t
<1>6. Course(a, t)
  BY ONLY <1>1, <1>2, <1>4 DEF Course
<1>7. Counts(a, t)
  <2>1. u.attempts <= 2 * (MaxRetries + 1)
    BY ONLY <1>1 DEF Counts
  <2>2. a.at \notin {"begins", "ready", "sent", "answered", "signs", "signed"}
    BY ONLY <1>4
  <2> QED BY ONLY <1>4, <2>1, <2>2 DEF Counts
<1>8. Serves(a, t, token', honored')
  <2>0. Serves(q, u, token, honored) /\ Busy(q) /\ q.at = "answered"
    BY <1>1, <1>2 DEF Busy
  <2>1. q.answer = "expired" /\ q.again => ~u.spared
    BY ONLY <2>0 DEF Serves
  <2> QED BY ONLY <1>2, <1>4, <2>1 DEF Serves, Busy
<1>9. Sound(r, a, t)
  BY <1>1, <1>2, <1>4, <1>6, <1>7, <1>8, RunEnds DEF Sound, Busy, Fetching, UnderWay, Is
<1> QED BY <1>5, <1>9, OneStep

\* A refused token has the request sign in again.
LEMMA ReplaysStep ==
  ASSUME RequestsInv, RequestsAssumption, NEW r \in Request,
         Is(r, "answered"), ~SecondRun(r), Replays(r), UNCHANGED told, RunSucceeds(r) \/ RunErrs(r) \/ RunFails(r),
         UNCHANGED <<token, minted, honored>>
  PROVE  RequestsInv'
<1> USE DEF RequestsInv, Stands
<1>1. PICK q \in Ask, u \in Tale : Stands(r, q, u)
  BY Standing
<1>2. /\ q.at = "answered" /\ ~q.again
      /\ UNCHANGED <<token, minted, honored>>
      /\ told' = told
      /\ asking' = [asking EXCEPT ![r] = [@ EXCEPT !.at = "signs", !.tries = 0, !.probe = FALSE]]
  BY <1>1 DEF Is, SecondRun, Replays
<1> DEFINE a == [q EXCEPT !.at = "signs", !.tries = 0, !.probe = FALSE]
           t == u
<1>3. a \in Ask /\ t \in Tale
  <2>1. 0 \in 0..MaxRetries
    BY ONLY <1>1
  <2> QED BY <1>1, <2>1 DEF Ask, Tale
<1>4. /\ a.what = q.what /\ a.at = "signs" /\ a.call = q.call /\ a.tries = 0 /\ a.again = q.again
      /\ a.probe = FALSE /\ a.bearer = q.bearer /\ a.answer = q.answer /\ t.done = u.done /\ t.attempts = u.attempts
      /\ t.spared = u.spared
  BY <1>1 DEF Ask, Tale
<1>5. Becomes(r, a, t)
  BY <1>1, <1>2, <1>3, TokensKept, RunEnds DEF Becomes, RequestsTyped
<1> HIDE DEF a, t
<1>6. Course(a, t)
  BY ONLY <1>1, <1>2, <1>4 DEF Course
<1>7. Counts(a, t)
  BY ONLY <1>1, <1>2, <1>4 DEF Counts, TimesSent
<1>8. Serves(a, t, token', honored')
  BY <1>1, <1>4, <1>2 DEF Serves, Busy, Course
<1>9. Sound(r, a, t)
  BY <1>1, <1>2, <1>4, <1>6, <1>7, <1>8, RunEnds DEF Sound, Busy, Fetching, UnderWay, Is
<1> QED BY <1>5, <1>9, OneStep

\* What becomes of a request with the answer to its call.
LEMMA SettlesStep ==
  ASSUME RequestsInv, RequestsAssumption, NEW r \in Request, Settles(r)
  PROVE  RequestsInv'
<1>1. /\ asking[r].answer \in {"ok", "expired", "transient", "refused", "absent"} /\ token # 0
      /\ Is(r, "answered") /\ UNCHANGED <<token, minted, honored>>
  BY AsksNow DEF Settles, Is, Course, RequestsInv, RequestsTyped
<1>2. CASE asking[r].answer = "ok"
  <2>1. NextCall(r) /\ RunSucceeds(r)
    BY <1>2 DEF Settles, WorthARetry
  <2> QED BY <1>1, <1>2, <2>1, LastCallStep, NextCallStep DEF NextCall
<1>3. CASE WorthARetry(r)
  <2>1. Retried(r, "ready") /\ UNCHANGED <<circuit, told>>
    BY <1>3 DEF Settles, WorthARetry
  <2> QED BY <1>1, <1>3, <2>1, RetriedStep
<1>4. CASE asking[r].answer = "transient" /\ ~WorthARetry(r)
  <2>1. Ends(r, "failed") /\ RunFails(r) /\ UNCHANGED told
    BY <1>4 DEF Settles
  <2> QED BY <1>1, <1>4, <2>1, GivenUpStep
<1>5. CASE asking[r].answer = "expired"
  <2>1. (IF SecondRun(r) \/ token = 0 THEN Ends(r, "auth") ELSE Replays(r)) /\ RunErrs(r) /\ UNCHANGED told
    BY <1>5 DEF Settles, WorthARetry
  <2>2. CASE SecondRun(r)
    BY <1>1, <1>5, <2>1, <2>2, GivenUpStep
  <2>3. CASE ~SecondRun(r)
    BY <1>1, <1>5, <2>1, <2>3, ReplaysStep
  <2> QED BY <2>2, <2>3
<1>6. CASE asking[r].answer \in {"refused", "absent"}
  <2>1. Ends(r, asking[r].answer) /\ RunErrs(r) /\ UNCHANGED told
    BY <1>6 DEF Settles, WorthARetry
  <2> QED BY <1>1, <1>6, <2>1, GivenUpStep
<1> QED BY <1>1, <1>2, <1>3, <1>4, <1>5, <1>6

\* Paprika mints a token.
LEMMA MintedStep ==
  ASSUME RequestsInv, RequestsAssumption, NEW r \in Request,
         Is(r, "signs"), minted' = minted + 1, honored' = honored \cup {minted + 1},
         asking' = [asking EXCEPT ![r] = [@ EXCEPT !.at = "signed", !.answer = "ok", !.bearer = minted + 1]],
         UNCHANGED <<token, circuit, told>>
  PROVE  RequestsInv'
<1> USE DEF RequestsInv, Stands
<1>1. PICK q \in Ask, u \in Tale : Stands(r, q, u)
  BY Standing
<1>2. /\ q.at = "signs"
      /\ UNCHANGED <<token, circuit, told>>
      /\ minted' = minted + 1 /\ honored' = honored \cup {minted + 1} /\ minted \in Nat /\ honored \subseteq 1..minted
      /\ asking' = [asking EXCEPT ![r] = [@ EXCEPT !.at = "signed", !.answer = "ok", !.bearer = minted + 1]]
  BY <1>1 DEF Is, RequestsTyped
<1> DEFINE a == [q EXCEPT !.at = "signed", !.answer = "ok", !.bearer = (minted + 1)]
           t == u
<1>3. a \in Ask /\ t \in Tale
  <2>1. minted + 1 \in Nat
    BY <1>2
  <2> QED BY <1>1, <2>1 DEF Ask, Tale
<1>4. /\ a.what = q.what /\ a.at = "signed" /\ a.call = q.call /\ a.tries = q.tries /\ a.again = q.again
      /\ a.probe = q.probe /\ a.bearer = (minted + 1) /\ a.answer = "ok" /\ t.done = u.done /\ t.attempts = u.attempts
      /\ t.spared = u.spared
  BY <1>1 DEF Ask, Tale
<1>5. Becomes(r, a, t)
  <2>1. asking' = [asking EXCEPT ![r] = a]
    BY <1>1, <1>2
  <2>2. told' = [told EXCEPT ![r] = t]
    BY <1>1, <1>2 DEF RequestsTyped
  <2>3. Tokens(r) /\ circuit' \in Circuit
    BY <1>1, <1>2 DEF Tokens, RequestsTyped
  <2> QED BY <1>3, <2>1, <2>2, <2>3 DEF Becomes
<1> HIDE DEF a, t
<1>6. Course(a, t)
  BY ONLY <1>1, <1>2, <1>4 DEF Course
<1>7. Counts(a, t)
  BY ONLY <1>1, <1>2, <1>4 DEF Counts, TimesSent
<1>8. Serves(a, t, token', honored')
  BY <1>1, <1>4, <1>2 DEF Serves, Busy, Course
<1>9. Sound(r, a, t)
  <2>1. circuit'.state = "half" => a.probe \/ \E s \in Request : s # r /\ asking[s].probe
    BY <1>1, <1>2, <1>4, SomeProbe DEF Course
  <2>2. a.at \notin {"idle", "ended", "queued"} /\ a.what = "fetch" => r \in Fetching
    BY <1>1, <1>2, <1>4 DEF Fetching, UnderWay, Is
  <2>3. t.spared /\ Busy(a) => Good
    BY <1>1, <1>2, <1>4 DEF Busy
  <2>4. a.bearer \in honored'
    BY <1>2, <1>4
  <2> QED BY <2>4, <1>6, <1>7, <1>8, <2>1, <2>2, <2>3 DEF Sound
<1> QED BY <1>5, <1>9, OneStep

\* A sign-in fails.
LEMMA NotMintedStep ==
  ASSUME RequestsInv, RequestsAssumption, NEW r \in Request,
         Is(r, "signs"), UNCHANGED <<token, minted, honored, circuit, told>>, NEW how \in {"transient", "refused"},
         asking' = [asking EXCEPT ![r] = [@ EXCEPT !.at = "signed", !.answer = how]]
  PROVE  RequestsInv'
<1> USE DEF RequestsInv, Stands
<1>1. PICK q \in Ask, u \in Tale : Stands(r, q, u)
  BY Standing
<1>2. /\ q.at = "signs" /\ how \in {"transient", "refused"}
      /\ UNCHANGED <<token, minted, honored, circuit>>
      /\ told' = told
      /\ asking' = [asking EXCEPT ![r] = [@ EXCEPT !.at = "signed", !.answer = how]]
  BY <1>1 DEF Is
<1> DEFINE a == [q EXCEPT !.at = "signed", !.answer = how]
           t == u
<1>3. a \in Ask /\ t \in Tale
  BY <1>1, <1>2 DEF Ask, Tale
<1>4. /\ a.what = q.what /\ a.at = "signed" /\ a.call = q.call /\ a.tries = q.tries /\ a.again = q.again
      /\ a.probe = q.probe /\ a.bearer = q.bearer /\ a.answer = how /\ t.done = u.done /\ t.attempts = u.attempts
      /\ t.spared = u.spared
  BY <1>1 DEF Ask, Tale
<1>5. Becomes(r, a, t)
  <2>1. asking' = [asking EXCEPT ![r] = a]
    BY <1>1, <1>2
  <2>2. told' = [told EXCEPT ![r] = t]
    BY <1>1, <1>2 DEF RequestsTyped
  <2>3. Tokens(r) /\ circuit' \in Circuit
    BY <1>1, <1>2 DEF Tokens, RequestsTyped
  <2> QED BY <1>3, <2>1, <2>2, <2>3 DEF Becomes
<1> HIDE DEF a, t
<1>6. Course(a, t)
  BY ONLY <1>1, <1>2, <1>4 DEF Course
<1>7. Counts(a, t)
  BY ONLY <1>1, <1>2, <1>4 DEF Counts, TimesSent
<1>8. Serves(a, t, token', honored')
  BY <1>1, <1>4, <1>2 DEF Serves, Busy, Course
<1>9. Sound(r, a, t)
  <2>1. circuit'.state = "half" => a.probe \/ \E s \in Request : s # r /\ asking[s].probe
    BY <1>1, <1>2, <1>4, SomeProbe DEF Course
  <2>2. a.at \notin {"idle", "ended", "queued"} /\ a.what = "fetch" => r \in Fetching
    BY <1>1, <1>2, <1>4 DEF Fetching, UnderWay, Is
  <2>3. t.spared /\ Busy(a) => Good
    BY <1>1, <1>2, <1>4 DEF Busy
  <2> QED BY <1>2, <1>4, <1>6, <1>7, <1>8, <2>1, <2>2, <2>3 DEF Sound
<1> QED BY <1>5, <1>9, OneStep

\* A sign-in is answered.
LEMMA SignsInStep ==
  ASSUME RequestsInv, RequestsAssumption, NEW r \in Request, SignsIn(r)
  PROVE  RequestsInv'
<1>1. CASE minted' = minted + 1
  <2>1. minted \in Nat
    BY DEF RequestsInv, RequestsTyped
  <2>2. /\ Is(r, "signs") /\ honored' = honored \cup {minted + 1} /\ UNCHANGED <<token, circuit, told>>
        /\ asking' = [asking EXCEPT ![r] = [@ EXCEPT !.at = "signed", !.answer = "ok", !.bearer = minted + 1]]
    BY <1>1, <2>1 DEF SignsIn
  <2> QED BY <1>1, <2>2, MintedStep
<1>2. CASE minted' # minted + 1
  BY <1>2, NotMintedStep DEF SignsIn
<1> QED BY <1>1, <1>2

\* The answer to a sign-in becomes the token of all.
LEMMA NewTokenStep ==
  ASSUME RequestsInv, RequestsAssumption, NEW r \in Request,
         SignedIn(r), asking[r].answer = "ok"
  PROVE  RequestsInv'
<1> USE DEF RequestsInv, Stands
<1>1. PICK q \in Ask, u \in Tale : Stands(r, q, u)
  BY Standing
<1>2. /\ q.at = "signed" /\ q.answer = "ok"
      /\ UNCHANGED <<minted, honored, circuit, told>>
      /\ token' = q.bearer /\ q.bearer \in 1..minted /\ minted \in Nat
      /\ asking' = [asking EXCEPT ![r] = [@ EXCEPT !.at = "begins", !.again = TRUE, !.tries = 0]]
  BY <1>1 DEF SignedIn, Is, Signing, RequestsTyped
<1> DEFINE a == [q EXCEPT !.at = "begins", !.again = TRUE, !.tries = 0]
           t == u
<1>3. a \in Ask /\ t \in Tale
  <2>1. 0 \in 0..MaxRetries
    BY ONLY <1>1
  <2> QED BY <1>1, <2>1 DEF Ask, Tale
<1>4. /\ a.what = q.what /\ a.at = "begins" /\ a.call = q.call /\ a.tries = 0 /\ a.again = TRUE
      /\ a.probe = q.probe /\ a.bearer = q.bearer /\ a.answer = q.answer /\ t.done = u.done /\ t.attempts = u.attempts
      /\ t.spared = u.spared
  BY <1>1 DEF Ask, Tale
<1>5. Becomes(r, a, t)
  <2>1. asking' = [asking EXCEPT ![r] = a]
    BY <1>1, <1>2
  <2>2. told' = [told EXCEPT ![r] = t]
    BY <1>1, <1>2 DEF RequestsTyped
  <2>3. Tokens(r) /\ circuit' \in Circuit
    BY <1>1, <1>2 DEF Tokens, RequestsTyped
  <2> QED BY <1>3, <2>1, <2>2, <2>3 DEF Becomes
<1> HIDE DEF a, t
<1>6. Course(a, t)
  BY ONLY <1>1, <1>2, <1>4 DEF Course
<1>7. Counts(a, t)
  <2>1. u.attempts <= MaxRetries + 1
    BY ONLY <1>1, <1>2 DEF Counts
  <2> QED BY ONLY <1>1, <1>4, <2>1 DEF Counts, TimesSent
<1>8. Serves(a, t, token', honored')
  <2>1. u.spared => token' \in honored'
    BY <1>1, <1>2 DEF Good, Busy
  <2> QED BY <1>2, <1>4, <2>1 DEF Serves, Busy
<1>9. Sound(r, a, t)
  <2>1. circuit'.state = "half" => a.probe \/ \E s \in Request : s # r /\ asking[s].probe
    BY <1>1, <1>2, <1>4, SomeProbe DEF Course
  <2>2. a.at \notin {"idle", "ended", "queued"} /\ a.what = "fetch" => r \in Fetching
    BY <1>1, <1>2, <1>4 DEF Fetching, UnderWay, Is
  <2>3. t.spared /\ Busy(a) => Good
    BY <1>1, <1>2, <1>4 DEF Busy
  <2> QED BY <1>2, <1>4, <1>6, <1>7, <1>8, <2>1, <2>2, <2>3 DEF Sound
<1> QED BY <1>5, <1>9, OneStep

\* A sign-in is tried again.
LEMMA SignsAgainStep ==
  ASSUME RequestsInv, RequestsAssumption, NEW r \in Request,
         SignedIn(r), asking[r].answer # "ok", WorthARetry(r)
  PROVE  RequestsInv'
<1> USE DEF RequestsInv, Stands
<1>1. PICK q \in Ask, u \in Tale : Stands(r, q, u)
  BY Standing
<1>2. /\ q.at = "signed" /\ q.answer = "transient" /\ q.tries < MaxRetries
      /\ UNCHANGED <<token, minted, honored, circuit>>
      /\ told' = told
      /\ asking' = [asking EXCEPT ![r] = [@ EXCEPT !.at = "signs", !.tries = asking[r].tries + 1]]
  BY <1>1 DEF SignedIn, Is, WorthARetry, Retried
<1> DEFINE a == [q EXCEPT !.at = "signs", !.tries = (q.tries + 1)]
           t == u
<1>3. a \in Ask /\ t \in Tale
  <2>1. q.tries + 1 \in 0..MaxRetries
    BY ONLY <1>1, <1>2
  <2> QED BY <1>1, <2>1 DEF Ask, Tale
<1>4. /\ a.what = q.what /\ a.at = "signs" /\ a.call = q.call /\ a.tries = (q.tries + 1) /\ a.again = q.again
      /\ a.probe = q.probe /\ a.bearer = q.bearer /\ a.answer = q.answer /\ t.done = u.done /\ t.attempts = u.attempts
      /\ t.spared = u.spared
  BY <1>1 DEF Ask, Tale
<1>5. Becomes(r, a, t)
  <2>1. asking' = [asking EXCEPT ![r] = a]
    BY <1>1, <1>2
  <2>2. told' = [told EXCEPT ![r] = t]
    BY <1>1, <1>2 DEF RequestsTyped
  <2>3. Tokens(r) /\ circuit' \in Circuit
    BY <1>1, <1>2 DEF Tokens, RequestsTyped
  <2> QED BY <1>3, <2>1, <2>2, <2>3 DEF Becomes
<1> HIDE DEF a, t
<1>6. Course(a, t)
  BY ONLY <1>1, <1>2, <1>4 DEF Course
<1>7. Counts(a, t)
  BY ONLY <1>1, <1>2, <1>4 DEF Counts, TimesSent
<1>8. Serves(a, t, token', honored')
  BY <1>1, <1>4, <1>2 DEF Serves, Busy, Course
<1>9. Sound(r, a, t)
  <2>1. circuit'.state = "half" => a.probe \/ \E s \in Request : s # r /\ asking[s].probe
    BY <1>1, <1>2, <1>4, SomeProbe DEF Course
  <2>2. a.at \notin {"idle", "ended", "queued"} /\ a.what = "fetch" => r \in Fetching
    BY <1>1, <1>2, <1>4 DEF Fetching, UnderWay, Is
  <2>3. t.spared /\ Busy(a) => Good
    BY <1>1, <1>2, <1>4 DEF Busy
  <2> QED BY <1>2, <1>4, <1>6, <1>7, <1>8, <2>1, <2>2, <2>3 DEF Sound
<1> QED BY <1>5, <1>9, OneStep

\* A sign-in that failed ends the request.
LEMMA ShutOutStep ==
  ASSUME RequestsInv, RequestsAssumption, NEW r \in Request,
         SignedIn(r), asking[r].answer # "ok", ~WorthARetry(r)
  PROVE  RequestsInv'
<1> USE DEF RequestsInv, Stands
<1>1. PICK q \in Ask, u \in Tale : Stands(r, q, u)
  BY Standing
<1>2. /\ q.at = "signed"
      /\ UNCHANGED <<token, minted, honored, circuit>>
      /\ told' = told
      /\ asking' = [asking EXCEPT ![r] = [@ EXCEPT !.at = "ended", !.answer = "shut out", !.probe = FALSE]]
  BY <1>1 DEF SignedIn, Is, Ends
<1> DEFINE a == [q EXCEPT !.at = "ended", !.answer = "shut out", !.probe = FALSE]
           t == u
<1>3. a \in Ask /\ t \in Tale
  BY <1>1 DEF Ask, Tale
<1>4. /\ a.what = q.what /\ a.at = "ended" /\ a.call = q.call /\ a.tries = q.tries /\ a.again = q.again
      /\ a.probe = FALSE /\ a.bearer = q.bearer /\ a.answer = "shut out" /\ t.done = u.done /\ t.attempts = u.attempts
      /\ t.spared = u.spared
  BY <1>1 DEF Ask, Tale
<1>5. Becomes(r, a, t)
  <2>1. asking' = [asking EXCEPT ![r] = a]
    BY <1>1, <1>2
  <2>2. told' = [told EXCEPT ![r] = t]
    BY <1>1, <1>2 DEF RequestsTyped
  <2>3. Tokens(r) /\ circuit' \in Circuit
    BY <1>1, <1>2 DEF Tokens, RequestsTyped
  <2> QED BY <1>3, <2>1, <2>2, <2>3 DEF Becomes
<1> HIDE DEF a, t
<1>6. Course(a, t)
  BY ONLY <1>1, <1>2, <1>4 DEF Course
<1>7. Counts(a, t)
  <2>1. u.attempts <= 2 * (MaxRetries + 1)
    BY ONLY <1>1 DEF Counts
  <2>2. a.at \notin {"begins", "ready", "sent", "answered", "signs", "signed"}
    BY ONLY <1>4
  <2> QED BY ONLY <1>4, <2>1, <2>2 DEF Counts
<1>8. Serves(a, t, token', honored')
  BY <1>1, <1>4, <1>2 DEF Serves, Busy, Course
<1>9. Sound(r, a, t)
  <2>1. circuit'.state = "half" => a.probe \/ \E s \in Request : s # r /\ asking[s].probe
    BY <1>1, <1>2, <1>4, SomeProbe DEF Course
  <2>2. a.at \notin {"idle", "ended", "queued"} /\ a.what = "fetch" => r \in Fetching
    BY <1>1, <1>2, <1>4 DEF Fetching, UnderWay, Is
  <2>3. t.spared /\ Busy(a) => Good
    BY <1>1, <1>2, <1>4 DEF Busy
  <2> QED BY <1>2, <1>4, <1>6, <1>7, <1>8, <2>1, <2>2, <2>3 DEF Sound
<1> QED BY <1>5, <1>9, OneStep

----------------------------------------------------------------------------
\* The steps outside a request, and the invariant.

\* Paprika forgets its tokens: whoever is under way is no longer spared.
LEMMA ForgetsStep ==
  ASSUME RequestsInv, RequestsAssumption, Forgets
  PROVE  RequestsInv'
<1> USE DEF RequestsInv
<1>1. /\ honored' = {} /\ UNCHANGED <<token, minted, circuit, asking>>
      /\ told' = [r \in Request |-> [told[r] EXCEPT !.spared = @ /\ r \notin UnderWay]]
  BY DEF Forgets
<1>2. ASSUME NEW r \in Request
      PROVE  /\ told'[r] \in Tale /\ told'[r].done = told[r].done /\ told'[r].attempts = told[r].attempts
             /\ told'[r].spared => told[r].spared /\ ~Busy(asking[r])
  <2>1. PICK u \in Tale, b \in BOOLEAN : /\ u = told[r] /\ (b <=> u.spared /\ r \notin UnderWay)
    BY AsksNow
  <2>2. told'[r] = [u EXCEPT !.spared = b]
    BY <1>1, <2>1 DEF Tale
  <2>3. told'[r] \in Tale /\ told'[r].done = u.done /\ told'[r].attempts = u.attempts /\ told'[r].spared = b
    BY <2>2 DEF Tale
  <2>4. b => u.spared /\ ~Busy(asking[r])
    BY <2>1 DEF UnderWay, Busy
  <2> QED BY <2>1, <2>3, <2>4
<1>3. RequestsTyped'
  BY <1>1, <1>2 DEF RequestsTyped
<1>4. \A r \in Request : Course(asking[r], told[r])' /\ Counts(asking[r], told[r])'
  BY <1>1, <1>2 DEF Course, Counts
<1>5. \A r \in Request : Spares(r)'
  BY <1>1, <1>2 DEF Spares, Serves
<1>6. Signing' /\ Probing'
  BY <1>1 DEF Signing, Probing
<1>7. Places'
  BY <1>1 DEF Places, Fetching, UnderWay, Is
<1> QED BY <1>3, <1>4, <1>5, <1>6, <1>7

\* The cool-down of an open circuit ends.
LEMMA CoolsDownStep ==
  ASSUME RequestsInv, RequestsAssumption, CoolsDown
  PROVE  RequestsInv'
<1> USE DEF RequestsInv
<1>1. /\ UNCHANGED <<token, minted, honored, asking, told>>
      /\ circuit.state = "open" /\ circuit' = [circuit EXCEPT !.ready = TRUE]
  BY DEF CoolsDown
<1>2. circuit' \in Circuit /\ circuit'.state = "open"
  BY <1>1 DEF RequestsTyped, Circuit
<1>3. RequestsTyped' /\ Probing'
  BY <1>1, <1>2 DEF RequestsTyped, Probing
<1>4. Signing' /\ Places' /\ \A r \in Request : Spares(r)'
  BY <1>1 DEF Signing, Places, Fetching, UnderWay, Is, Spares, Good
<1>5. \A r \in Request : Course(asking[r], told[r])' /\ Counts(asking[r], told[r])'
  BY <1>1
<1> QED BY <1>3, <1>4, <1>5

\* The invariant holds of a process that has signed in.
LEMMA RequestsInitially ==
  ASSUME RequestsAssumption, RequestsInit
  PROVE  RequestsInv
<1>1. \A r \in Request : /\ asking[r] = Unasked
                         /\ told[r] = [done |-> 0, attempts |-> 0, spared |-> TRUE]
  BY DEF RequestsInit
<1>2. RequestsTyped
  <2>1. Unasked \in Ask /\ [done |-> 0, attempts |-> 0, spared |-> TRUE] \in Tale
    BY DEF Unasked, Ask, Tale, Purpose, RequestsAssumption
  <2>2. circuit \in Circuit
    BY DEF RequestsInit, Circuit, RequestsAssumption
  <2> QED BY <2>1, <2>2 DEF RequestsInit, RequestsTyped
<1>3. ASSUME NEW r \in Request PROVE Course(asking[r], told[r]) /\ Counts(asking[r], told[r]) /\ Spares(r)
  <2>1. Length("list") \in Nat \ {0} /\ MaxRetries \in Nat
    BY ChainLength DEF RequestsAssumption
  <2>2. /\ asking[r].what = "list" /\ asking[r].at = "idle" /\ asking[r].call = 1 /\ asking[r].tries = 0 /\ ~asking[r].again
        /\ ~asking[r].probe /\ asking[r].answer = "none" /\ told[r].done = 0 /\ told[r].attempts = 0
    BY <1>1 DEF Unasked
  <2>3. Course(asking[r], told[r])
    BY ONLY <2>1, <2>2 DEF Course
  <2>4. Counts(asking[r], told[r])
    BY ONLY <2>1, <2>2 DEF Counts, TimesSent
  <2>5. Spares(r)
    BY ONLY <2>2 DEF Spares, Serves, Busy
  <2> QED BY <2>3, <2>4, <2>5
<1>4. Signing /\ Probing
  BY <1>1 DEF Signing, Probing, Unasked, RequestsInit
<1>5. Places
  <2>1. Fetching = {}
    BY <1>1 DEF Fetching, UnderWay, Is, Unasked
  <2> QED BY <2>1, FS_EmptySet DEF Places, RequestsAssumption
<1> QED BY <1>2, <1>3, <1>4, <1>5 DEF RequestsInv

\* A run begins at the breaker.
LEMMA BeginsStep ==
  ASSUME RequestsInv, RequestsAssumption, NEW r \in Request, Begins(r)
  PROVE  RequestsInv'
BY TurnedAwayStep, PassesStep

\* What becomes of a request with the answer to its sign-in.
LEMMA SignedInStep ==
  ASSUME RequestsInv, RequestsAssumption, NEW r \in Request, SignedIn(r)
  PROVE  RequestsInv'
BY NewTokenStep, SignsAgainStep, ShutOutStep

\* Steps of other parts of the process keep the invariant.
LEMMA RequestsStutter ==
  ASSUME RequestsInv, UNCHANGED requestVars
  PROVE  RequestsInv'
<1> USE DEF RequestsInv, requestVars
<1>1. RequestsTyped' /\ Signing' /\ Probing'
  BY DEF RequestsTyped, Signing, Probing
<1>2. Places' /\ \A r \in Request : Spares(r)'
  BY DEF Places, Fetching, UnderWay, Is, Spares, Good
<1>3. \A r \in Request : Course(asking[r], told[r])' /\ Counts(asking[r], told[r])'
  OBVIOUS
<1> QED BY <1>1, <1>2, <1>3

\* The inductive invariant of the requests (paprika/client.ts 278-320, 361-439, 742-855).
THEOREM RequestsInvariant == RequestsSpec => []RequestsInv
<1>1. RequestsInit => RequestsInv
  BY RequestsInitially, RequestsAssumption
<1>2. RequestsInv /\ [RequestsNext]_requestVars => RequestsInv'
  BY RequestsAssumption, AskedStep, EntersStep, BeginsStep, AttemptStep, ArrivesStep, SettlesStep, SignsInStep,
     SignedInStep, ForgetsStep, CoolsDownStep, RequestsStutter DEF RequestsNext
<1> QED BY <1>1, <1>2, PTL DEF RequestsSpec

\* While some request is under way one of them can go on.
LEMMA SomeGoesOn ==
  ASSUME RequestsInv, RequestsAssumption, UnderWay # {}
  PROVE  \E r \in UnderWay : CASE Is(r, "queued") -> Cardinality(Fetching) < Concurrency
                               [] Is(r, "begins") -> circuit.state # "half"
                               [] OTHER -> TRUE
<1> USE DEF RequestsInv
<1>1. ASSUME NEW r \in UnderWay PROVE r \in Request /\ asking[r].at \notin {"idle", "ended"}
  BY <1>1 DEF UnderWay
<1>2. CASE circuit.state = "half"
  <2>1. PICK r \in Request : asking[r].probe
    BY <1>2 DEF Probing
  <2>2. asking[r].at \in {"ready", "sent", "answered"}
    BY <2>1 DEF Course
  <2> QED BY <2>2 DEF UnderWay, Is
<1>3. CASE circuit.state # "half" /\ \E r \in UnderWay : ~Is(r, "queued")
  BY <1>3
<1>4. CASE \A r \in UnderWay : Is(r, "queued")
  <2>1. Fetching = {}
    BY <1>4 DEF Fetching
  <2>2. Cardinality(Fetching) < Concurrency
    BY <2>1, FS_EmptySet DEF RequestsAssumption
  <2> QED BY <1>4, <2>2 DEF Is
<1> QED BY <1>2, <1>3, <1>4

\* What the clients of Paprika rely on: no request is given up for a token that was not forgotten, what
\* succeeded was carried out, no call is repeated without end, no more recipes are fetched at a time than
\* configured, and the requests never wait for each other in vain (paprika/client.ts 278-320, 361-439, 742-855).
THEOREM RequestsRightHolds == RequestsSpec => [](RequestsTypeOK /\ RequestsRight)
<1>1. RequestsInv => RequestsTypeOK
  <2> SUFFICES ASSUME RequestsInv PROVE RequestsTypeOK
    OBVIOUS
  <2>1. token \in 0..minted /\ honored \subseteq 1..minted
    BY DEF RequestsInv, RequestsTyped
  <2>2. circuit.state \in {"closed", "open", "half"} /\ circuit.fails \in 0..BreakAfter
    BY DEF RequestsInv, RequestsTyped, Circuit
  <2>3. \A r \in Request : asking[r].tries \in 0..MaxRetries /\ asking[r].call \in 1..Length(asking[r].what)
    BY RequestsAssumption, AsksNow DEF Ask, Course
  <2> QED BY <2>1, <2>2, <2>3 DEF RequestsTypeOK
<1>2. RequestsInv => RequestsRight
  <2> SUFFICES ASSUME RequestsInv PROVE RequestsRight
    OBVIOUS
  <2>1. \A r \in Request :
          /\ asking[r].answer = "auth" => ~told[r].spared
          /\ asking[r].answer = "ok" /\ Is(r, "ended") => told[r].done = Length(asking[r].what)
          /\ told[r].done \in {asking[r].call - 1, asking[r].call}
          /\ told[r].attempts <= 2 * (MaxRetries + 1)
    BY RequestsAssumption, AsksNow DEF Course, Counts, Serves, Is
  <2>2. Cardinality(Fetching) <= Concurrency
    BY DEF RequestsInv, Places
  <2> QED BY <2>1, <2>2, SomeGoesOn, RequestsAssumption DEF RequestsRight
<1> QED BY <1>1, <1>2, RequestsInvariant, PTL

(***************************************************************************)
(* Signing in, for any flows, allowlist, lifetimes and cap.  At any time a *)
(* flow is in one place at most: its consent ticket, its request, its      *)
(* callback, its code, or its tokens; and it moves from one to the next in *)
(* this order.                                                             *)
(***************************************************************************)

USE SignInAssumption


\* The one place a flow is in.
OnePlace(f) ==
  /\ grants[f] <= 1
  /\ Held("consent", f) => ~Held("request", f) /\ f \notin returning /\ ~Held("code", f) /\ grants[f] = 0
  /\ Held("request", f) => f \notin returning /\ ~Held("code", f) /\ grants[f] = 0
  /\ f \in returning => ~Held("code", f) /\ grants[f] = 0
  /\ Held("code", f) => grants[f] = 0

\* Who was handed nothing has nothing.
NothingYet(f) ==
  handed[f] = {} => /\ \A s \in Store : ~Held(s, f)
                    /\ f \notin returning /\ grants[f] = 0

\* Past the consent screen, where there is one, means past Allow.
Allowed(f) ==
  f \notin Recognized /\ (Held("request", f) \/ f \in returning \/ Held("code", f) \/ grants[f] > 0) => f \in consented

FlowInv(f) == OnePlace(f) /\ NothingYet(f) /\ Allowed(f)

Capped == \A s \in Store : IsFiniteSet(DOMAIN entries[s]) /\ Cardinality(DOMAIN entries[s]) <= MaxEntries

SignInInv == SignInTypeOK /\ Capped /\ \A f \in Flow : FlowInv(f)

(***************************************************************************)
(* The stores.                                                             *)
(***************************************************************************)

\* A put adds the flow's entry at most, and only if it fits; what is live stays; the cap holds.
LEMMA PutProperties ==
  ASSUME SignInTypeOK, Capped, NEW s \in Store, NEW f \in Flow
  PROVE  /\ DOMAIN PutResult(s, f) \subseteq DOMAIN entries[s] \cup {f}
         /\ \A h \in DOMAIN PutResult(s, f) : PutResult(s, f)[h] \in 0..(Lifetime[s] + 1)
         /\ \A h \in Flow : Live(s, h) => h \in DOMAIN PutResult(s, f)
         /\ ~Held(s, f) /\ f \in DOMAIN PutResult(s, f) => Fits(s, f)
         /\ IsFiniteSet(DOMAIN PutResult(s, f)) /\ Cardinality(DOMAIN PutResult(s, f)) <= MaxEntries
<1> DEFINE room == RoomFor(s, f)
<1>1. /\ DOMAIN room \subseteq DOMAIN entries[s]
      /\ \A h \in DOMAIN room : room[h] = entries[s][h]
      /\ \A h \in Flow : Live(s, h) => h \in DOMAIN room
  BY DEF RoomFor, Swept, Without, Live, Held
<1>2. IsFiniteSet(DOMAIN room) /\ Cardinality(DOMAIN room) <= Cardinality(DOMAIN entries[s])
  BY <1>1, FS_Subset DEF Capped
<1>3. Cardinality(DOMAIN room) \in Nat /\ Cardinality(DOMAIN entries[s]) \in Nat
  BY <1>2, FS_CardinalityType DEF Capped
<1>4. CASE Fits(s, f)
  <2>1. PutResult(s, f) = [h \in DOMAIN room \cup {f} |-> IF h = f THEN 0 ELSE room[h]]
    BY <1>4 DEF PutResult
  <2>2. DOMAIN PutResult(s, f) = DOMAIN room \cup {f}
    BY <2>1
  <2>3. IsFiniteSet(DOMAIN room \cup {f}) /\ Cardinality(DOMAIN room \cup {f}) <= MaxEntries
    <3> HIDE DEF room
    <3>1. /\ IsFiniteSet(DOMAIN room \cup {f})
          /\ Cardinality(DOMAIN room \cup {f}) = IF f \in DOMAIN room THEN Cardinality(DOMAIN room)
                                                 ELSE Cardinality(DOMAIN room) + 1
      BY <1>2, FS_AddElement
    <3>2. f \in DOMAIN room \/ Cardinality(DOMAIN room) < MaxEntries
      BY <1>4 DEF Fits, room
    <3>3. Cardinality(DOMAIN entries[s]) <= MaxEntries
      BY DEF Capped
    <3> QED BY <1>2, <1>3, <3>1, <3>2, <3>3
  <2>4. \A h \in DOMAIN PutResult(s, f) : PutResult(s, f)[h] \in 0..(Lifetime[s] + 1)
    BY <1>1, <2>1, <2>2 DEF SignInTypeOK
  <2> QED BY <1>1, <1>4, <2>2, <2>3, <2>4
<1>5. CASE ~Fits(s, f)
  <2>1. PutResult(s, f) = room /\ f \notin DOMAIN room
    BY <1>5 DEF PutResult, Fits
  <2> QED BY <1>1, <1>2, <1>3, <2>1 DEF SignInTypeOK, Capped
<1> QED BY <1>4, <1>5

\* Taking entries out keeps types and cap.
LEMMA WithoutProperties ==
  ASSUME SignInTypeOK, Capped, NEW s \in Store, NEW F
  PROVE  /\ DOMAIN Without(s, F) = DOMAIN entries[s] \ F
         /\ \A h \in DOMAIN Without(s, F) : Without(s, F)[h] = entries[s][h]
         /\ IsFiniteSet(DOMAIN Without(s, F)) /\ Cardinality(DOMAIN Without(s, F)) <= MaxEntries
<1>1. DOMAIN Without(s, F) = DOMAIN entries[s] \ F /\ \A h \in DOMAIN Without(s, F) : Without(s, F)[h] = entries[s][h]
  BY DEF Without
<1>2. Cardinality(DOMAIN entries[s]) \in Nat
  BY FS_CardinalityType DEF Capped
<1>3. IsFiniteSet(DOMAIN Without(s, F)) /\ Cardinality(DOMAIN Without(s, F)) <= Cardinality(DOMAIN entries[s])
  BY <1>1, FS_Subset DEF Capped
<1>4. Cardinality(DOMAIN Without(s, F)) \in Nat
  BY <1>3, FS_CardinalityType
<1> QED BY <1>1, <1>2, <1>3, <1>4 DEF Capped

(***************************************************************************)
(* The steps.  An action moves its own flow along, and of the others drops *)
(* what has expired at most.                                               *)
(***************************************************************************)

\* What every action does to a store: it puts an entry, takes some out, ages them, or leaves them alone.
StoreStep(s) ==
  \/ entries'[s] = entries[s]
  \/ \E f \in Flow : entries'[s] = PutResult(s, f)
  \/ \E F : entries'[s] = Without(s, F)
  \/ entries'[s] = [f \in DOMAIN entries[s] |-> AgedEntry(s, f)]

\* Any such step keeps the stores' types and caps.
LEMMA StoresKept ==
  ASSUME SignInTypeOK, Capped, DOMAIN entries' = Store, \A s \in Store : StoreStep(s)
  PROVE  /\ Capped'
         /\ \A s \in Store : /\ DOMAIN entries'[s] \subseteq Flow
                             /\ \A f \in DOMAIN entries'[s] : entries'[s][f] \in 0..(Lifetime[s] + 1)
<1> SUFFICES ASSUME NEW s \in Store
             PROVE  /\ IsFiniteSet(DOMAIN entries'[s]) /\ Cardinality(DOMAIN entries'[s]) <= MaxEntries
                    /\ DOMAIN entries'[s] \subseteq Flow
                    /\ \A f \in DOMAIN entries'[s] : entries'[s][f] \in 0..(Lifetime[s] + 1)
  BY DEF Capped
<1>1. CASE entries'[s] = entries[s]
  BY <1>1 DEF Capped, SignInTypeOK
<1>2. ASSUME NEW f \in Flow, entries'[s] = PutResult(s, f)
      PROVE  /\ IsFiniteSet(DOMAIN entries'[s]) /\ Cardinality(DOMAIN entries'[s]) <= MaxEntries
             /\ DOMAIN entries'[s] \subseteq Flow
             /\ \A h \in DOMAIN entries'[s] : entries'[s][h] \in 0..(Lifetime[s] + 1)
  <2>1. DOMAIN entries[s] \subseteq Flow
    BY DEF SignInTypeOK
  <2> QED BY <1>2, <2>1, PutProperties
<1>3. ASSUME NEW F, entries'[s] = Without(s, F)
      PROVE  /\ IsFiniteSet(DOMAIN entries'[s]) /\ Cardinality(DOMAIN entries'[s]) <= MaxEntries
             /\ DOMAIN entries'[s] \subseteq Flow
             /\ \A h \in DOMAIN entries'[s] : entries'[s][h] \in 0..(Lifetime[s] + 1)
  <2>1. DOMAIN entries[s] \subseteq Flow /\ \A h \in DOMAIN entries[s] : entries[s][h] \in 0..(Lifetime[s] + 1)
    BY DEF SignInTypeOK
  <2>2. /\ DOMAIN Without(s, F) = DOMAIN entries[s] \ F
        /\ \A h \in DOMAIN Without(s, F) : Without(s, F)[h] = entries[s][h]
        /\ IsFiniteSet(DOMAIN Without(s, F)) /\ Cardinality(DOMAIN Without(s, F)) <= MaxEntries
    BY WithoutProperties, Zenon
  <2> HIDE DEF Without
  <2> QED BY <1>3, <2>1, <2>2
<1>4. CASE entries'[s] = [f \in DOMAIN entries[s] |-> AgedEntry(s, f)]
  <2>1. DOMAIN entries'[s] = DOMAIN entries[s]
    BY <1>4
  <2>2. \A f \in DOMAIN entries[s] : entries[s][f] \in 0..(Lifetime[s] + 1) /\ Lifetime[s] \in Nat
    BY DEF SignInTypeOK
  <2>3. \A f \in DOMAIN entries[s] : AgedEntry(s, f) \in 0..(Lifetime[s] + 1)
    BY <2>2 DEF AgedEntry, Expired
  <2> QED BY <1>4, <2>1, <2>3 DEF Capped, SignInTypeOK
<1> QED BY <1>1, <1>2, <1>3, <1>4 DEF StoreStep

\* A request is put up: of the others' entries none comes, and none that is live goes.
LEMMA AuthorizeStep ==
  ASSUME SignInInv, NEW f \in Flow, Authorize(f)
  PROVE  SignInInv'
<1>1. DOMAIN entries' = Store /\ \A s \in Store : StoreStep(s)
  BY DEF Authorize, Upstream, StoreStep, SignInInv, SignInTypeOK, Store
<1>2. Capped' /\ SignInTypeOK'
  BY <1>1, StoresKept DEF SignInInv, SignInTypeOK, Authorize, Upstream, Store
<1>3. ASSUME NEW h \in Flow
      PROVE  FlowInv(h)'
  <2>1. \A s \in Store : Held(s, h)' => Held(s, h) \/ (h = f /\ s = IF IsRecognized(f) THEN "request" ELSE "consent")
    BY PutProperties DEF Authorize, Upstream, Held, SignInInv, SignInTypeOK, Store
  <2>2. \A s \in Store : Held(s, f)' => handed'[f] # {}
    <3>1. \A s \in Store : ~Held(s, f)
      BY DEF SignInInv, FlowInv, NothingYet, Authorize
    <3>2. \A s \in Store : f \in DOMAIN PutResult(s, f) => Fits(s, f)
      BY <3>1, PutProperties DEF SignInInv
    <3> QED BY <3>1, <3>2 DEF Authorize, Upstream, Held, SignInInv, SignInTypeOK, Store
  <2>3. FlowInv(h) /\ (h # f => handed'[h] = handed[h])
    BY DEF SignInInv, SignInTypeOK, Authorize, Upstream
  <2>4. returning' = returning /\ grants' = grants /\ consented' = consented /\ handed[f] = {}
    BY DEF Authorize
  <2>5. CASE h # f
    BY <2>1, <2>3, <2>4, <2>5 DEF FlowInv, OnePlace, NothingYet, Allowed, Store, Held
  <2>6. CASE h = f
    <3>1. f \notin returning /\ grants[f] = 0 /\ \A s \in Store : ~Held(s, f)
      BY <2>3, <2>4, <2>6 DEF FlowInv, NothingYet
    <3> QED BY <2>1, <2>2, <2>4, <2>6, <3>1 DEF FlowInv, OnePlace, NothingYet, Allowed, Store, Held, IsRecognized
  <2> QED BY <2>5, <2>6
<1> QED BY <1>2, <1>3 DEF SignInInv

\* Allow moves the flow from its ticket to its request, anything else ends it there.
LEMMA ConsentStep ==
  ASSUME SignInInv, NEW f \in Flow, Consent(f)
  PROVE  SignInInv'
<1>1. DOMAIN entries' = Store /\ \A s \in Store : StoreStep(s)
  BY DEF Consent, Consumed, Upstream, StoreStep, SignInInv, SignInTypeOK, Store
<1>2. Capped' /\ SignInTypeOK'
  BY <1>1, StoresKept DEF SignInInv, SignInTypeOK, Consent, Upstream, Store
<1>3. ~Held("consent", f)'
  BY DEF Consent, Consumed, Upstream, Without, Held, SignInInv, SignInTypeOK, Store
<1>4. "consent" \in handed[f] /\ "consent" \in handed'[f]
  BY DEF Consent, Upstream, SignInInv, SignInTypeOK
<1>5. returning' = returning /\ grants' = grants /\ consented \subseteq consented'
  BY DEF Consent
<1>6. ASSUME NEW h \in Flow
      PROVE  FlowInv(h)'
  <2>1. /\ \A s \in Store : Held(s, h)' => Held(s, h) \/ (h = f /\ s = "request")
        /\ Held("request", f)' => Held("request", f) \/ (Held("consent", f) /\ f \in consented')
    BY PutProperties DEF Consent, Consumed, Without, Upstream, Held, Live, SignInInv, SignInTypeOK, Store
  <2>2. FlowInv(h) /\ (h # f => handed'[h] = handed[h])
    BY DEF SignInInv, SignInTypeOK, Consent, Upstream
  <2>3. CASE h # f
    BY <1>5, <2>1, <2>2, <2>3 DEF FlowInv, OnePlace, NothingYet, Allowed, Store, Held
  <2>4. CASE h = f
    <3>1. OnePlace(f)'
      BY <1>3, <1>5, <2>1, <2>2, <2>4 DEF FlowInv, OnePlace, Store, Held
    <3>2. Allowed(f)'
      BY <1>5, <2>1, <2>2, <2>4 DEF FlowInv, Allowed, Store, Held
    <3> QED BY <1>4, <2>4, <3>1, <3>2 DEF FlowInv, NothingYet
  <2> QED BY <2>3, <2>4
<1> QED BY <1>2, <1>6 DEF SignInInv

\* The callback takes the flow from its request to the identity provider, or ends it there.
LEMMA CallbackStep ==
  ASSUME SignInInv, NEW f \in Flow, Callback(f)
  PROVE  SignInInv'
<1>1. DOMAIN entries' = Store /\ \A s \in Store : StoreStep(s)
  BY DEF Callback, Consumed, StoreStep, SignInInv, SignInTypeOK, Store
<1>2. Capped' /\ SignInTypeOK'
  BY <1>1, StoresKept DEF SignInInv, SignInTypeOK, Callback
<1>3. handed' = handed /\ grants' = grants /\ consented' = consented /\ "request" \in handed[f]
  BY DEF Callback
<1>4. \A h \in Flow : h \in returning' => h \in returning \/ (h = f /\ Held("request", f))
  BY DEF Callback, Live
<1>5. ASSUME NEW h \in Flow
      PROVE  FlowInv(h)'
  <2>1. \A s \in Store : Held(s, h)' => Held(s, h) /\ ~(h = f /\ s = "request")
    BY DEF Callback, Consumed, Without, Held, SignInInv, SignInTypeOK, Store
  <2>2. FlowInv(h)
    BY DEF SignInInv
  <2> QED BY <1>3, <1>4, <2>1, <2>2 DEF FlowInv, OnePlace, NothingYet, Allowed, Store, Held
<1> QED BY <1>2, <1>5 DEF SignInInv

\* The answer of the identity provider moves the flow to its code, or ends it there.
LEMMA CallbackEndsStep ==
  ASSUME SignInInv, NEW f \in Flow, CallbackEnds(f)
  PROVE  SignInInv'
<1>1. DOMAIN entries' = Store /\ \A s \in Store : StoreStep(s)
  BY DEF CallbackEnds, StoreStep, SignInInv, SignInTypeOK, Store
<1>2. Capped' /\ SignInTypeOK'
  BY <1>1, StoresKept DEF SignInInv, SignInTypeOK, CallbackEnds, Store
<1>3. returning' = returning \ {f} /\ f \in returning /\ grants' = grants /\ consented' = consented
  BY DEF CallbackEnds
<1>4. \A h \in Flow : handed[h] \subseteq handed'[h]
  BY DEF CallbackEnds, SignInInv, SignInTypeOK
<1>5. ASSUME NEW h \in Flow
      PROVE  FlowInv(h)'
  <2>1. \A s \in Store : Held(s, h)' => Held(s, h) \/ (h = f /\ s = "code")
    BY PutProperties DEF CallbackEnds, Held, SignInInv, SignInTypeOK, Store
  <2>2. FlowInv(h)
    BY DEF SignInInv
  <2>3. handed'[h] = {} => handed[h] = {} /\ h # f
    <3>1. handed[f] # {}
      BY <1>3 DEF SignInInv, FlowInv, NothingYet
    <3> QED BY <1>4, <3>1
  <2> QED BY <1>3, <2>1, <2>2, <2>3 DEF FlowInv, OnePlace, NothingYet, Allowed, Store, Held
<1> QED BY <1>2, <1>5 DEF SignInInv

\* The challenge finds a code or drops it.
LEMMA ChallengeStep ==
  ASSUME SignInInv, NEW f \in Flow, Challenge(f)
  PROVE  SignInInv'
<1>1. DOMAIN entries' = Store /\ \A s \in Store : StoreStep(s)
  BY DEF Challenge, Consumed, StoreStep, SignInInv, SignInTypeOK, Store
<1>2. Capped' /\ SignInTypeOK'
  BY <1>1, StoresKept DEF SignInInv, SignInTypeOK, Challenge
<1>3. ASSUME NEW h \in Flow
      PROVE  FlowInv(h)'
  <2>1. \A s \in Store : Held(s, h)' => Held(s, h)
    BY DEF Challenge, Consumed, Without, Held, SignInInv, SignInTypeOK, Store
  <2>2. FlowInv(h)
    BY DEF SignInInv
  <2> QED BY <2>1, <2>2 DEF Challenge, FlowInv, OnePlace, NothingYet, Allowed, Store, Held
<1> QED BY <1>2, <1>3 DEF SignInInv

\* Redeeming spends the code, for tokens or for nothing.
LEMMA RedeemStep ==
  ASSUME SignInInv, NEW f \in Flow, Redeem(f)
  PROVE  SignInInv'
<1>1. DOMAIN entries' = Store /\ \A s \in Store : StoreStep(s)
  BY DEF Redeem, Consumed, StoreStep, SignInInv, SignInTypeOK, Store
<1>2. Capped' /\ SignInTypeOK'
  BY <1>1, StoresKept DEF SignInInv, SignInTypeOK, Redeem
<1>3. handed' = handed /\ returning' = returning /\ consented' = consented
  BY DEF Redeem
<1>4. ASSUME NEW h \in Flow
      PROVE  FlowInv(h)'
  <2>1. \A s \in Store : Held(s, h)' => Held(s, h) /\ ~(h = f /\ s = "code")
    BY DEF Redeem, Consumed, Without, Held, SignInInv, SignInTypeOK, Store
  <2>2. grants'[h] = grants[h] \/ (h = f /\ Held("code", f) /\ grants'[f] = grants[f] + 1)
    BY DEF Redeem, Live, SignInInv, SignInTypeOK
  <2>3. FlowInv(h) /\ grants[h] \in Nat
    BY DEF SignInInv, SignInTypeOK
  <2>4. CASE grants'[h] = grants[h]
    BY <1>3, <2>1, <2>3, <2>4 DEF FlowInv, OnePlace, NothingYet, Allowed, Store, Held
  <2>5. CASE h = f /\ Held("code", f) /\ grants'[f] = grants[f] + 1
    <3>1. /\ ~Held("consent", f) /\ ~Held("request", f) /\ f \notin returning /\ grants[f] = 0
          /\ handed[f] # {} /\ (f \notin Recognized => f \in consented)
      BY <2>3, <2>5 DEF FlowInv, OnePlace, NothingYet, Allowed, Store
    <3> QED BY <1>3, <2>1, <2>5, <3>1 DEF FlowInv, OnePlace, NothingYet, Allowed, Store
  <2> QED BY <2>2, <2>4, <2>5
<1> QED BY <1>2, <1>4 DEF SignInInv

\* Sweeps, time and restarts only take away.
LEMMA QuietStep ==
  ASSUME SignInInv, SweepStores \/ Older \/ ForgetFlows
  PROVE  SignInInv'
<1>1. DOMAIN entries' = Store /\ \A s \in Store : StoreStep(s)
  <2>1. CASE SweepStores
    BY <2>1 DEF SweepStores, Swept, StoreStep, Store
  <2>2. CASE Older
    BY <2>2 DEF Older, StoreStep
  <2>3. CASE ForgetFlows
    <3> SUFFICES ASSUME NEW s \in Store
                 PROVE  StoreStep(s)
      BY <2>3 DEF ForgetFlows
    <3>1. entries'[s] = Without(s, DOMAIN entries[s])
      BY <2>3 DEF ForgetFlows, Without
    <3> QED BY <3>1 DEF StoreStep
  <2> QED BY <2>1, <2>2, <2>3
<1>2. Capped' /\ SignInTypeOK'
  BY <1>1, StoresKept DEF SignInInv, SignInTypeOK, SweepStores, Older, ForgetFlows
<1>3. handed' = handed /\ grants' = grants /\ consented' = consented /\ returning' \subseteq returning
  BY DEF SweepStores, Older, ForgetFlows
<1>4. ASSUME NEW h \in Flow
      PROVE  FlowInv(h)'
  <2>1. \A s \in Store : Held(s, h)' => Held(s, h)
    <3>1. CASE SweepStores
      BY <3>1 DEF SweepStores, Swept, Without, Held
    <3>2. CASE Older
      BY <3>2 DEF Older, Held
    <3>3. CASE ForgetFlows
      BY <3>3 DEF ForgetFlows, Held
    <3> QED BY <3>1, <3>2, <3>3
  <2>2. FlowInv(h)
    BY DEF SignInInv
  <2> QED BY <1>3, <2>1, <2>2 DEF FlowInv, OnePlace, NothingYet, Allowed, Store, Held
<1> QED BY <1>2, <1>4 DEF SignInInv

(***************************************************************************)
(* The theorems.                                                           *)
(***************************************************************************)

\* It holds at the start.
LEMMA InvInit == SignInInit => SignInInv
<1> SUFFICES ASSUME SignInInit
             PROVE  SignInInv
  OBVIOUS
<1>1. \A s \in Store : DOMAIN entries[s] = {}
  BY DEF SignInInit
<1>2. SignInTypeOK
  BY <1>1 DEF SignInInit, SignInTypeOK
<1>3. Capped
  BY <1>1, FS_EmptySet DEF Capped
<1>4. \A f \in Flow : FlowInv(f)
  BY <1>1 DEF SignInInit, FlowInv, OnePlace, NothingYet, Allowed, Held, Store
<1> QED BY <1>2, <1>3, <1>4 DEF SignInInv

\* Every step keeps it.
LEMMA InvStep == SignInInv /\ [SignInNext]_signInVars => SignInInv'
<1> SUFFICES ASSUME SignInInv, [SignInNext]_signInVars
             PROVE  SignInInv'
  OBVIOUS
<1>1. CASE UNCHANGED signInVars
  BY <1>1 DEF signInVars, SignInInv, SignInTypeOK, Capped, FlowInv, OnePlace, NothingYet, Allowed, Held, Store
<1>2. CASE SignInNext
  BY <1>2, AuthorizeStep, ConsentStep, CallbackStep, CallbackEndsStep, ChallengeStep, RedeemStep, QuietStep
     DEF SignInNext
<1> QED BY <1>1, <1>2

\* At every moment each flow is in one place at most, for any flows, allowlist, lifetimes and cap.
THEOREM FlowsOrderly == SignInSpec => []SignInInv
<1> QED BY InvInit, InvStep, PTL DEF SignInSpec

\* The ages of the entries stay within their lifetimes, and the stores hold flows only.
THEOREM SignInTypeCorrect == SignInSpec => []SignInTypeOK
<1>1. SignInInv => SignInTypeOK
  BY DEF SignInInv
<1> QED BY <1>1, FlowsOrderly, PTL

\* A code yields tokens once at most, an unrecognized client's user pressed Allow first, and no
\* store outgrows its cap (provider.ts, routes.ts, ttl-store.ts).
THEOREM SignInSafeHolds == SignInSpec => []SignInSafe
<1>1. SignInInv => SignInSafe
  BY DEF SignInInv, FlowInv, OnePlace, Allowed, Capped, SignInSafe, RedeemedOnce, ConsentFirst, StoresCapped
<1> QED BY <1>1, FlowsOrderly, PTL

\* What is live in a store leaves it by its own flow's next request or a restart only: neither a full
\* store nor a sweep drops it (ttl-store.ts).
THEOREM InFlightKeptHolds == SignInSpec => InFlightKept
<1>1. SignInInv /\ [SignInNext]_signInVars =>
        [\A s \in Store, f \in Flow : Live(s, f) /\ f \notin DOMAIN entries'[s] => OwnStep(s, f)]_signInVars
  <2> SUFFICES ASSUME SignInInv, SignInNext, NEW s \in Store, NEW f \in Flow,
                      Live(s, f), f \notin DOMAIN entries'[s]
               PROVE  OwnStep(s, f)
    BY DEF InFlightKept
  <2>1. f \in DOMAIN entries[s] /\ f \notin {h \in DOMAIN entries[s] : Expired(s, h)} /\ f \in DOMAIN PutResult(s, f)
    BY PutProperties DEF Live, Held, SignInInv
  <2>2. \A h \in Flow : f \in DOMAIN PutResult(s, h)
    BY PutProperties DEF SignInInv
  <2>3. ASSUME NEW h \in Flow, Authorize(h)
        PROVE  FALSE
    BY <2>1, <2>2, <2>3 DEF Authorize, Upstream, SignInInv, SignInTypeOK, Store
  <2>4. ASSUME NEW h \in Flow, Consent(h)
        PROVE  OwnStep(s, f)
    <3>1. DOMAIN entries = Store
      BY DEF SignInInv, SignInTypeOK
    <3>2. CASE s = "consent"
      <4>1. entries'[s] = Without(s, {h})
        BY <2>4, <3>1, <3>2 DEF Consent, Consumed, Upstream, Store
      <4> QED BY <2>1, <2>4, <3>2, <4>1 DEF Without, OwnStep
    <3>3. CASE s = "request"
      <4>1. entries'[s] = entries[s] \/ entries'[s] = PutResult(s, h)
        BY <2>4, <3>1, <3>3 DEF Consent, Upstream, Store
      <4> QED BY <2>1, <2>2, <2>4, <4>1
    <3>4. CASE s = "code"
      BY <2>1, <2>4, <3>1, <3>4 DEF Consent, Upstream, Store
    <3> QED BY <3>2, <3>3, <3>4 DEF Store
  <2>5. ASSUME NEW h \in Flow, Callback(h)
        PROVE  OwnStep(s, f)
    BY <2>1, <2>5 DEF Callback, Consumed, Without, SignInInv, SignInTypeOK, Store, OwnStep
  <2>6. ASSUME NEW h \in Flow, CallbackEnds(h)
        PROVE  FALSE
    BY <2>1, <2>2, <2>6 DEF CallbackEnds, SignInInv, SignInTypeOK, Store
  <2>7. ASSUME NEW h \in Flow, Challenge(h)
        PROVE  FALSE
    BY <2>1, <2>7 DEF Challenge, Consumed, Without, SignInInv, SignInTypeOK, Store, Live
  <2>8. ASSUME NEW h \in Flow, Redeem(h)
        PROVE  OwnStep(s, f)
    BY <2>1, <2>8 DEF Redeem, Consumed, Without, SignInInv, SignInTypeOK, Store, OwnStep
  <2>9. CASE SweepStores
    BY <2>1, <2>9 DEF SweepStores, Swept, Without
  <2>10. CASE Older
    BY <2>1, <2>10 DEF Older
  <2>11. CASE ForgetFlows
    BY <2>11 DEF OwnStep
  <2> QED BY <2>3, <2>4, <2>5, <2>6, <2>7, <2>8, <2>9, <2>10, <2>11 DEF SignInNext
<1> QED BY <1>1, FlowsOrderly, PTL DEF SignInSpec, InFlightKept

(***************************************************************************)
(* Of the whole: whatever the focus, each of these parts behaves as its    *)
(* own specification says.                                                 *)
(***************************************************************************)

\* A step of the whole is a step of the start and end of the process, or none.
LEMMA BootImplemented == Spec => BootSpec
<1>1. Init => BootInit
  BY DEF Init
<1>2. [Next]_vars => [BootNext]_bootVars
  BY DEF Next, vars, processVars, OnSignIn, OnShopping, OnMenus, OnCatalogs, OnRecipes, OnChecklists, OnViews, OnCooking,
         OnSwipes, OnDrawer, OnLayouts, OnBoot, OnRequests, OnVectors
<1> QED BY <1>1, <1>2, PTL DEF Spec, BootSpec

\* The same of the requests to Paprika.
LEMMA RequestsImplemented == Spec => RequestsSpec
<1>1. Init => RequestsInit
  BY DEF Init
<1>2. [Next]_vars => [RequestsNext]_requestVars
  BY DEF Next, vars, processVars, OnSignIn, OnShopping, OnMenus, OnCatalogs, OnRecipes, OnChecklists, OnViews, OnCooking,
         OnSwipes, OnDrawer, OnLayouts, OnBoot, OnRequests, OnVectors
<1> QED BY <1>1, <1>2, PTL DEF Spec, RequestsSpec

\* The same of the vector index.
LEMMA VectorIndexImplemented == Spec => VectorIndexSpec
<1>1. Init => VectorIndexInit
  BY DEF Init
<1>2. [Next]_vars => [VectorIndexNext]_vectorIndexVars
  BY DEF Next, vars, processVars, OnSignIn, OnShopping, OnMenus, OnCatalogs, OnRecipes, OnChecklists, OnViews, OnCooking,
         OnSwipes, OnDrawer, OnLayouts, OnBoot, OnRequests, OnVectors
<1> QED BY <1>1, <1>2, PTL DEF Spec, VectorIndexSpec

\* For any modules, dependencies, signals, requests, retries, mishaps, ids, vectors and updates: the process
\* starts and ends its parts in order and once, its requests get as far as they can, and its vector index is
\* what was last written of it (index.ts, transport/stdio.ts, kernel/registry.ts, paprika/client.ts,
\* features/json-vector-index.ts).
THEOREM ProcessRightHolds == Spec => []ProcessRight
<1>1. BootRight /\ RequestsRight /\ IndexKept => ProcessRight
  BY DEF ProcessRight
<1> QED BY <1>1, BootImplemented, RequestsImplemented, VectorIndexImplemented, BootRightHolds, RequestsRightHolds,
           IndexKeptHolds, PTL

\* The same of the checklists' rows.
LEMMA ChecklistsImplemented == Spec => ChecklistsSpec
<1>1. Init => ChecklistsInit
  BY DEF Init
<1>2. [Next]_vars => [ChecklistsNext]_checklistVars
  BY DEF Next, vars, others, OnSignIn, OnShopping, OnMenus, OnCatalogs, OnRecipes, OnChecklists, OnViews, OnCooking,
         OnSwipes, OnDrawer, OnLayouts, OnBoot, OnRequests, OnVectors
<1> QED BY <1>1, <1>2, PTL DEF Spec, ChecklistsSpec

\* The same of a row under the finger.
LEMMA SwipesImplemented == Spec => SwipesSpec
<1>1. Init => SwipesInit
  BY DEF Init
<1>2. [Next]_vars => [SwipesNext]_swipeVars
  BY DEF Next, vars, screenVars, OnSignIn, OnShopping, OnMenus, OnCatalogs, OnRecipes, OnChecklists, OnViews, OnCooking,
         OnSwipes, OnDrawer, OnLayouts, OnBoot, OnRequests, OnVectors
<1> QED BY <1>1, <1>2, PTL DEF Spec, SwipesSpec

\* The same of the pantry's drawer.
LEMMA DrawerImplemented == Spec => DrawerSpec
<1>1. Init => DrawerInit
  BY DEF Init
<1>2. [Next]_vars => [DrawerNext]_drawerVars
  BY DEF Next, vars, screenVars, OnSignIn, OnShopping, OnMenus, OnCatalogs, OnRecipes, OnChecklists, OnViews, OnCooking,
         OnSwipes, OnDrawer, OnLayouts, OnBoot, OnRequests, OnVectors
<1> QED BY <1>1, <1>2, PTL DEF Spec, DrawerSpec

\* For any rows, touches, reads, acts and feeds: the rows of the two checklists agree with the server once it
\* is at rest, one touch acts on one of them once and leaves none shown to the side but where a swiped row is
\* leaving or went astray, and the pantry's drawer and its flying rows fit the rows
\* (the widgets' App.svelte, swipe-gesture.ts, swipe-action.ts).
THEOREM ChecklistsRightHolds == Spec => []ChecklistsRight
<1>1. ListAgrees /\ SwipesOnce /\ DrawerRight => ChecklistsRight
  BY DEF ChecklistsRight
<1> QED BY <1>1, ChecklistsImplemented, SwipesImplemented, DrawerImplemented, ListAgreesHolds, SwipesOnceHolds,
           DrawerRightHolds, PTL

=============================================================================
