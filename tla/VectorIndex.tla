---- MODULE VectorIndex ----
(***************************************************************************)
(* JsonVectorIndex, as VectorStore drives it: one writer at a time, whose  *)
(* update is a copy that is written to disk before it takes the place of   *)
(* what searches see; searches come at any time after the start; a write   *)
(* can fail and the process can stop at any step of it.                    *)
(***************************************************************************)
EXTENDS Naturals, Sequences, FiniteSets, SequencesExt, FiniteSetsExt, Functions

CONSTANTS
  Id,          \* positive numbers
  Vector,      \* tuples of numbers of one or another dimension, degenerate ones too
  MaxUpdates,  \* updates the store begins
  MaxFailures  \* failed writes, crashes and damaged files

ASSUME VectorIndexAssumption == /\ Id \subseteq Nat \ {0} /\ Vector \subseteq Seq(Nat)
                                /\ MaxUpdates \in Nat /\ MaxFailures \in Nat

VARIABLES
  indexFile,  \* state: "missing", "whole" or "damaged"; items: id -> vector
  live,       \* _data: whether it is loaded, its items, and the _dimension that goes with it
  draft,      \* _update: whether one is open, and its items
  writer,     \* where the writer is: off (before the start), idle, in an update or a recreation
  writes, failures,
  acked       \* history only: the items as of the last write that was reported done, and those of the one under way

vectorIndexVars == <<indexFile, live, draft, writer, writes, failures, acked>>

NoItems == [k \in {} |-> <<>>]
NoDraft == [open |-> FALSE, items |-> NoItems]
NotLoaded == [loaded |-> FALSE, items |-> NoItems, dimension |-> 0]
WriteFails == failures > 0 /\ failures' = failures - 1

----------------------------------------------------------------------------
\* Vectors; the square of the norm stands for the norm.

DotProduct(a, b) == FoldLeft(LAMBDA s, k : s + a[k] * b[k], 0, [k \in DOMAIN a |-> k])
VectorNorm(v) == DotProduct(v, v)
ValidVector(v, dimension) == v # <<>> /\ (dimension # 0 => Len(v) = dimension)
DimensionOf(items) == IF DOMAIN items = {} THEN 0 ELSE Len(items[Min(DOMAIN items)])
Loadable(items) == \A k \in DOMAIN items : ValidVector(items[k], DimensionOf(items)) /\ VectorNorm(items[k]) # 0

\* a is nearer to v than b: cosines compared by their squares, no coordinate being negative.
Nearness(v, a) == [dot |-> DotProduct(v, a) * DotProduct(v, a), norm |-> VectorNorm(a)]
Nearer(v, a, b) == Nearness(v, a).dot * VectorNorm(b) > Nearness(v, b).dot * VectorNorm(a)
AboveCutoff(v, a, cutoff) == cutoff => 2 * Nearness(v, a).dot >= VectorNorm(a) * VectorNorm(v)

\* Ranked by score, then by id.
RanksBefore(items, v, k, l) == Nearer(v, items[k], items[l]) \/ (~Nearer(v, items[l], items[k]) /\ k < l)

\* A search sees what is committed, at whatever step the writer is; the dimension must fit.
QueryItems(v, top, cutoff) ==
  IF VectorNorm(v) = 0 THEN <<>>
  ELSE LET all == SetToSortSeq({k \in DOMAIN live.items : AboveCutoff(v, live.items[k], cutoff)},
                               LAMBDA k, l : RanksBefore(live.items, v, k, l))
       IN SubSeq(all, 1, Min({top, Len(all)}))

----------------------------------------------------------------------------
\* The start: the file is loaded, or, if there is none or it is damaged, made; another model makes it anew.

Loaded(items) == /\ live' = [loaded |-> TRUE, items |-> items, dimension |-> DimensionOf(items)]
                  /\ acked' = [done |-> items, next |-> items]

LoadIndexData ==
  /\ writer = "off" /\ indexFile.state = "whole" /\ Loadable(indexFile.items)
  /\ Loaded(indexFile.items)
  /\ writer' \in {"idle", "recreating"}
  /\ UNCHANGED <<indexFile, draft, writes, failures>>
Recover ==
  /\ writer = "off" /\ (indexFile.state # "whole" \/ ~Loadable(indexFile.items))
  /\ writer' = "recreating"
  /\ UNCHANGED <<indexFile, live, draft, writes, failures, acked>>

\* createIndex: away with the file, then the empty one.
RemoveIndex ==
  /\ writer = "recreating"
  /\ indexFile' = [state |-> "missing", items |-> NoItems]
  /\ writer' = "empty"
  /\ UNCHANGED <<live, draft, writes, failures, acked>>
CreateIndex ==
  /\ writer = "empty"
  /\ indexFile' = [state |-> "whole", items |-> NoItems]
  /\ Loaded(NoItems)
  /\ writer' = "idle"
  /\ UNCHANGED <<draft, writes, failures>>

----------------------------------------------------------------------------
\* An update: several recipes put, or one removed.

BeginUpdate ==
  /\ writer = "idle" /\ writes > 0
  /\ writes' = writes - 1
  /\ draft' = [open |-> TRUE, items |-> live.items]
  /\ writer' \in {"puts", "removes"}
  /\ UNCHANGED <<indexFile, live, failures, acked>>

\* Against the dimension of what is committed or, if that is empty, of what is in the draft.
MutExpected == live.dimension
Expected == IF live.dimension # 0 THEN live.dimension ELSE DimensionOf(draft.items)
CancelUpdate == draft' = NoDraft /\ writer' = "idle" /\ acked' = [acked EXCEPT !.next = acked.done]

\* The store has left out what is all zero; the index would refuse it too.
WithItem(items, k, v) == [l \in DOMAIN items \cup {k} |-> IF l = k THEN v ELSE items[l]]
UpsertItem(k, v) ==
  /\ writer = "puts" /\ VectorNorm(v) # 0
  /\ IF ValidVector(v, Expected)
     THEN /\ draft' = [draft EXCEPT !.items = WithItem(@, k, v)]
          /\ UNCHANGED <<writer, acked>>
     ELSE CancelUpdate
  /\ UNCHANGED <<indexFile, live, writes, failures>>
DeleteVector(k) ==
  /\ writer = "removes"
  /\ draft' = [draft EXCEPT !.items = Restrict(@, DOMAIN @ \ {k})]
  /\ writer' = "writing" /\ acked' = [acked EXCEPT !.next = draft'.items]
  /\ UNCHANGED <<indexFile, live, writes, failures>>
EndUpdate ==
  /\ writer = "puts"
  /\ writer' = "writing" /\ acked' = [acked EXCEPT !.next = draft.items]
  /\ UNCHANGED <<indexFile, live, draft, writes, failures>>

\* The file is written beside the old one and takes its place at once, or that fails.
Persist ==
  /\ writer = "writing"
  /\ \/ /\ indexFile' = [state |-> "whole", items |-> draft.items]
        /\ writer' = "written"
        /\ UNCHANGED <<draft, failures, acked>>
     \/ WriteFails /\ CancelUpdate /\ UNCHANGED indexFile
  /\ UNCHANGED <<live, writes>>
Promoted(items) == DimensionOf(items)
Swap ==
  /\ writer = "written"
  /\ live' = [live EXCEPT !.items = draft.items, !.dimension = Promoted(draft.items)]
  /\ draft' = NoDraft /\ writer' = "idle" /\ acked' = [acked EXCEPT !.done = acked.next]
  /\ UNCHANGED <<indexFile, writes, failures>>

----------------------------------------------------------------------------

\* The process stops, or a boot fails, and a file may be found damaged.
ProcessStops ==
  /\ WriteFails
  /\ live' = NotLoaded /\ draft' = NoDraft /\ writer' = "off"
  /\ indexFile' \in {indexFile, [state |-> "damaged", items |-> NoItems]}
  /\ UNCHANGED <<writes, acked>>

VectorIndexInit ==
  /\ indexFile = [state |-> "missing", items |-> NoItems]
  /\ live = NotLoaded /\ draft = NoDraft /\ writer = "off"
  /\ writes = MaxUpdates /\ failures = MaxFailures
  /\ acked = [done |-> NoItems, next |-> NoItems]

VectorIndexNext ==
  \/ LoadIndexData \/ Recover \/ RemoveIndex \/ CreateIndex
  \/ BeginUpdate \/ EndUpdate \/ Persist \/ Swap \/ ProcessStops
  \/ \E k \in Id : DeleteVector(k) \/ (\E v \in Vector : UpsertItem(k, v))

VectorIndexSpec == VectorIndexInit /\ [][VectorIndexNext]_vectorIndexVars

VectorIndexTypeOK ==
  /\ DOMAIN live.items \subseteq Id /\ DOMAIN draft.items \subseteq Id
  /\ writer \in {"off", "recreating", "empty", "idle", "puts", "removes", "writing", "written"}
  /\ draft.open <=> writer \in {"puts", "removes", "writing", "written"}

\* What searches see is what was last reported done, of one dimension and without a zero vector, and the
\* dimension that later vectors are held to is its own, whatever update failed or was cancelled; on disk,
\* before and after a crash, is that or the update that was being written, whole (json-vector-index.ts
\* 246-322: "persist durably FIRST, then swap").
IndexKept ==
  /\ live.loaded => /\ live.items = acked.done
                    /\ live.dimension = DimensionOf(live.items)
                    /\ Loadable(live.items)
  /\ indexFile.state = "whole" => indexFile.items \in {acked.done, acked.next}
  /\ writer = "idle" => indexFile.state = "whole" /\ indexFile.items = live.items

\* A search gives the nearest committed items, nearest first and in one order, no more than were asked
\* for, and leaves out none that is nearer than one it gives (json-vector-index.ts 324-368).
SearchRight ==
  live.loaded =>
    \A v \in Vector, top \in {1, 2}, cutoff \in BOOLEAN :
      ValidVector(v, live.dimension) /\ VectorNorm(v) # 0 =>
        LET g == QueryItems(v, top, cutoff)  items == live.items IN
        /\ IsInjective(g) /\ Len(g) <= top
        /\ \A i, j \in DOMAIN g : i < j => ~Nearer(v, items[g[j]], items[g[i]])
        /\ \A k \in DOMAIN items : k \in Range(g) \/ (AboveCutoff(v, items[k], cutoff)
             => Len(g) = top /\ \A i \in DOMAIN g : ~Nearer(v, items[k], items[g[i]]))
====
