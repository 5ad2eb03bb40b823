---- MODULE Grouping ----
(***************************************************************************)
(* The grouping that both checklist widgets share (shared/group.ts): runs  *)
(* of neighbours with one key, in the order the rows come in.              *)
(***************************************************************************)
EXTENDS Naturals, Sequences, SequencesExt

groupConsecutive(seq, key) ==
  FoldLeft(LAMBDA gs, i : IF gs # <<>> /\ Last(gs).key = key[i]
                          THEN [gs EXCEPT ![Len(gs)].items = Append(@, i)]
                          ELSE Append(gs, [key |-> key[i], items |-> <<i>>]),
           <<>>, seq)
====
