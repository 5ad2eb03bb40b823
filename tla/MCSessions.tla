---- MODULE MCSessions ----
(***************************************************************************)
(* Sessions on a small instance: each id is of a subject of its own.       *)
(* Requests are told apart by nothing but what they do.                    *)
(***************************************************************************)
EXTENDS Sessions, TLC

MCOwner == CHOOSE f \in [Id -> Subject] : \A i, j \in Id : f[i] = f[j] => i = j
Interchangeable == Permutations(Request)
====
