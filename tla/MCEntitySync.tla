---- MODULE MCEntitySync ----
(* EntitySync on small instances: rows and contents are interchangeable. *)
EXTENDS EntitySync, TLC

Symm == Permutations(Uid) \cup Permutations(Row) \cup Permutations(Writer)
====
