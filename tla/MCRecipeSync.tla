---- MODULE MCRecipeSync ----
(* RecipeSync on small instances. *)
EXTENDS RecipeSync, TLC

Symm == Permutations(Uid) \cup Permutations(Body) \cup Permutations(Writer)
====
