----------------------------- MODULE SeedFilesMC -----------------------------
(* Small instances of SeedFiles: a seed without embedded chunks, one with   *)
(* a chunk and one with a chunk that is too large.                          *)
EXTENDS SeedFiles, TLC

CONSTANTS h, m1, m2, m3, x, big, p1, p2

Ref(i) == [code |-> "REF", index |-> i]
Raw(i) == [code |-> "RAW", index |-> i]
Recipe(ops) == [table |-> <<h>>, ops |-> ops]
MCSeeds ==
    {[manifest |-> m1, recipe |-> Recipe(<<Ref(0), Ref(0)>>), raw |-> <<>>],
     [manifest |-> m2, recipe |-> Recipe(<<Raw(0)>>), raw |-> 0 :> x],
     [manifest |-> m3, recipe |-> Recipe(<<Raw(0)>>), raw |-> 0 :> big]}
MCStrange == {RecipeBody(Recipe(<<Ref(1)>>)),
              [RecipeBody(Recipe(<<Ref(0)>>)) EXCEPT !.ops = 2]}
MCSymmetry == Permutations({p1, p2})
=============================================================================
