---------------------------- MODULE HybridDecodeMC ---------------------------
(* A small instance of HybridDecode: recipes of up to five ops over two     *)
(* chunks, with repetitions, embedded payloads, private and stale manifests *)
EXTENDS HybridDecode, TLC

CONSTANTS a, b

MCContent == {a, b}
MCDigest == 1..2
MCSha == a :> 1 @@ b :> 2
MCRecipes == {
    [ops |-> <<1, 2, 1, 2>>, raw |-> {}, sha |-> <<1, 2, 1, 2>>],
    [ops |-> <<2, 1, 2, 2, 1>>, raw |-> {1}, sha |-> Null],
    [ops |-> <<1, 1, 2>>, raw |-> {1}, sha |-> <<1, 2, 2>>]}
=============================================================================
