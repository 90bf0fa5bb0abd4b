----------------------------- MODULE ChunkFetchMC ----------------------------
(* A small instance of ChunkFetch: recipes of up to five ops over three     *)
(* chunks, with repetitions, embedded payloads, private and stale manifests *)
EXTENDS ChunkFetch, TLC

CONSTANTS a, b, c1

MCContent == {a, b, c1}
MCDigest == 1..3
MCSha == a :> 1 @@ b :> 2 @@ c1 :> 3
MCRecipes == {
    [ops |-> <<1, 2, 1, 3>>, raw |-> {}, sha |-> <<1, 2, 1, 3>>],
    [ops |-> <<2, 1, 3, 3, 1>>, raw |-> {1}, sha |-> Null],
    [ops |-> <<1, 1, 2>>, raw |-> {1}, sha |-> <<1, 2, 2>>]}
=============================================================================
