----------------------------- MODULE GenesPackMC -----------------------------
(* A small instance of GenesPack: payloads of 5 and 300 bytes, so that a cut *)
(* size reads as zero or as another number.                                 *)
EXTENDS GenesPack, TLC

CONSTANTS a, b

MCContent == {a, b}
MCDigest == 1..2
MCSha == a :> 1 @@ b :> 2
MCSizeOf == a :> 5 @@ b :> 300
MCTables == {<<1>>, <<1, 2>>, <<2, 1>>}
=============================================================================
