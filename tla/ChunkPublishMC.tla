---------------------------- MODULE ChunkPublishMC ---------------------------
(* Small instances of ChunkPublish: three chunks of one seed, or two seeds  *)
(* that share one.                                                          *)
EXTENDS ChunkPublish, TLC

CONSTANTS a, b, c1

MCContent == {a, b, c1}
MCDigest == 1..3
MCSha == a :> 1 @@ b :> 2 @@ c1 :> 3
MCOne == {<<1, 2, 3>>}
MCTwo == {<<1, 2>>, <<2, 3>>}
MCPin == {{"pin"}}
MCAllOrNone == {{}, {"pin", "remote"}}
=============================================================================
