------------------------------ MODULE ChunkingMC -----------------------------
(* A small instance of Chunking: words of four bits, windows shorter than,   *)
(* as long as and longer than a word.                                       *)
EXTENDS Chunking

Config(chunker, min, avg, max, window) ==
    [chunker |-> chunker, min |-> min, avg |-> avg, max |-> max, window |-> window]

MCBuzTable == (0 :> {0, 2}) @@ (1 :> {0, 1, 3})

MCConfigs ==
    {Config("cdc_buzhash", 1, 2, 3, 2), Config("cdc_buzhash", 2, 3, 5, 4),
     Config("cdc_buzhash", 1, 4, 6, 5), Config("cdc_buzhash", 2, 2, 2, 1),
     Config("cdc_rabin", 1, 2, 4, 2), Config("cdc_rabin", 1, 4, 5, 3),
     Config("fixed", 1, 3, 3, 2)}

MCRabinConfigs == {Config("cdc_rabin", 1, 512, 1024, 2)}
=============================================================================
