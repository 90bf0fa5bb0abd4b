------------------------------ MODULE Payloads ------------------------------
(***************************************************************************)
(* Chunk payloads and the SHA-256 digests that name them, in the genome,   *)
(* in seeds and on IPFS (where a raw block's CID is its digest).           *)
(***************************************************************************)
EXTENDS Integers

CONSTANTS
    Content,    \* chunk payloads
    Digest,     \* SHA-256 values; their order is the byte order of ORDER BY hash
    Sha,        \* the SHA-256 of a payload
    Missing     \* what get_chunk returns for an absent chunk (None)

\* Distinct payloads have distinct digests: the collision resistance of
\* SHA-256 on which content addressing rests.
ASSUME ShaAssumption ==
    /\ Digest \subseteq Nat
    /\ Sha \in [Content -> Digest]
    /\ \A a, b \in Content : Sha[a] = Sha[b] => a = b
    /\ Missing \notin Content
=============================================================================
