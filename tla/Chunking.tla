------------------------------- MODULE Chunking ------------------------------
(***************************************************************************)
(* The chunkers of src/seedbraid/chunking.py, run side by side over        *)
(* streams that differ at first and then go on with the same bytes, as two *)
(* versions of a file do after an edit.                                    *)
(*                                                                         *)
(* A word of the BuzHash is the set of its one bits, of Width instead of   *)
(* 64 positions.  The Rabin hash is kept modulo mask + 1: the cuts depend  *)
(* on its low bits alone, and these on the low bits of what it was before. *)
(***************************************************************************)
EXTENDS Integers, Sequences, SequencesExt

CONSTANTS
    Stream,         \* the streams
    Byte,           \* the bytes they are made of
    Width,          \* bits of a BuzHash word
    BuzTable,       \* byte -> word, the BuzHash constants
    Configs,        \* configurations: [chunker, min, avg, max, window]
    MaxOwn,         \* bound on the bytes a stream has for itself
    MaxShared       \* bound on the bytes they have in common

\* _cfg of cli.py refuses other sizes; the window is one of two constants.
ASSUME ChunkingAssumption ==
    /\ Byte \subseteq 0..255 /\ Width \in Nat \ {0}
    /\ BuzTable \in [Byte -> SUBSET (0..Width - 1)]
    /\ Configs \subseteq [chunker : {"fixed", "cdc_buzhash", "cdc_rabin"},
                          min : Nat, avg : Nat, max : Nat, window : Nat \ {0}]
    /\ \A c \in Configs : 0 < c.min /\ c.min <= c.avg /\ c.avg <= c.max

VARIABLES
    cfg,        \* the configuration
    streams,    \* stream -> how far its chunker is
    shared,     \* number of common bytes read
    aligned,    \* history: the streams were cut at the same byte, a window
                \* or more into what they share
    ended       \* the streams are at their end

chunkVars == <<cfg, streams, shared, aligned, ended>>

-----------------------------------------------------------------------------
(* Hashes.                                                                  *)

\* _mask_from_avg: log2 of the average size, rounded.
MaskBits(avg) ==
    LET n == IF avg < 2 THEN 2 ELSE avg
    IN  CHOOSE k \in 1..n : 2 ^ (2 * k - 1) < n * n /\ n * n < 2 ^ (2 * k + 1)

Modulus == 2 ^ MaskBits(cfg.avg)

RotL(word, n) == {(i + n) % Width : i \in word}
Xor(v, w) == (v \ w) \union (w \ v)

\* pow(b, n, m)
PowerMod(b, n, m) ==
    LET pow[i \in 0..n] == IF i = 0 THEN 1 % m ELSE (b * pow[i - 1]) % m
    IN  pow[n]

IsBuz == cfg.chunker = "cdc_buzhash"

Zero == IF IsBuz THEN {} ELSE 0

\* A byte enters the hash.
Push(h, b) ==
    IF IsBuz THEN Xor(RotL(h, 1), BuzTable[b]) ELSE (h * 257 + b) % Modulus

\* Faulty variant: the outgoing byte is rotated by one too few.
RollEarly(h, b, old) ==
    IF IsBuz
    THEN Xor(Xor(RotL(h, 1), BuzTable[b]), RotL(BuzTable[old], cfg.window - 1))
    ELSE Push((h - old * PowerMod(257, cfg.window, Modulus)) % Modulus, b)

\* A byte enters the hash and another leaves it.
Roll(h, b, old) ==
    IF IsBuz
    THEN Xor(Xor(RotL(h, 1), BuzTable[b]), RotL(BuzTable[old], cfg.window))
    ELSE Push((h - old * PowerMod(257, cfg.window, Modulus)) % Modulus, b)

\* (h & mask) = 0
IsBoundary(h) ==
    IF IsBuz THEN h \intersect (0..MaskBits(cfg.avg) - 1) = {} ELSE h = 0

-----------------------------------------------------------------------------
(* One chunker.                                                             *)

Fresh == [data |-> <<>>, ring |-> [i \in 0..cfg.window - 1 |-> 0], fill |-> 0,
          wpos |-> 0, hash |-> Zero, size |-> 0, cuts |-> <<>>]

\* Faulty variant: the ring does not advance.
HashedStuck(st, b) ==
    IF st.fill < cfg.window
    THEN [st EXCEPT !.ring[st.fill] = b, !.fill = @ + 1, !.hash = Push(@, b)]
    ELSE [st EXCEPT !.ring[st.wpos] = b, !.hash = Roll(@, b, st.ring[st.wpos])]

\* The window is filled first; then the new byte takes the oldest one's place.
Hashed(st, b) ==
    IF st.fill < cfg.window
    THEN [st EXCEPT !.ring[st.fill] = b, !.fill = @ + 1, !.hash = Push(@, b)]
    ELSE [st EXCEPT !.ring[st.wpos] = b,
                    !.wpos = (@ + 1) % cfg.window,
                    !.hash = Roll(@, b, st.ring[st.wpos])]

\* Faulty variant: the limit is compared too late.
CutHereLate(size, h) == size >= cfg.min /\ (size > cfg.max \/ IsBoundary(h))

CutHere(size, h) ==
    IF cfg.chunker = "fixed" THEN size = cfg.avg
    ELSE size >= cfg.min /\ (size >= cfg.max \/ IsBoundary(h))

\* The next byte.
Fed(st, b) ==
    LET read == [(IF cfg.chunker = "fixed" THEN st ELSE Hashed(st, b)) EXCEPT
                    !.data = Append(@, b), !.size = @ + 1]
    IN  IF CutHere(read.size, read.hash)
        THEN [read EXCEPT !.cuts = Append(@, read.size), !.size = 0]
        ELSE read

\* The end of the stream: what is left is the last chunk.
Finished(st) ==
    IF st.size > 0 THEN [st EXCEPT !.cuts = Append(@, st.size), !.size = 0] ELSE st

-----------------------------------------------------------------------------
ChunkingInit ==
    /\ cfg \in Configs
    /\ streams = [s \in Stream |-> Fresh]
    /\ shared = 0 /\ aligned = FALSE /\ ended = FALSE

OwnByte(s, b) ==
    /\ ~ended /\ shared = 0
    /\ Len(streams[s].data) < MaxOwn
    /\ streams' = [streams EXCEPT ![s] = Fed(@, b)]
    /\ UNCHANGED <<cfg, shared, aligned, ended>>

SharedByte(b) ==
    /\ ~ended /\ shared < MaxShared
    /\ streams' = [s \in Stream |-> Fed(streams[s], b)]
    /\ shared' = shared + 1
    /\ aligned' = (aligned \/ /\ shared' >= cfg.window
                              /\ \A s \in Stream : streams'[s].size = 0)
    /\ UNCHANGED <<cfg, ended>>

EndOfStreams ==
    /\ ~ended
    /\ ended' = TRUE
    /\ streams' = [s \in Stream |-> Finished(streams[s])]
    /\ UNCHANGED <<cfg, shared, aligned>>

ChunkingNext ==
    \/ \E s \in Stream, b \in Byte : OwnByte(s, b)
    \/ \E b \in Byte : SharedByte(b)
    \/ EndOfStreams

ChunkingSpec == ChunkingInit /\ [][ChunkingNext]_chunkVars

-----------------------------------------------------------------------------
(* Properties.                                                              *)

\* The hash is that of the last window of bytes, as if nothing had been read
\* before, wherever the ring stands (iter_cdc_buzhash, iter_cdc_rabin).
LastWindow(st) ==
    SubSeq(st.data, IF Len(st.data) > cfg.window THEN Len(st.data) - cfg.window + 1 ELSE 1,
           Len(st.data))

Rolling ==
    cfg.chunker # "fixed" =>
        \A s \in Stream :
            streams[s].hash = FoldLeft(Push, Zero, LastWindow(streams[s]))

\* Every chunk but the last has its size between min and max, and the chunks
\* make up the stream.
SizesBounded ==
    \A s \in Stream :
        LET st == streams[s]
        IN  /\ \A i \in 1..Len(st.cuts) :
                /\ st.cuts[i] \in 1..cfg.max
                /\ i < Len(st.cuts) \/ ~ended => st.cuts[i] >= cfg.min
            /\ FoldLeft(+, 0, st.cuts) + st.size = Len(st.data)

\* An edit changes the chunks around it only: from a window after it the
\* content alone says where a chunk may end, and once the streams have been
\* cut at the same byte they are cut alike for ever.  (chunking.py:
\* "shift-resilient chunk boundary detection")
ShiftResilient ==
    /\ cfg.chunker # "fixed" /\ shared >= cfg.window =>
        \A s, t \in Stream : IsBoundary(streams[s].hash) = IsBoundary(streams[t].hash)
    /\ aligned /\ ~ended =>
        \A s, t \in Stream : streams[s].size = streams[t].size
=============================================================================
