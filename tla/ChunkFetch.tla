----------------------------- MODULE ChunkFetch -----------------------------
(***************************************************************************)
(* The fetch-decode command: fetch_decode_from_ipfs, fetch_chunks_parallel *)
(* and IPFSChunkStorage.get_chunk of src/seedbraid/ipfs_chunks.py.         *)
(*                                                                         *)
(* A seed's ops are taken in batches.  The chunks a batch refers to are    *)
(* fetched by a pool of threads, each asking the node up to Retries times  *)
(* and then the HTTP gateway, if there is one; then the batch is written.  *)
(***************************************************************************)
EXTENDS IpfsNode, WorkerPool

CONSTANTS
    Recipes,    \* seeds that may be decoded
    Null,       \* source_sha256 of a private manifest
    BatchSize,  \* --batch-size
    Retries,    \* --retries
    MaxFetches, \* bound on commands started
    MaxKills    \* bound on commands killed

Recipe == [ops : Seq(Digest), raw : SUBSET Digest, sha : Seq(Digest) \union {Null}]

ASSUME FetchAssumption ==
    /\ Recipes \subseteq Recipe
    /\ \A r \in Recipes : r.raw \subseteq {Sha[x] : x \in Content}
    /\ BatchSize \in Nat \ {0} /\ Retries \in Nat \ {0}
    /\ {MaxFetches, MaxKills} \subseteq Nat

VARIABLES
    pc,         \* client -> what it does next
    seed,       \* client -> the seed it decodes
    gateway,    \* client -> whether a gateway is configured
    batch,      \* client -> the op its batch begins after
    digests,    \* client -> the chunks the pool fetches for the batch
    tries,      \* client -> failed API attempts of each task
    results,    \* client -> what each task returned
    out,        \* client -> payloads written to its output file
    res,        \* client -> how its last command ended
    begun, kills,   \* counters of the bounds
    asked       \* history: client -> tasks that may not fall back any more:
                \* the gateway was asked, or a payload had the wrong hash

fetchOwnVars == <<pc, seed, gateway, batch, digests, tries, results, out, res>>
fetchVars == <<nodeVars, poolVars, fetchOwnVars, begun, kills, asked>>

Ends(c, r) ==
    /\ pc' = [pc EXCEPT ![c] = "idle"]
    /\ res' = [res EXCEPT ![c] = r]
    /\ UNCHANGED <<seed, gateway, batch, digests, tries, results, out>>

-----------------------------------------------------------------------------
(* fetch_decode_from_ipfs.                                                  *)

BlankRecipe == [ops |-> <<>>, raw |-> {}, sha |-> Null]

\* read_seed; the output is opened, and so emptied.
FetchStart(c) ==
    \E r \in Recipes, gw \in BOOLEAN :
        /\ pc[c] = "idle"
        /\ begun < MaxFetches
        /\ begun' = begun + 1
        /\ pc' = [pc EXCEPT ![c] = "batch"]
        /\ seed' = [seed EXCEPT ![c] = r]
        /\ gateway' = [gateway EXCEPT ![c] = gw]
        /\ batch' = [batch EXCEPT ![c] = 0]
        /\ digests' = [digests EXCEPT ![c] = <<>>]
        /\ tries' = [tries EXCEPT ![c] = <<>>]
        /\ results' = [results EXCEPT ![c] = <<>>]
        /\ out' = [out EXCEPT ![c] = <<>>]
        /\ res' = [res EXCEPT ![c] = "none"]
        /\ asked' = [asked EXCEPT ![c] = {}]
        /\ UNCHANGED <<nodeVars, poolVars, kills>>

Ops(c) == seed[c].ops
Least(m, n) == IF m <= n THEN m ELSE n
BatchEnd(c) == Least(batch[c] + BatchSize, Len(Ops(c)))

\* Digests of the batch that the seed does not embed, each once, in order.
ToFetch(c) ==
    LET First(i) == /\ Ops(c)[i] \notin seed[c].raw
                    /\ \A j \in batch[c] + 1..i - 1 : Ops(c)[j] # Ops(c)[i]
        Firsts   == {i \in batch[c] + 1..BatchEnd(c) : First(i)}
        Nth(n)   == CHOOSE i \in Firsts : Cardinality({j \in Firsts : j <= i}) = n
    IN  [n \in 1..Cardinality(Firsts) |-> Ops(c)[Nth(n)]]

BatchStart(c) ==
    /\ pc[c] = "batch" /\ batch[c] < Len(Ops(c))
    /\ digests' = [digests EXCEPT ![c] = ToFetch(c)]
    /\ tries' = [tries EXCEPT ![c] = [t \in DOMAIN ToFetch(c) |-> 0]]
    /\ results' = [results EXCEPT ![c] = [t \in DOMAIN ToFetch(c) |-> Missing]]
    /\ asked' = [asked EXCEPT ![c] = {}]
    /\ IF ToFetch(c) = <<>>
       THEN pc' = [pc EXCEPT ![c] = "write"] /\ UNCHANGED poolVars
       ELSE pc' = [pc EXCEPT ![c] = "pool"] /\ Submit(c, Len(ToFetch(c)))
    /\ UNCHANGED <<nodeVars, seed, gateway, batch, out, res, begun, kills>>

PoolLeft(c) ==
    /\ pc[c] = "pool" /\ pool[c] = "closed"
    /\ CASE raised[c] = "tool"  -> Ends(c, "failed")
         [] raised[c] = "other" -> Ends(c, "crashed")
         [] raised[c] = "none"  ->
              /\ pc' = [pc EXCEPT ![c] = "write"]
              /\ UNCHANGED <<seed, gateway, batch, digests, tries, results, out, res>>
    /\ UNCHANGED <<nodeVars, poolVars, begun, kills, asked>>

\* The payload of the next op: embedded in the seed, or fetched.
PayloadOf(d) == CHOOSE x \in Content : Sha[x] = d
Fetched(c, d) ==
    LET T == {t \in DOMAIN digests[c] : digests[c][t] = d}
    IN  IF T = {} THEN Missing ELSE results[c][CHOOSE t \in T : TRUE]
NextPayload(c) ==
    LET d == Ops(c)[Len(out[c]) + 1]
    IN  IF d \in seed[c].raw THEN PayloadOf(d) ELSE Fetched(c, d)

WriteOp(c) ==
    /\ pc[c] = "write" /\ Len(out[c]) < BatchEnd(c)
    /\ IF NextPayload(c) = Missing THEN Ends(c, "failed")
       ELSE /\ out' = [out EXCEPT ![c] = Append(@, NextPayload(c))]
            /\ UNCHANGED <<pc, seed, gateway, batch, digests, tries, results, res>>
    /\ UNCHANGED <<nodeVars, poolVars, begun, kills, asked>>

BatchDone(c) ==
    /\ pc[c] = "write" /\ Len(out[c]) = BatchEnd(c)
    /\ batch' = [batch EXCEPT ![c] = @ + BatchSize]
    /\ pc' = [pc EXCEPT ![c] = "batch"]
    /\ UNCHANGED <<seed, gateway, digests, tries, results, out, res,
                   nodeVars, poolVars, begun, kills, asked>>

\* The SHA-256 of all that was written, against the manifest.
FetchDone(c) ==
    /\ pc[c] = "batch" /\ batch[c] >= Len(Ops(c))
    /\ Ends(c, IF seed[c].sha \in {Null, [i \in DOMAIN out[c] |-> Sha[out[c][i]]]}
               THEN "ok" ELSE "failed")
    /\ UNCHANGED <<nodeVars, poolVars, begun, kills, asked>>

-----------------------------------------------------------------------------
(* get_chunk, in a thread of the pool.                                      *)

OtherOwn == UNCHANGED <<pc, seed, gateway, batch, digests, out, res, begun, kills>>

Returns(c, t, x) ==
    /\ TaskEnds(c, t, "returned")
    /\ results' = [results EXCEPT ![c][t] = x]

ApiStage(c, t) == futures[c][t] = "running" /\ tries[c][t] < Retries
GatewayStage(c, t) == futures[c][t] = "running" /\ tries[c][t] = Retries /\ gateway[c]

\* Faulty variant: the payload is not hashed.
ApiAnswersUnhashed(c, t) ==
    /\ ApiStage(c, t)
    /\ BlockGet(digests[c][t])
    /\ \E x \in Content : Returns(c, t, x)
    /\ UNCHANGED <<tries, asked>> /\ OtherOwn

\* The node may serve any payload of the digest's size; it is hashed.
ApiAnswers(c, t) ==
    /\ ApiStage(c, t)
    /\ BlockGet(digests[c][t])
    /\ \E x \in Content :
        IF Sha[x] = digests[c][t]
        THEN Returns(c, t, x) /\ UNCHANGED asked
        ELSE /\ TaskEnds(c, t, "tool")
             /\ asked' = [asked EXCEPT ![c] = @ \union {t}]
             /\ UNCHANGED results
    /\ UNCHANGED tries /\ OtherOwn

\* Faulty variant: the gateway is only there for the first attempt.
ApiFailsNoGateway(c, t) ==
    /\ ApiStage(c, t)
    /\ tries' = [tries EXCEPT ![c][t] = @ + 1]
    /\ IF tries'[c][t] = Retries THEN TaskEnds(c, t, "tool") ELSE UNCHANGED poolVars
    /\ UNCHANGED <<nodeVars, results, asked>> /\ OtherOwn

\* Faulty variant: the count starts again when it reaches its limit.
ApiFailsForever(c, t) ==
    /\ ApiStage(c, t)
    /\ tries' = [tries EXCEPT ![c][t] = (@ + 1) % Retries]
    /\ UNCHANGED <<nodeVars, poolVars, results, asked>> /\ OtherOwn

\* Refused, or too large: another attempt, then the gateway, then None, for
\* which _fetch_one raises an ExternalToolError.
ApiFails(c, t) ==
    /\ ApiStage(c, t)
    /\ tries' = [tries EXCEPT ![c][t] = @ + 1]
    /\ IF tries'[c][t] = Retries /\ ~gateway[c] THEN TaskEnds(c, t, "tool")
       ELSE UNCHANGED poolVars
    /\ UNCHANGED <<nodeVars, results, asked>> /\ OtherOwn

\* No answer in time: an exception that is no ExternalToolError.
ApiSilent(c, t) ==
    /\ ApiStage(c, t)
    /\ TaskEnds(c, t, "other")
    /\ UNCHANGED <<nodeVars, tries, results, asked>> /\ OtherOwn

\* The gateway, which finds what a peer or the node provides; its payload
\* is hashed, and a failure of any kind becomes an ExternalToolError.
GatewayAnswers(c, t) ==
    /\ GatewayStage(c, t)
    /\ Reachable(digests[c][t])
    /\ \E x \in Content :
        IF Sha[x] = digests[c][t] THEN Returns(c, t, x)
        ELSE TaskEnds(c, t, "tool") /\ UNCHANGED results
    /\ asked' = [asked EXCEPT ![c] = @ \union {t}]
    /\ UNCHANGED <<nodeVars, tries>> /\ OtherOwn

GatewayFails(c, t) ==
    /\ GatewayStage(c, t)
    /\ TaskEnds(c, t, "tool")
    /\ asked' = [asked EXCEPT ![c] = @ \union {t}]
    /\ UNCHANGED <<nodeVars, tries, results>> /\ OtherOwn

Request(c) ==
    \E t \in TasksIn(c, {"running"}) :
        \/ ApiAnswers(c, t) \/ ApiFails(c, t) \/ ApiSilent(c, t)
        \/ GatewayAnswers(c, t) \/ GatewayFails(c, t)

PoolStep(c) ==
    /\ WorkerTakes(c) \/ MainThread(c)
    /\ UNCHANGED <<nodeVars, fetchOwnVars, begun, kills, asked>>

FetchStep(c) ==
    \/ BatchStart(c) \/ PoolLeft(c) \/ WriteOp(c) \/ BatchDone(c) \/ FetchDone(c)
    \/ Request(c) \/ PoolStep(c)

-----------------------------------------------------------------------------
(* The environment.                                                         *)

Kill(c) ==
    /\ pc[c] # "idle"
    /\ kills < MaxKills
    /\ kills' = kills + 1
    /\ Ends(c, "killed")
    /\ PoolKilled(c)
    /\ UNCHANGED <<nodeVars, begun, asked>>

NodeLives ==
    /\ CollectGarbage \/ \E d \in Digest : PeerLeaves(d) \/ PeerProvides(d)
    /\ UNCHANGED <<poolVars, fetchOwnVars, begun, kills, asked>>

\* Some chunks are on the node, pinned or not, and some on peers.
FetchInit ==
    /\ blocks \in SUBSET Digest /\ network \in SUBSET Popular
    /\ mfs = [n \in Dirs |-> NoDir]
    /\ pins \in {{}, {blocks}} /\ roots = pins
    /\ PoolInit
    /\ pc = [c \in Client |-> "idle"]
    /\ seed = [c \in Client |-> BlankRecipe]
    /\ gateway = [c \in Client |-> FALSE] /\ batch = [c \in Client |-> 0]
    /\ digests = [c \in Client |-> <<>>] /\ tries = [c \in Client |-> <<>>]
    /\ results = [c \in Client |-> <<>>] /\ out = [c \in Client |-> <<>>]
    /\ res = [c \in Client |-> "none"]
    /\ begun = 0 /\ kills = 0
    /\ asked = [c \in Client |-> {}]

FetchNext ==
    \/ \E c \in Client : FetchStart(c) \/ FetchStep(c) \/ Kill(c)
    \/ NodeLives

FetchSpec == FetchInit /\ [][FetchNext]_fetchVars

\* As for publishing: running commands, their threads and time go on.
FetchFairSpec == FetchSpec /\ \A c \in Client : WF_fetchVars(FetchStep(c))

-----------------------------------------------------------------------------
(* Properties.                                                              *)

FetchTypeOK ==
    /\ NodeTypeOK /\ PoolTypeOK
    /\ pc \in [Client -> {"idle", "batch", "pool", "write"}]
    /\ seed \in [Client -> Recipes \union {BlankRecipe}]
    /\ gateway \in [Client -> BOOLEAN] /\ batch \in [Client -> Nat]
    /\ digests \in [Client -> Seq(Digest)] /\ tries \in [Client -> Seq(0..Retries)]
    /\ results \in [Client -> Seq(Content \union {Missing})]
    /\ out \in [Client -> Seq(Content)]
    /\ res \in [Client -> {"none", "ok", "failed", "crashed", "killed"}]
    /\ asked \in [Client -> SUBSET Nat]

\* fetch-decode keeps the promise of Delivery: in whatever order threads
\* finish, and whatever the node or the gateway serves, the output is the
\* recipe's payloads in order, and success means all of them.
Output == INSTANCE Delivery WITH
    Decoder <- Client, wanted <- [c \in Client |-> seed[c].ops], written <- out,
    busy <- [c \in Client |-> pc[c] # "idle"], outcome <- res
DeliveryKept == Output!DeliverySpec

\* With a gateway configured, no chunk is given up with an ExternalToolError
\* before the gateway was asked, unless a payload had the wrong hash.
GatewayAsked ==
    \A c \in Client : pc[c] = "pool" /\ gateway[c] => TasksIn(c, {"tool"}) \subseteq asked[c]

\* The docstring of get_chunk: it "falls back to HTTP gateway when configured
\* and all API attempts fail", in whichever way they fail.
FallsBack ==
    \A c \in Client : pc[c] = "pool" /\ gateway[c]
                        => TasksIn(c, {"tool", "other"}) \subseteq asked[c]

\* Batches, threads, retries and the gateway always come to an end.
FetchEnds == \A c \in Client : []<>(pc[c] = "idle")
=============================================================================
