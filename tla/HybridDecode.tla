---------------------------- MODULE HybridDecode ----------------------------
(***************************************************************************)
(* decode --genome ipfs://[cache]: decode_file_with_genome (codec.py) over *)
(* HybridGenomeStorage (hybrid_storage.py), a local genome in front of     *)
(* IPFSChunkStorage.get_chunk (ipfs_chunks.py), next to fetch-decode on    *)
(* the same node.                                                          *)
(*                                                                         *)
(* With a path the cache is a genome that other decodes share and that     *)
(* stays; without one it is a temporary genome nothing is ever put into.   *)
(* A recipe does not keep the opcodes: an embedded chunk is looked up      *)
(* first (REF) or last (RAW).                                              *)
(***************************************************************************)
EXTENDS ChunkFetch, GenomeStore

CONSTANT Other      \* another process with the cache open

ASSUME HybridAssumption == Other \notin Client

VARIABLE cache      \* client -> "none" for fetch-decode, "discarded" or "kept"

hybridVars == <<fetchVars, genomeVars, cache>>
nodeSide == <<nodeVars, poolVars, begun, kills, asked>>

-----------------------------------------------------------------------------
(* decode_file_with_genome.                                                 *)

\* read_seed; the output is opened, and so emptied.
DecodeStart(c) ==
    \E r \in Recipes, gw \in BOOLEAN, k \in {"discarded", "kept"} :
        /\ pc[c] = "idle" /\ begun < MaxFetches
        /\ begun' = begun + 1
        /\ pc' = [pc EXCEPT ![c] = "ops"]
        /\ seed' = [seed EXCEPT ![c] = r]
        /\ gateway' = [gateway EXCEPT ![c] = gw]
        /\ cache' = [cache EXCEPT ![c] = k]
        /\ batch' = [batch EXCEPT ![c] = 0]
        /\ digests' = [digests EXCEPT ![c] = <<>>]
        /\ tries' = [tries EXCEPT ![c] = <<>>]
        /\ results' = [results EXCEPT ![c] = <<>>]
        /\ out' = [out EXCEPT ![c] = <<>>]
        /\ res' = [res EXCEPT ![c] = "none"]
        /\ asked' = [asked EXCEPT ![c] = {}]
        /\ UNCHANGED <<nodeVars, poolVars, kills, genomeVars>>

AtOp(c) == pc[c] = "ops" /\ Len(out[c]) < Len(Ops(c))
Wanted(c) == Ops(c)[Len(out[c]) + 1]
Local(c) == IF cache[c] = "kept" THEN GetChunk(Wanted(c)) ELSE Missing

Goes(c, where, attempts) ==
    /\ pc' = [pc EXCEPT ![c] = where]
    /\ tries' = [tries EXCEPT ![c] = attempts]
    /\ UNCHANGED <<seed, gateway, batch, digests, results, out, res>>

Writes(c, x) ==
    /\ out' = [out EXCEPT ![c] = Append(@, x)]
    /\ pc' = [pc EXCEPT ![c] = "ops"]
    /\ tries' = [tries EXCEPT ![c] = <<>>]
    /\ results' = [results EXCEPT ![c] = <<>>]
    /\ UNCHANGED <<seed, gateway, batch, digests, res>>

\* An op RAW whose payload is embedded.
EmbeddedOp(c) ==
    /\ AtOp(c) /\ Wanted(c) \in seed[c].raw
    /\ Writes(c, PayloadOf(Wanted(c)))
    /\ UNCHANGED <<nodeSide, genomeVars, cache>>

\* A row of the cache is hashed; a rotten one hides what the node has.
CachedOp(c) ==
    /\ AtOp(c) /\ Local(c) # Missing
    /\ IF Sha[Local(c)] = Wanted(c) THEN Writes(c, Local(c)) ELSE Ends(c, "failed")
    /\ UNCHANGED <<nodeSide, genomeVars, cache>>

AskRemote(c) ==
    /\ AtOp(c) /\ Local(c) = Missing
    /\ Goes(c, "ask", <<0>>)
    /\ UNCHANGED <<nodeSide, genomeVars, cache>>

DecodeDone(c) ==
    /\ pc[c] = "ops" /\ Len(out[c]) = Len(Ops(c))
    /\ Ends(c, IF seed[c].sha \in {Null, [i \in DOMAIN out[c] |-> Sha[out[c][i]]]}
               THEN "ok" ELSE "failed")
    /\ UNCHANGED <<nodeSide, genomeVars, cache>>

-----------------------------------------------------------------------------
(* HybridGenomeStorage.get_chunk after a miss.                              *)

ApiTurn(c) == pc[c] = "ask" /\ tries[c][1] < Retries
GatewayTurn(c) == pc[c] = "ask" /\ tries[c][1] = Retries /\ gateway[c]

\* The remote returned x: it is cached, or written at once.
Found(c, x) ==
    IF cache[c] = "kept"
    THEN /\ pc' = [pc EXCEPT ![c] = "cache"]
         /\ results' = [results EXCEPT ![c] = <<x>>]
         /\ UNCHANGED <<seed, gateway, batch, digests, tries, out, res>>
    ELSE Writes(c, x)

\* The remote returned None: the payload embedded for a REF, or failure.
NotFound(c) ==
    IF Wanted(c) \in seed[c].raw THEN Writes(c, PayloadOf(Wanted(c))) ELSE Ends(c, "failed")

\* Faulty variant: the payload is hashed only by the decode.
RemoteAnswersUnhashed(c) ==
    /\ ApiTurn(c)
    /\ BlockGet(Wanted(c))
    /\ \E x \in Content : Found(c, x)
    /\ UNCHANGED <<poolVars, begun, kills, asked, genomeVars, cache>>

\* The payload is hashed by IPFSChunkStorage before anything else sees it.
RemoteAnswers(c) ==
    /\ ApiTurn(c)
    /\ BlockGet(Wanted(c))
    /\ \E x \in Content :
        IF Sha[x] = Wanted(c) THEN Found(c, x) ELSE Ends(c, "failed")
    /\ UNCHANGED <<poolVars, begun, kills, asked, genomeVars, cache>>

RemoteFails(c) ==
    /\ ApiTurn(c)
    /\ IF tries[c][1] + 1 = Retries /\ ~gateway[c] THEN NotFound(c)
       ELSE Goes(c, "ask", <<tries[c][1] + 1>>)
    /\ UNCHANGED <<nodeSide, genomeVars, cache>>

\* No answer in time is no ExternalToolError: it ends the command.
RemoteSilent(c) ==
    /\ ApiTurn(c)
    /\ Ends(c, "crashed")
    /\ UNCHANGED <<nodeSide, genomeVars, cache>>

GatewayServes(c) ==
    /\ GatewayTurn(c) /\ Reachable(Wanted(c))
    /\ \E x \in Content :
        IF Sha[x] = Wanted(c) THEN Found(c, x) ELSE Ends(c, "failed")
    /\ UNCHANGED <<nodeSide, genomeVars, cache>>

GatewayGivesUp(c) ==
    /\ GatewayTurn(c)
    /\ NotFound(c)
    /\ UNCHANGED <<nodeSide, genomeVars, cache>>

\* A commit in the shared cache; whoever was first put the row.
CacheRow(c) ==
    /\ pc[c] = "cache"
    /\ PutChunk(c, Wanted(c), results[c][1])
    /\ Writes(c, results[c][1])
    /\ UNCHANGED <<nodeSide, cursors, cache>>

\* Faulty variant: a cache that is locked is passed over.
CacheLockedSoftly(c) ==
    /\ pc[c] = "cache" /\ ~CanCommit(c)
    /\ Writes(c, results[c][1])
    /\ UNCHANGED <<nodeSide, genomeVars, cache>>

\* "database is locked" is no SeedbraidError either.
CacheLocked(c) ==
    /\ pc[c] = "cache" /\ ~CanCommit(c)
    /\ Ends(c, "crashed")
    /\ UNCHANGED <<nodeSide, genomeVars, cache>>

DecodeStep(c) ==
    \/ EmbeddedOp(c) \/ CachedOp(c) \/ AskRemote(c) \/ DecodeDone(c)
    \/ RemoteAnswers(c) \/ RemoteFails(c) \/ RemoteSilent(c)
    \/ GatewayServes(c) \/ GatewayGivesUp(c) \/ CacheRow(c) \/ CacheLocked(c)

-----------------------------------------------------------------------------
(* fetch-decode, and the environment.                                       *)

\* It does not touch the cache; it comes before the decodes (a bound).
FetchDecode(c) ==
    \/ FetchStart(c) /\ cache[c] = "none" /\ cache' = [cache EXCEPT ![c] = "none"] /\ UNCHANGED genomeVars
    \/ (FetchStep(c) \/ Kill(c)) /\ UNCHANGED <<cache, genomeVars>>

\* Another process decodes into the cache, or takes a snapshot of it, or a row
\* of it rots, once there is one (a bound).
CacheLives ==
    /\ \E c \in Client : cache[c] = "kept"
    /\ \/ /\ kills < MaxKills /\ kills' = kills + 1
          /\ \/ \E d \in Digest : RotRow(d)
             \/ \E x \in Content : PutChunk(Other, Sha[x], x) /\ UNCHANGED cursors
             \/ cursors' = {Other} /\ UNCHANGED genome
       \/ cursors # {} /\ cursors' = {} /\ UNCHANGED <<genome, kills>>
    /\ UNCHANGED <<nodeVars, poolVars, fetchOwnVars, begun, asked, cache>>

HybridInit ==
    /\ FetchInit /\ GenomeInit
    /\ cache = [c \in Client |-> "none"]

HybridNext ==
    \/ \E c \in Client : DecodeStart(c) \/ DecodeStep(c) \/ FetchDecode(c)
    \/ NodeLives /\ UNCHANGED <<genomeVars, cache>>
    \/ CacheLives

HybridSpec == HybridInit /\ [][HybridNext]_hybridVars

HybridFairSpec ==
    /\ HybridSpec
    /\ \A c \in Client :
        /\ WF_hybridVars(FetchStep(c) /\ UNCHANGED <<genomeVars, cache>>)
        /\ WF_hybridVars(DecodeStep(c))

-----------------------------------------------------------------------------
(* Properties.                                                              *)

\* What a decode adds to the cache is the payload of its digest, and it takes
\* no row's place: HybridGenomeStorage puts what the remote returned without
\* hashing it, and later decodes never ask the remote for a row that is there.
CacheGenuine ==
    [][ \A d \in Digest : genome'[d] # genome[d] =>
            (genome[d] = Missing /\ Sha[genome'[d]] = d) \/ kills' # kills ]_hybridVars

\* After a decode that succeeded with a cache of its own the node is no longer
\* needed: every chunk the seed does not embed has a row.
OfflineAfter ==
    \A c \in Client : pc[c] = "idle" /\ res[c] = "ok" /\ cache[c] = "kept" =>
        \A i \in DOMAIN Ops(c) : Ops(c)[i] \in seed[c].raw \/ HasChunk(Ops(c)[i])
=============================================================================
