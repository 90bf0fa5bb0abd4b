---------------------------- MODULE SeedTransport ----------------------------
(***************************************************************************)
(* Seeds on IPFS: the commands publish, fetch, pin-health and pin          *)
(* remote-add (src/seedbraid/ipfs.py, pinning.py and their part of cli.py) *)
(* against a kubo node, an HTTP gateway and a pinning service.             *)
(*                                                                         *)
(* A payload is here the bytes of a file; Sha gives the CID of a file.     *)
(* Every request to the node is answered, refused (URLError, which becomes *)
(* ExternalToolError) or silent (a bare TimeoutError, which nothing        *)
(* catches: the command crashes, whatever the node did).                   *)
(***************************************************************************)
EXTENDS Payloads

CONSTANTS
    Client,     \* processes
    Path,       \* paths of seed files
    NoFile,     \* content of a path no file is at; also no bytes at all
    NoCid,
    Torn,       \* a file that was truncated and not written yet
    Seeds,      \* well-formed files: read_seed, or the envelope check, accepts
    Sealed,     \* files that begin with the SBE1 magic
    Large,      \* files of more than MAX_SEED_FETCH_BYTES
    Popular,    \* bound: the CIDs peers may provide
    Retries, PinRetries,                \* --retries, --remote-retries
    MaxCommands, MaxKills, MaxUnpins    \* bounds on what happens

ASSUME TransportAssumption ==
    /\ Seeds \union Sealed \union Large \subseteq Content
    /\ Torn \in Content \ (Seeds \union Sealed \union Large)
    /\ NoFile \notin Content /\ NoCid \notin Digest
    /\ Retries \in Nat \ {0} /\ PinRetries \in Nat \ {0}
    /\ {MaxCommands, MaxKills, MaxUnpins} \subseteq Nat

VARIABLES
    blocks, pins,   \* CIDs the node stores, and holds against collection
    network,        \* CIDs some peer provides
    requested,      \* CIDs the pinning service accepted
    files,          \* path -> what is in it
    pc,             \* client -> the request or the write it is at
    job,            \* client -> its command
    cid,            \* client -> the CID its command is about
    tries,          \* client -> attempts that failed
    via,            \* client -> where fetch asks, "api" or "gateway"
    blob,           \* client -> the bytes fetch received
    pinned,         \* client -> what /pin/ls told pin-health
    res,            \* client -> how its last command ended
    begun, kills, unpins,   \* counters of the bounds
    disturbed       \* history: clients whose file or pin another one touched

nodeVars == <<blocks, pins, network>>
ownVars == <<pc, job, cid, tries, via, blob, pinned, res>>
bounds == <<begun, kills, unpins>>
transportVars == <<nodeVars, requested, files, ownVars, bounds, disturbed>>

Job == [kind : {"publish", "fetch", "health", "remote"}, path : Path,
        pin : BOOLEAN, remote : BOOLEAN, gateway : BOOLEAN]

BlankJob == [kind |-> "health", path |-> CHOOSE p \in Path : TRUE,
             pin |-> FALSE, remote |-> FALSE, gateway |-> FALSE]

Reachable(d) == d \in blocks \union network
Stores(d) == blocks' = blocks \union {d}

Goes(c, where) == pc' = [pc EXCEPT ![c] = where] /\ UNCHANGED res
Ends(c, r) == pc' = [pc EXCEPT ![c] = "idle"] /\ res' = [res EXCEPT ![c] = r]

Begin(c, kind, d, first) ==
    \E p \in Path, pin, remote, gw \in BOOLEAN :
        /\ pc[c] = "idle" /\ begun < MaxCommands
        /\ begun' = begun + 1
        /\ pin \/ remote => kind = "publish"
        /\ gw => kind = "fetch"
        /\ kind \notin {"publish", "fetch"} => p = BlankJob.path
        /\ job' = [job EXCEPT ![c] = [kind |-> kind, path |-> p, pin |-> pin,
                                      remote |-> remote, gateway |-> gw]]
        /\ cid' = [cid EXCEPT ![c] = d]
        /\ tries' = [tries EXCEPT ![c] = 0]
        /\ via' = [via EXCEPT ![c] = "api"]
        /\ blob' = [blob EXCEPT ![c] = NoFile]
        /\ pinned' = [pinned EXCEPT ![c] = FALSE]
        /\ disturbed' = disturbed \ {c}
        /\ IF kind = "publish" /\ files[p] = NoFile
           THEN Ends(c, "failed")
           ELSE pc' = [pc EXCEPT ![c] = first] /\ res' = [res EXCEPT ![c] = "none"]
        /\ UNCHANGED <<nodeVars, requested, files, kills, unpins>>

CommandStart(c) ==
    \/ Begin(c, "publish", NoCid, "add")
    \/ \E d \in {Sha[x] : x \in Content} :
           \/ Begin(c, "fetch", d, "cat")
           \/ Begin(c, "health", d, "ls")
           \/ Begin(c, "remote", d, "psa")

-----------------------------------------------------------------------------
(* publish: /add, then /pin/add and the pinning service if asked for.       *)

OtherOwn == UNCHANGED <<job, tries, via, blob, pinned, bounds, disturbed>>

AfterPin(c) == IF job[c].remote THEN Goes(c, "psa") ELSE Ends(c, "ok")

\* Whether /add also pins is the node's affair: the code does not rely on it.
NodeAdds(d) == Stores(d) /\ pins' \in {pins, pins \union {d}}

AddAnswered(c) ==
    LET d == Sha[files[job[c].path]]
    IN  /\ pc[c] = "add"
        /\ NodeAdds(d)
        /\ cid' = [cid EXCEPT ![c] = d]
        /\ IF job[c].pin THEN Goes(c, "pin") ELSE AfterPin(c)
        /\ UNCHANGED <<network, requested, files>> /\ OtherOwn

AddFails(c) ==
    /\ pc[c] = "add"
    /\ \/ Ends(c, "failed") /\ UNCHANGED <<blocks, pins>>
       \/ Ends(c, "crashed") /\ UNCHANGED <<blocks, pins>>
       \/ Ends(c, "crashed") /\ NodeAdds(Sha[files[job[c].path]])
    /\ UNCHANGED <<network, requested, files, cid>> /\ OtherOwn

NodePins(d) == Reachable(d) /\ Stores(d) /\ pins' = pins \union {d}

PinAnswered(c) ==
    /\ pc[c] = "pin"
    /\ NodePins(cid[c])
    /\ AfterPin(c)
    /\ UNCHANGED <<network, requested, files, cid>> /\ OtherOwn

\* Faulty variant: a pin that is refused is only a warning.
PinFailsSoftly(c) ==
    /\ pc[c] = "pin"
    /\ AfterPin(c)
    /\ UNCHANGED <<nodeVars, requested, files, cid>> /\ OtherOwn

PinFails(c) ==
    /\ pc[c] = "pin"
    /\ \/ Ends(c, "failed") /\ UNCHANGED <<blocks, pins>>
       \/ Ends(c, "crashed") /\ UNCHANGED <<blocks, pins>>
       \/ Ends(c, "crashed") /\ NodePins(cid[c])
    /\ UNCHANGED <<network, requested, files, cid>> /\ OtherOwn

-----------------------------------------------------------------------------
(* remote_add: the pinning service.  An answer that is lost, or cannot be   *)
(* understood, leaves open whether the request was accepted.                *)

PsaOwn == UNCHANGED <<nodeVars, files, job, cid, via, blob, pinned, bounds, disturbed>>

MayBeAccepted(c) == requested' \in {requested, requested \union {cid[c]}}

\* 2xx, with no body or one that names this CID or none.
PsaAccepted(c) ==
    /\ pc[c] = "psa"
    /\ requested' = requested \union {cid[c]}
    /\ Ends(c, "ok")
    /\ UNCHANGED tries /\ PsaOwn

\* Faulty variant: the CID in the answer is not compared.
PsaOtherCidAccepted(c) ==
    /\ pc[c] = "psa"
    /\ \E d \in {Sha[x] : x \in Content} \ {cid[c]} : requested' = requested \union {d}
    /\ Ends(c, "ok")
    /\ UNCHANGED tries /\ PsaOwn

\* _parse_success: the pin that was accepted is for another CID.
PsaOtherCid(c) ==
    /\ pc[c] = "psa"
    /\ \E d \in {Sha[x] : x \in Content} \ {cid[c]} : requested' = requested \union {d}
    /\ Ends(c, "failed")
    /\ UNCHANGED tries /\ PsaOwn

\* Configuration missing, 401, 403, 4xx, JSON that is malformed or no object
\* (failed); a broken or undecodable answer (crashed).
PsaRefused(c) ==
    /\ pc[c] = "psa"
    /\ MayBeAccepted(c)
    /\ Ends(c, "failed") \/ Ends(c, "crashed")
    /\ UNCHANGED tries /\ PsaOwn

\* 5xx, 429, URLError, OSError (timeouts are among them).
PsaTransient(c) ==
    /\ pc[c] = "psa"
    /\ MayBeAccepted(c)
    /\ tries' = [tries EXCEPT ![c] = @ + 1]
    /\ IF tries[c] + 1 < PinRetries THEN Goes(c, "psa") ELSE Ends(c, "failed")
    /\ PsaOwn

-----------------------------------------------------------------------------
(* fetch_seed: /cat up to Retries times, then the gateway.  What arrives is *)
(* written to the output path first and validated there.                    *)

FetchOwn == UNCHANGED <<pins, network, requested, job, cid, pinned, bounds>>

\* The end of an attempt that did not give a seed.
NextAttempt(c) ==
    IF via[c] = "gateway" THEN Ends(c, "failed") /\ UNCHANGED <<tries, via>>
    ELSE /\ tries' = [tries EXCEPT ![c] = @ + 1]
         /\ IF tries[c] + 1 < Retries
            THEN Goes(c, "cat") /\ UNCHANGED via
            ELSE IF job[c].gateway
                 THEN Goes(c, "gateway") /\ via' = [via EXCEPT ![c] = "gateway"]
                 ELSE Ends(c, "failed") /\ UNCHANGED via

\* Faulty variant: an oversize answer ends the fetch at once.
ReceivesOrFails(c, x) ==
    IF x \in Large THEN Ends(c, "failed") /\ UNCHANGED <<tries, via, blob>>
    ELSE /\ blob' = [blob EXCEPT ![c] = x]
         /\ Goes(c, "open")
         /\ UNCHANGED <<tries, via>>

Receives(c, x) ==
    IF x \in Large THEN NextAttempt(c) /\ UNCHANGED blob
    ELSE /\ blob' = [blob EXCEPT ![c] = x]
         /\ Goes(c, "open")
         /\ UNCHANGED <<tries, via>>

\* Faulty variant: the output is opened before the size is looked at.
CatAnsweredIntoFile(c) ==
    \E x \in Content :
        /\ pc[c] = "cat" /\ Reachable(cid[c]) /\ Sha[x] = cid[c]
        /\ Stores(cid[c])
        /\ Receives(c, x)
        /\ files' = [files EXCEPT ![job[c].path] = Torn]
        /\ UNCHANGED disturbed /\ FetchOwn

CatAnswered(c) ==
    \E x \in Content :
        /\ pc[c] = "cat" /\ Reachable(cid[c]) /\ Sha[x] = cid[c]
        /\ Stores(cid[c])
        /\ Receives(c, x)
        /\ UNCHANGED <<files, disturbed>> /\ FetchOwn

\* The gateway is not trusted to serve the bytes of the CID.
GatewayAnswered(c) ==
    \E x \in Content :
        /\ pc[c] = "gateway"
        /\ Receives(c, x)
        /\ UNCHANGED <<blocks, files, disturbed>> /\ FetchOwn

\* Silence, and an answer that breaks off, crash at the API; at the gateway
\* a timeout is a failure and only a broken answer crashes.
RequestFails(c) ==
    /\ pc[c] \in {"cat", "gateway"}
    /\ NextAttempt(c) \/ (Ends(c, "crashed") /\ UNCHANGED <<tries, via>>)
    /\ UNCHANGED <<blocks, files, blob, disturbed>> /\ FetchOwn

Writes(c, x) ==
    /\ files' = [files EXCEPT ![job[c].path] = x]
    /\ disturbed' = disturbed \union
           {o \in Client \ {c} : job[o].kind = "fetch" /\ job[o].path = job[c].path}
    /\ UNCHANGED <<blocks, tries, via, blob>> /\ FetchOwn

OutOpen(c)  == pc[c] = "open" /\ Goes(c, "flush") /\ Writes(c, Torn)
OutFlush(c) == pc[c] = "flush" /\ Goes(c, "check") /\ Writes(c, blob[c])

\* Faulty variant: a plain file is not validated.
OutCheckSealedOnly(c) ==
    /\ pc[c] = "check"
    /\ IF blob[c] \notin Sealed \/ blob[c] \in Seeds
       THEN Ends(c, "ok") /\ UNCHANGED <<tries, via>>
       ELSE NextAttempt(c)
    /\ UNCHANGED <<blocks, files, blob, disturbed>> /\ FetchOwn

\* An envelope is validated in memory, a plain seed by reading the file back.
OutCheck(c) ==
    /\ pc[c] = "check"
    /\ IF \/ blob[c] \in Sealed \intersect Seeds
          \/ blob[c] \notin Sealed /\ files[job[c].path] \in Seeds \ Sealed
       THEN Ends(c, "ok") /\ UNCHANGED <<tries, via>>
       ELSE NextAttempt(c)
    /\ UNCHANGED <<blocks, files, blob, disturbed>> /\ FetchOwn

-----------------------------------------------------------------------------
(* pin_health_status: /pin/ls, then /block/stat.                            *)

HealthOwn == UNCHANGED <<pins, network, requested, files, job, cid, tries, via, blob,
                         bounds, disturbed>>

\* "not pinned" is a refusal the code takes for an answer.
LsAnswered(c) ==
    /\ pc[c] = "ls"
    /\ pinned' = [pinned EXCEPT ![c] = cid[c] \in pins]
    /\ Goes(c, "stat")
    /\ UNCHANGED blocks /\ HealthOwn

LsFails(c) ==
    /\ pc[c] = "ls"
    /\ Ends(c, "failed") \/ Ends(c, "crashed")
    /\ UNCHANGED <<blocks, pinned>> /\ HealthOwn

\* Faulty variant: the report looks at the block alone.
StatAnsweredAlone(c) ==
    /\ pc[c] = "stat" /\ Reachable(cid[c])
    /\ Stores(cid[c])
    /\ Ends(c, "ok")
    /\ UNCHANGED pinned /\ HealthOwn

\* The report is ok if the CID is pinned and its block was found.
StatAnswered(c) ==
    /\ pc[c] = "stat" /\ Reachable(cid[c])
    /\ Stores(cid[c])
    /\ Ends(c, IF pinned[c] THEN "ok" ELSE "failed")
    /\ UNCHANGED pinned /\ HealthOwn

StatFails(c) ==
    /\ pc[c] = "stat"
    /\ Ends(c, "failed") \/ Ends(c, "crashed")
    /\ UNCHANGED <<blocks, pinned>> /\ HealthOwn

-----------------------------------------------------------------------------
(* The surroundings.                                                        *)

Kill(c) ==
    /\ pc[c] # "idle" /\ kills < MaxKills
    /\ kills' = kills + 1
    /\ Ends(c, "killed")
    /\ UNCHANGED <<nodeVars, requested, files, job, cid, tries, via, blob, pinned,
                   begun, unpins, disturbed>>

NodeLives ==
    /\ \/ blocks' = blocks \intersect pins /\ UNCHANGED network
       \/ \E d \in network : network' = network \ {d} /\ UNCHANGED blocks
       \/ \E d \in blocks \intersect Popular : network' = network \union {d} /\ UNCHANGED blocks
    /\ UNCHANGED <<pins, requested, files, ownVars, bounds, disturbed>>

\* Somebody unpins a CID at the node.
Unpin(d) ==
    /\ d \in pins /\ unpins < MaxUnpins
    /\ unpins' = unpins + 1
    /\ pins' = pins \ {d}
    /\ disturbed' = disturbed \union {c \in Client : job[c].kind # "fetch" /\ cid[c] = d}
    /\ UNCHANGED <<blocks, network, requested, files, ownVars, begun, kills>>

TransportInit ==
    /\ blocks = {} /\ pins = {} /\ network \in SUBSET Popular
    /\ requested = {}
    /\ files \in [Path -> (Content \ {Torn}) \union {NoFile}]
    /\ pc = [c \in Client |-> "idle"]
    /\ job = [c \in Client |-> BlankJob]
    /\ cid = [c \in Client |-> NoCid]
    /\ tries = [c \in Client |-> 0]
    /\ via = [c \in Client |-> "api"]
    /\ blob = [c \in Client |-> NoFile]
    /\ pinned = [c \in Client |-> FALSE]
    /\ res = [c \in Client |-> "none"]
    /\ begun = 0 /\ kills = 0 /\ unpins = 0
    /\ disturbed = {}

Running(c) ==
    \/ AddAnswered(c) \/ AddFails(c) \/ PinAnswered(c) \/ PinFails(c)
    \/ PsaAccepted(c) \/ PsaOtherCid(c) \/ PsaRefused(c) \/ PsaTransient(c)
    \/ CatAnswered(c) \/ GatewayAnswered(c) \/ RequestFails(c)
    \/ OutOpen(c) \/ OutFlush(c) \/ OutCheck(c)
    \/ LsAnswered(c) \/ LsFails(c) \/ StatAnswered(c) \/ StatFails(c)

TransportNext ==
    \/ \E c \in Client : CommandStart(c) \/ Running(c) \/ Kill(c)
    \/ \E d \in Digest : Unpin(d)
    \/ NodeLives

TransportSpec == TransportInit /\ [][TransportNext]_transportVars

-----------------------------------------------------------------------------
(* Properties.                                                              *)

\* Types, and no command makes more attempts than it was told to.
TransportTypeOK ==
    /\ blocks \in SUBSET Digest /\ pins \in SUBSET Digest
    /\ network \in SUBSET Digest /\ requested \in SUBSET Digest
    /\ files \in [Path -> Content \union {NoFile}]
    /\ pc \in [Client -> {"idle", "add", "pin", "psa", "cat", "gateway",
                          "open", "flush", "check", "ls", "stat"}]
    /\ job \in [Client -> Job]
    /\ cid \in [Client -> Digest \union {NoCid}]
    /\ \A c \in Client :
           tries[c] \in 0..IF job[c].kind = "fetch" THEN Retries ELSE PinRetries
    /\ via \in [Client -> {"api", "gateway"}]
    /\ blob \in [Client -> (Content \ Large) \union {NoFile}]
    /\ pinned \in [Client -> BOOLEAN]
    /\ res \in [Client -> {"none", "ok", "failed", "crashed", "killed"}]
    /\ <<begun, kills, unpins>> \in Nat \X Nat \X Nat
    /\ disturbed \in SUBSET Client

Calm(c) == c \notin disturbed

\* What fetch leaves when it succeeds and nobody else writes to the path is a
\* well-formed seed within the size limit; asked of the API, the one of the CID.
FetchedIs ==
    \A c \in Client : job[c].kind = "fetch" /\ res[c] = "ok" /\ Calm(c) =>
        LET x == files[job[c].path]
        IN  x \in Seeds \ Large /\ (via[c] = "api" => Sha[x] = cid[c])

\* A file changes only under a fetch that holds bytes for it: refusals,
\* silence and oversize answers leave the file of an earlier fetch in place.
OverwrittenByBytes ==
    [][\A p \in Path : files'[p] # files[p] =>
           \E c \in Client : job[c].path = p /\ blob[c] # NoFile
                             /\ files'[p] \in {Torn, blob[c]}]_transportVars

\* Every failed fetch has used all its attempts, and the gateway if it has
\* one; only a crash or a kill ends it sooner.
FetchExhausted ==
    \A c \in Client : job[c].kind = "fetch" /\ res[c] = "failed" =>
        tries[c] = Retries /\ (job[c].gateway => via[c] = "gateway")

\* A reported pin is one.  publish --pin holds the seed at the node before it
\* asks a remote service, and from then on: the garbage collector does not take
\* it.  A remote pin, whatever was retried, lost or garbled on the way, is
\* reported only if the service accepted a request for this very CID.
PinsHeld ==
    \A c \in Client :
        /\ /\ job[c].kind = "publish" /\ job[c].pin /\ Calm(c)
           /\ pc[c] = "psa" \/ res[c] = "ok"
           => cid[c] \in pins \intersect blocks
        /\ /\ job[c].kind = "remote" \/ job[c].remote
           /\ res[c] = "ok"
           => cid[c] \in requested

\* pin-health asks twice, with garbage collection and others in between: its
\* ok still means that the node holds the CID and will keep it.
HealthHonest ==
    \A c \in Client : job[c].kind = "health" /\ res[c] = "ok" /\ Calm(c) =>
        cid[c] \in pins \intersect blocks
=============================================================================
