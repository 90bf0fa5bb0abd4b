------------------------------ MODULE IpfsNode ------------------------------
(***************************************************************************)
(* The IPFS node behind the kubo HTTP RPC API, external to the repository: *)
(* as much of it as the requests of src/seedbraid/ipfs_chunks.py rely on.  *)
(* Blocks are raw, so a block is named by the digest of its payload, and a *)
(* directory by the set of its entries.                                    *)
(***************************************************************************)
EXTENDS Payloads, FiniteSets

CONSTANTS
    Dirs,       \* names of directories in MFS
    NoDir,      \* a name there is no directory at
    Popular     \* bound: the chunks peers may provide

ASSUME NodeAssumption == \A names \in SUBSET Digest : NoDir # names

VARIABLES
    blocks,     \* digests of the blocks the node stores
    network,    \* digests of the blocks some peer provides
    mfs,        \* MFS: name -> the entries of its directory, or NoDir
    roots,      \* directories in the object store
    pins        \* directories pinned recursively

nodeVars == <<blocks, network, mfs, roots, pins>>

NodeTypeOK ==
    /\ blocks \in SUBSET Digest /\ network \in SUBSET Digest
    /\ mfs \in [Dirs -> (SUBSET Digest) \union {NoDir}]
    /\ roots \in SUBSET SUBSET Digest /\ pins \in SUBSET SUBSET Digest

NodeInit ==
    /\ blocks = {} /\ network \in SUBSET Popular
    /\ mfs = [n \in Dirs |-> NoDir]
    /\ roots = {} /\ pins = {}

\* What the node can serve: its own blocks, and those it finds a peer for.
Reachable(d) == d \in blocks \union network

\* Directories the garbage collector starts from.
Held == pins \union {mfs[n] : n \in {m \in Dirs : mfs[m] # NoDir}}

\* /block/put: the node names the block itself.
BlockPut(chunk) ==
    /\ blocks' = blocks \union {Sha[chunk]}
    /\ UNCHANGED <<network, mfs, roots, pins>>

\* /block/get: a block found at a peer is kept.
BlockGet(d) ==
    /\ Reachable(d)
    /\ blocks' = blocks \union {d}
    /\ UNCHANGED <<network, mfs, roots, pins>>

\* /files/mkdir: refuses a name that exists.
FilesMkdir(n) ==
    /\ mfs[n] = NoDir
    /\ mfs' = [mfs EXCEPT ![n] = {}]
    /\ UNCHANGED <<blocks, network, roots, pins>>

\* /files/cp /ipfs/<cid> <dir>/<cid>: the block is fetched to be linked.
FilesCp(n, d) ==
    /\ mfs[n] # NoDir
    /\ Reachable(d)
    /\ blocks' = blocks \union {d}
    /\ mfs' = [mfs EXCEPT ![n] = @ \union {d}]
    /\ UNCHANGED <<network, roots, pins>>

\* /files/stat --hash: the directory is a node of the object store.
FilesStat(n) ==
    /\ mfs[n] # NoDir
    /\ roots' = roots \union {mfs[n]}
    /\ UNCHANGED <<blocks, network, mfs, pins>>

\* /files/rm --recursive.
FilesRm(n) ==
    /\ mfs[n] # NoDir
    /\ mfs' = [mfs EXCEPT ![n] = NoDir]
    /\ UNCHANGED <<blocks, network, roots, pins>>

\* /pin/add: recursive, so every block is fetched first.
PinAdd(root) ==
    /\ root \in roots
    /\ \A d \in root : Reachable(d)
    /\ blocks' = blocks \union root
    /\ pins' = pins \union {root}
    /\ UNCHANGED <<network, mfs, roots>>

\* The garbage collector runs: what no pin and no MFS directory holds goes.
CollectGarbage ==
    /\ blocks' = blocks \intersect UNION Held
    /\ roots' = roots \intersect Held
    /\ UNCHANGED <<network, mfs, pins>>

\* A peer stops, or starts, providing a block.
PeerLeaves(d) ==
    /\ network' = network \ {d}
    /\ UNCHANGED <<blocks, mfs, roots, pins>>

PeerProvides(d) ==
    /\ d \in blocks \intersect Popular
    /\ network' = network \union {d}
    /\ UNCHANGED <<blocks, mfs, roots, pins>>
=============================================================================
