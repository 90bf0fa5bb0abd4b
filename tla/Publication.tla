---------------------------- MODULE Publication -----------------------------
(***************************************************************************)
(* What publish-chunks promises to whoever picks up the sidecar it writes, *)
(* and nothing of how: a sidecar lists only chunks the node has taken; a   *)
(* DAG root in it holds exactly those chunks; and what has been pinned     *)
(* stays pinned.                                                           *)
(***************************************************************************)
CONSTANTS
    Chunks,         \* digests of chunks
    Places,         \* paths of sidecar files
    Names,          \* what seed_sha256 tells apart
    NoRoot,         \* dag_root_cid null
    NoSidecar,      \* a path where there is no sidecar
    Broken          \* what a sidecar file may hold that is no manifest

VARIABLES
    acked,      \* chunks the node has acknowledged
    kept,       \* directories pinned
    sidecar     \* path -> the manifest there, NoSidecar or something broken

publicationVars == <<acked, kept, sidecar>>

PublicationInit ==
    /\ acked = {} /\ kept = {}
    /\ sidecar = [s \in Places |-> NoSidecar]

Acknowledge ==
    /\ \E d \in Chunks : acked' = acked \union {d}
    /\ UNCHANGED <<kept, sidecar>>

Keep ==
    /\ \E root \in SUBSET acked : kept' = kept \union {root}
    /\ UNCHANGED <<acked, sidecar>>

\* The file is rewritten in place, so a broken one may be seen, or remain.
Tear(s) ==
    /\ \E torn \in Broken : sidecar' = [sidecar EXCEPT ![s] = torn]
    /\ UNCHANGED <<acked, kept>>

\* Whole manifests appear only where a file has been opened before.
Announce(s) ==
    /\ sidecar[s] # NoSidecar
    /\ \E name \in Names, chunks \in SUBSET acked : \E root \in {NoRoot, chunks} :
        sidecar' = [sidecar EXCEPT ![s] = [seed |-> name, chunks |-> chunks, root |-> root]]
    /\ UNCHANGED <<acked, kept>>

PublicationNext ==
    \/ Acknowledge \/ Keep
    \/ \E s \in Places : Tear(s) \/ Announce(s)

PublicationSpec == PublicationInit /\ [][PublicationNext]_publicationVars
=============================================================================
