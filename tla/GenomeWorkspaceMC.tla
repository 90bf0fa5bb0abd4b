-------------------------- MODULE GenomeWorkspaceMC --------------------------
(* A small instance of GenomeWorkspace: a command beside two backups and a  *)
(* reader, over a genome of at most two rows, one of them over the limit.   *)
EXTENDS GenomeWorkspace, TLC

CONSTANTS a, b, huge, first

MCContent == {a, b, huge}
MCDigest == 1..3
MCSha == a :> 1 @@ b :> 2 @@ huge :> 3
MCSources == {<<a, b>>, <<huge>>}
MCOversize == {huge}
\* Which of two backups comes first tells nothing apart, and what a private
\* manifest leaves out is SeedCodec's business.  No reader holds on to its
\* SELECT once a mishap has befallen a behaviour.
MCInputs ==
    /\ begun = 1 => \A p \in Agent : bpc[p] # "idle" \/ bres[p] # "none" => p = first
    /\ \A p \in Proc : ~job[p].private
    /\ mishaps + Cardinality(cursors \intersect Readers) <= 1
=============================================================================
