----------------------------- MODULE SeedCodecMC -----------------------------
(* A small instance of SeedCodec: two payloads, three contents.             *)
EXTENDS SeedCodec, TLC

CONSTANTS a, b

MCProcs == Permutations(Proc)
MCContent == {a, b}
MCDigest == 1..2
MCSha == a :> 1 @@ b :> 2
\* Two chunks that differ, one that repeats, and one alone: read across an edit,
\* they give what no source ever held.
MCSources == {<<a, b>>, <<b, b>>, <<b>>}
\* At most one misfortune befalls a behaviour: a kill or a failed write, or in
\* place of the third command an edit or a damage.  A reader holds its lock only
\* before a misfortune, and over one or two commands.
MCMisfortune ==
    LET locks == Cardinality(cursors)
    IN  /\ started + edits + damages + locks <= 3
        /\ edits + damages + crashes + locks <= 1
=============================================================================
