--------------------------- MODULE SeedTransportMC ---------------------------
(* A small instance of SeedTransport: a plain seed, a sealed one, and one   *)
(* over the size limit; what a killed fetch leaves is in nobody's format.   *)
EXTENDS SeedTransport, TLC

CONSTANTS plain, sealed, big, torn, p, q

MCContent == {plain, sealed, big, torn}
MCSha == plain :> 1 @@ sealed :> 2 @@ big :> 3 @@ torn :> 4
MCSymmetry == Permutations({p, q})
=============================================================================
