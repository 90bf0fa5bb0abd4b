------------------------------ MODULE Delivery ------------------------------
(***************************************************************************)
(* What any decoding of a seed promises about its output file: it grows by *)
(* the next chunk of the recipe, genuine, and by nothing else; success     *)
(* means that it is whole.  On failure what was written stays.             *)
(***************************************************************************)
EXTENDS Payloads, Sequences

CONSTANT Decoder    \* commands, each with an output file of its own

VARIABLES
    wanted,     \* decoder -> the digests of the recipe, in order
    written,    \* decoder -> the payloads in its output file
    busy,       \* decoder -> whether it is running
    outcome     \* decoder -> how its last command ended

deliveryVars == <<wanted, written, busy, outcome>>

DeliveryInit ==
    /\ wanted = [c \in Decoder |-> <<>>] /\ written = [c \in Decoder |-> <<>>]
    /\ busy = [c \in Decoder |-> FALSE] /\ outcome = [c \in Decoder |-> "none"]

Open(c) ==
    /\ ~busy[c]
    /\ busy' = [busy EXCEPT ![c] = TRUE]
    /\ wanted'[c] \in Seq(Digest)
    /\ wanted' = [wanted EXCEPT ![c] = wanted'[c]]
    /\ written' = [written EXCEPT ![c] = <<>>]
    /\ outcome' = [outcome EXCEPT ![c] = "none"]

Deliver(c) ==
    /\ busy[c]
    /\ Len(written[c]) < Len(wanted[c])
    /\ \E x \in Content :
        /\ Sha[x] = wanted[c][Len(written[c]) + 1]
        /\ written' = [written EXCEPT ![c] = Append(@, x)]
    /\ UNCHANGED <<wanted, busy, outcome>>

Succeed(c) ==
    /\ busy[c]
    /\ Len(written[c]) = Len(wanted[c])
    /\ busy' = [busy EXCEPT ![c] = FALSE]
    /\ outcome' = [outcome EXCEPT ![c] = "ok"]
    /\ UNCHANGED <<wanted, written>>

GiveUp(c) ==
    /\ busy[c]
    /\ busy' = [busy EXCEPT ![c] = FALSE]
    /\ \E r \in {"failed", "crashed", "killed"} : outcome' = [outcome EXCEPT ![c] = r]
    /\ UNCHANGED <<wanted, written>>

DeliveryNext == \E c \in Decoder : Open(c) \/ Deliver(c) \/ Succeed(c) \/ GiveUp(c)

DeliverySpec == DeliveryInit /\ [][DeliveryNext]_deliveryVars
=============================================================================
