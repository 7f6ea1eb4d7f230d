---------------------------- MODULE MCStateKernel ----------------------------
(* Instances of StateKernel for TLC.                                       *)
EXTENDS StateKernel, TLC

\* The payload of the lineage that is older than incarnations.
Old == CHOOSE p \in Payloads : TRUE
NoLegacy == {}
OldLegacy == {Old}

\* A second record whose genesis nobody need have published.
NoStrays == {}
OrphanStray == {[i \in 1..2 |-> Old]}

\* Any genesis, and any chain on one of them; geneses in batches of two only;
\* and any chain at all.
OneLineage == {r \in Records : Len(r) = 1 \/ r[1] = Old}
GenesisPairs == {[i \in 1..2 |-> p] : p \in Payloads}
AnyAppends == Records

\* Clients are interchangeable in the runs that use this set: their properties
\* and their fairness, of which there is none, name no client.
ClientPermutations == Permutations(Clients)
=============================================================================
