------------------------- MODULE MCOfflineSubmission -------------------------
(* Instances of OfflineSubmission for TLC. *)
EXTENDS OfflineSubmission, TLC

\* Ids, keys and payloads are only compared for equality.
MCSymmetry == Permutations(Ops) \cup Permutations(Keys) \cup Permutations(Payloads)
==============================================================================
