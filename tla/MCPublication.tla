---------------------------- MODULE MCPublication ----------------------------
(* Instances of Publication for TLC. *)
EXTENDS Publication, TLC

\* Sources, promotions and operators are interchangeable in Publication.
MCSymmetry == Permutations(Sources) \cup Permutations(Promoters) \cup Permutations(Operators)
==============================================================================
