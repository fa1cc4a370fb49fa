------------------------- MODULE MCCandidateReview -------------------------
(* Two handlers at once on the candidates of one scope, and one run whose   *)
(* observation may be delivered any number of times.                        *)
EXTENDS CandidateReview, TLC

Symmetry == Permutations(Handlers) \cup Permutations(Runs)
=============================================================================
