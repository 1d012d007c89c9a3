-------------------------- MODULE MCProposalReview --------------------------
(* A small instance of ProposalReview for TLC. *)
EXTENDS ProposalReview, TLC

MCProposals == 1..2
=============================================================================
