-------------------------- MODULE MCFounderCommand --------------------------
(* Instances of FounderCommand for TLC. *)
EXTENDS FounderCommand, TLC

CONSTANTS p1, p2

PollSymmetry == Permutations(Polls)
=============================================================================
