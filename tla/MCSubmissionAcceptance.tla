------------------------- MODULE MCSubmissionAcceptance -------------------------
(* Instances of SubmissionAcceptance for TLC.                               *)
EXTENDS SubmissionAcceptance, TLC

\* Requests are interchangeable, and so are tokens and the scenarios with room.
Symmetry ==
  Permutations(Requests) \union Permutations(Scenarios \ NoRoom) \union Permutations(Tokens)
==============================================================================
