---------------------------- MODULE MCTutorAdmin ----------------------------
(* An instance of TutorAdmin for TLC.  The identifiers of a kind, and the  *)
(* requests, are interchangeable.                                          *)
EXTENDS TutorAdmin, TLC

CONSTANTS r1, r2, u1, u2, s1, s2, s3, k1

Symmetric ==
  Permutations(Requests) \cup Permutations(Tutors) \cup Permutations(Sources)
=============================================================================
