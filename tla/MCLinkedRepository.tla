------------------------- MODULE MCLinkedRepository -------------------------
(***************************************************************************)
(* LinkedRepository, small: two runners, two sync jobs, one ordinary file; *)
(* the import and two refreshes, an owner and a member, two commits, the   *)
(* first by an account with the email of the second.                       *)
(***************************************************************************)
EXTENDS LinkedRepository, TLC
CONSTANTS r1, r2, j1, j2, x, e

MCRunners == {r1, r2}
MCJobs == {j1, j2}
MCAuthorOf == <<x, Nobody>>
MCMailOf == <<e, e>>
MCSymmetry == Permutations(MCRunners) \cup Permutations(MCJobs)
=============================================================================
