-------------------------- MODULE MCWorkspaceSync --------------------------
(***************************************************************************)
(* One runner, two interchangeable jobs, a repository of one ordinary file *)
(* and one manifest.                                                       *)
(***************************************************************************)
EXTENDS WorkspaceSync, TLC
CONSTANTS r1, j1, j2, file, manifest

MCOneRunner == {r1}
MCTwoJobs == {j1, j2}
MCFiles == {file, manifest}
MCManifests == {manifest}
MCJobSymmetry == Permutations(MCTwoJobs)
=============================================================================
