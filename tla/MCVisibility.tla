---------------------------- MODULE MCVisibility ----------------------------
(***************************************************************************)
(* One person with two projects, one who may join them, one who does not,   *)
(* visitors without an account, one technology.                             *)
(***************************************************************************)
EXTENDS Visibility, TLC
CONSTANTS Ann, Ben, Cyd, p1, p2, x

MCOthers == {Ben, Cyd}
MCJoiners == {Ben}
MCProjects == {p1, p2}
MCTechs == {x}
MCLevels == {"viewer", "editor"}
MCSymmetry == Permutations(MCProjects)
=============================================================================
