-------------------------- MODULE MCCollaboration ---------------------------
(***************************************************************************)
(* Two worker threads, which are interchangeable, and one project with two *)
(* asks.  Small: one developer, who sees the project and can be invited    *)
(* (no symmetry, because liveness is checked).                             *)
(* Large: two developers, one who can ask and one who can be invited.      *)
(***************************************************************************)
EXTENDS Collaboration, TLC
CONSTANTS t1, t2, dev1, dev2, ask1, ask2

MCThreads == {t1, t2}
MCOneDev == {dev1}
MCTwoDevs == {dev1, dev2}
MCInvitee == {dev2}
MCTwoAsks == {ask1, ask2}
MCSymmetry == Permutations(MCThreads)
=============================================================================
