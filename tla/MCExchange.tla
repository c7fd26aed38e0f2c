----------------------------- MODULE MCExchange -----------------------------
(***************************************************************************)
(* Exchange, small: two threads; one developer and two revisions of a      *)
(* submission; a group of three people at most; two members and two        *)
(* messages of its chat; two sockets and three events; two direct          *)
(* messages; three contact requests; three shortlists, one of them too     *)
(* many.                                                                   *)
(***************************************************************************)
EXTENDS Exchange, TLC
CONSTANTS t1, t2

MCThreads == {t1, t2}
MCSymmetry == Permutations(MCThreads)
=============================================================================
