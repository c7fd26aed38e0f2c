--------------------------- MODULE MCConnections ---------------------------
(***************************************************************************)
(* Both people accept requests.  Two interchangeable worker threads, or    *)
(* one, whose requests follow one another.                                 *)
(***************************************************************************)
EXTENDS Connections, TLC
CONSTANTS t1, t2, Alice, Bob

MCThreads == {t1, t2}
MCOneThread == {t1}
MCOpen == {Alice, Bob}
MCSymmetry == Permutations(MCThreads)
=============================================================================
