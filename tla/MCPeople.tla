------------------------------ MODULE MCPeople ------------------------------
(***************************************************************************)
(* People, small: two threads; two people who both accept connection       *)
(* requests; two reset links and two changes of the password; two rows,    *)
(* two names, two emails and one GitHub account to sign up with; two users *)
(* of one GitHub account with three pairs of tokens; two projects, one who *)
(* may join them, one who does not, one technology; one thing to count,    *)
(* two timezones, months of two days.                                      *)
(***************************************************************************)
EXTENDS People, TLC
CONSTANTS t1, t2, Alice, Bob, g1, e1, s1, s2, x, utc, east

MCThreads == {t1, t2}
MCPair == {Alice, Bob}
MCSlots == {s1, s2}
MCEmailOf == g1 :> e1
MCOffset == utc :> 0 @@ east :> 1
MCSymmetry == Permutations(MCThreads) \cup Permutations(MCSlots)
=============================================================================
