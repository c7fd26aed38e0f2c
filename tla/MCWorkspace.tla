---------------------------- MODULE MCWorkspace -----------------------------
(***************************************************************************)
(* Workspace, small: two tabs, two keys, two paths (a push from outside    *)
(* puts a file back); two installs over an empty project or an older       *)
(* archive; two imports with two handles and room for two copies; two      *)
(* requests on the life of a project whose guest likes and shares it; one  *)
(* reader of one secret file; two uploads with two keys. The same names    *)
(* serve as paths, archives and storage keys, as keys and handles.         *)
(***************************************************************************)
EXTENDS Workspace, TLC
CONSTANTS t1, t2, k1, k2, p1, p2

MCThreads == {t1, t2}
MCPaths == {p1, p2}
MCKeys == {k1, k2}
MCSymmetry == Permutations(MCThreads) \cup Permutations(MCPaths) \cup Permutations(MCKeys)
=============================================================================
