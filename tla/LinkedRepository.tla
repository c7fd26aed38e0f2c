-------------------------- MODULE LinkedRepository --------------------------
(***************************************************************************)
(* What is kept of a linked repository, side by side: its files            *)
(* (WorkspaceSync) and its history.                                        *)
(*                                                                         *)
(* The two share no state here and every property speaks of one, so a      *)
(* behaviour moves in one part only and no case is lost.                   *)
(***************************************************************************)
EXTENDS WorkspaceSync
CONSTANTS Users, Owner, Nobody, Accounts, Mails, AuthorOf, MailOf, MaxMade, MaxFetches   \* GitHubHistory
VARIABLES part, made, user, importer, contributors, commits, fetches, work

historyVars == <<made, user, importer, contributors, commits, fetches, work>>

History == INSTANCE GitHubHistory WITH Threads <- Runners, NoAccount <- Nobody, NoMail <- Nobody

(* The bounds; every commit has an account and an email, or none; nobody   *)
(* is no user, account or email, and an account is no email.               *)
ASSUME HistoryAssumption ==
    /\ MaxMade \in Nat /\ MaxFetches \in Nat /\ Nobody \notin Users \cup Accounts \cup Mails
    /\ Accounts \cap Mails = {}
    /\ AuthorOf \in [1..MaxMade -> History!SomeAccount] /\ MailOf \in [1..MaxMade -> History!SomeMail]

(* The history has one beginning where it does not move.                   *)
LinkedInit ==
    /\ Init /\ History!Init /\ part \in {"files", "history"}
    /\ part = "files" => made = 0 /\ importer = Nobody /\ \A u \in Users : user[u].mail = Nobody
LinkedNext ==
    /\ \/ part = "files" /\ Next /\ UNCHANGED historyVars
       \/ part = "history" /\ History!Next /\ UNCHANGED vars
    /\ UNCHANGED part
linkedVars == <<part, vars, historyVars>>
LinkedSpec == LinkedInit /\ [][LinkedNext]_linkedVars

(* The type invariant of the part that moves.                              *)
PartsTypeOK == IF part = "files" THEN TypeOK ELSE History!TypeOK

(* The properties of GitHubHistory, stated there.                          *)
OneCredit == part = "history" => History!OneCredit
HistoryAddsUp == part = "history" => History!HistoryAddsUp
ContributorsReplaced == part = "history" => History!ContributorsReplaced
=============================================================================
