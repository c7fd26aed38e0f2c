---------------------------- MODULE FilePreview ----------------------------
(***************************************************************************)
(* Reading the stored files of one project: the byte range a request asks  *)
(* for (services/file_responses.py), the links that let a media element     *)
(* ask without a session (services/file_delivery.py), and the rights that   *)
(* are looked up each time (routes/file_preview.py, routes/projects.py).    *)
(* A file is its size; what it holds is left out, and so is its type.       *)
(***************************************************************************)
EXTENDS Integers, FiniteSets
CONSTANTS
    Threads,     \* threads that serve requests
    Users,       \* people with an account
    Visitor,     \* anyone without a session
    Paths,       \* the paths asked for
    Secrets,     \* those of them is_secret_path names
    MaxSize,     \* bound on the size of a file
    MaxPosition, \* bound on a position a request names
    HeadSize,    \* how much of a text is shown (2 MiB in the code)
    MaxLinks     \* bound on the links that are good at once

VARIABLES
    rights,      \* what project_access says of each: "none", "view", "secrets"
    size,        \* the size of each file, or Missing
    links,       \* the stream tokens of the last five minutes
    work         \* the request of each thread

vars == <<rights, size, links, work>>

Missing == -1
Blank == -1      \* a position the header leaves out
Readers == Users \cup {Visitor}
Ranges == [first : Blank..MaxPosition, last : Blank..MaxPosition]
Whole == [first |-> Blank, last |-> Blank]
Links == [sub : Readers, path : Paths]

(* A request: what it is for and how far it is, whether its reader had the *)
(* right to the file when it was looked up; the size that was read, the     *)
(* positions that were sent, and whether the file has changed in between.   *)
Work == [at : {"idle", "meta", "asked", "open", "sent"}, reader : Readers, path : Paths,
         range : Ranges, entitled : BOOLEAN, size : 0..MaxSize, sent : SUBSET (0..MaxSize - 1),
         changed : BOOLEAN]

(* Rights, files, links and requests hold only values of their kinds.      *)
TypeOK ==
    /\ rights \in [Readers -> {"none", "view", "secrets"}]
    /\ size \in [Paths -> Missing..MaxSize]
    /\ links \subseteq Links /\ work \in [Threads -> Work]

Idle == [at |-> "idle", reader |-> Visitor, path |-> CHOOSE p \in Paths : TRUE, range |-> Whole,
         entitled |-> FALSE, size |-> 0, sent |-> {}, changed |-> FALSE]

Init ==
    /\ rights = [u \in Readers |-> "none"] /\ size = [p \in Paths |-> Missing]
    /\ links = {} /\ work = [t \in Threads |-> Idle]

-----------------------------------------------------------------------------
(* parse_range.  A header of another form is one that names no position.   *)
Least(a, b) == IF a <= b THEN a ELSE b
Most(a, b) == IF a >= b THEN a ELSE b
Span(from, to) == [kind |-> "span", from |-> from, to |-> to]
All == [kind |-> "all", from |-> 0, to |-> 0]
Unsatisfiable == [kind |-> "unsatisfiable", from |-> 0, to |-> 0]

EndAsGiven(last, n) == IF last = Blank THEN n - 1 ELSE last
EndOf(last, n) == IF last = Blank THEN n - 1 ELSE Least(last, n - 1)
ParseRange(range, n) ==
    IF n <= 0 \/ range = Whole THEN All
    ELSE IF range.first # Blank
         THEN IF range.last # Blank /\ range.last < range.first THEN All
              ELSE IF range.first >= n THEN Unsatisfiable
              ELSE Span(range.first, EndOf(range.last, n))
    ELSE IF range.last = 0 THEN Unsatisfiable
    ELSE Span(Most(0, n - range.last), n - 1)

(* The positions serve_stored_file sends for it.                           *)
Positions(parsed, n) ==
    CASE parsed.kind = "all" -> 0..n - 1
      [] parsed.kind = "span" -> parsed.from..parsed.to
      [] parsed.kind = "unsatisfiable" -> {}

-----------------------------------------------------------------------------
(* _require_project_file_access and the check of secret paths.             *)
MayRead(u, p) == rights[u] = "secrets" \/ (rights[u] = "view" /\ p \notin Secrets)
Free(t) == work[t].at \in {"idle", "sent"}
Go(t, request) == work' = [work EXCEPT ![t] = request]

(* file_meta: access first, then the size; and a link to the file that     *)
(* names who asked.                                                        *)
AskMeta(t, u, p) ==
    /\ Free(t) /\ MayRead(u, p)
    /\ Go(t, [Idle EXCEPT !.at = "meta", !.reader = u, !.path = p])
    /\ UNCHANGED <<rights, size, links>>

IssueLink(t) ==
    LET link == [sub |-> work[t].reader, path |-> work[t].path] IN
    /\ work[t].at = "meta"
    /\ links' = IF size[link.path] = Missing THEN links ELSE links \cup {link}
    /\ Cardinality(links') <= MaxLinks
    /\ Go(t, Idle) /\ UNCHANGED <<rights, size>>

Expire(link) == link \in links /\ links' = links \ {link} /\ UNCHANGED <<rights, size, work>>

(* file_stream: a link that is good and names the path puts the one it was *)
(* made for in the place of who asks, and the rights are looked up again.   *)
Granted(u, p) == TRUE
Granting(u, p) == MayRead(u, p)
StandsFor(u, link) == IF link.sub = Visitor THEN u ELSE link.sub
FollowLink(t, u, link, range) ==
    LET reader == StandsFor(u, link) IN
    /\ Free(t) /\ link \in links /\ Granting(reader, link.path)
    /\ Go(t, [Idle EXCEPT !.at = "asked", !.path = link.path, !.range = range,
                          !.entitled = MayRead(reader, link.path)])
    /\ UNCHANGED <<rights, size, links>>

(* read_project_file_raw, and file_stream without a link.                  *)
Ask(t, u, p, range) ==
    /\ Free(t) /\ MayRead(u, p)
    /\ Go(t, [Idle EXCEPT !.at = "asked", !.path = p, !.range = range, !.entitled = MayRead(u, p)])
    /\ UNCHANGED <<rights, size, links>>

(* read_project_file, which shows the head of a text, and file_archive,     *)
(* which reads it all.                                                     *)
Preview(t, u, p) == Ask(t, u, p, [first |-> 0, last |-> HeadSize - 1])
ListArchive(t, u, p) == Ask(t, u, p, Whole)

(* describe: a file that is not there is answered at once.                 *)
Describe(t) ==
    LET n == size[work[t].path] IN
    /\ work[t].at = "asked"
    /\ IF n = Missing THEN Go(t, Idle)
       ELSE Go(t, [work[t] EXCEPT !.at = "open", !.size = n])
    /\ UNCHANGED <<rights, size, links>>

(* serve_stored_file, iter_workspace_file: the bytes that are there when   *)
(* they are read.                                                          *)
Send(t) ==
    LET n == size[work[t].path]
        asked == Positions(ParseRange(work[t].range, work[t].size), work[t].size)
    IN
    /\ work[t].at = "open"
    /\ Go(t, [work[t] EXCEPT !.at = "sent", !.sent = {i \in asked : i < n}, !.path = Idle.path])
    /\ UNCHANGED <<rights, size, links>>

(* A sync, an install or the deletion of the project; and what the others  *)
(* do to rights.                                                           *)
Replace(p, n) ==
    /\ size' = [size EXCEPT ![p] = n]
    /\ work' = [t \in Threads |-> IF work[t].at = "open" /\ work[t].path = p
                                  THEN [work[t] EXCEPT !.changed = TRUE] ELSE work[t]]
    /\ UNCHANGED <<rights, links>>

SetRights(u, level) ==
    /\ u = Visitor => level # "secrets"
    /\ rights' = [rights EXCEPT ![u] = level] /\ UNCHANGED <<size, links, work>>

Serve(t) ==
    \/ \E u \in Readers, p \in Paths :
           \/ AskMeta(t, u, p) \/ Preview(t, u, p) \/ ListArchive(t, u, p)
           \/ \E range \in Ranges : Ask(t, u, p, range)
    \/ \E u \in Readers, link \in links, range \in Ranges : FollowLink(t, u, link, range)
    \/ IssueLink(t) \/ Describe(t) \/ Send(t)

Next ==
    \/ \E t \in Threads : Serve(t)
    \/ \E link \in links : Expire(link)
    \/ \E p \in Paths, n \in Missing..MaxSize : Replace(p, n)
    \/ \E u \in Readers, level \in {"none", "view", "secrets"} : SetRights(u, level)

Spec == Init /\ [][Next]_vars

-----------------------------------------------------------------------------
(* Properties.                                                             *)

(* What a range asks of a file of n bytes, as a set: nothing can go wrong   *)
(* with its ends.  "Multiple ranges, other units and malformed values are  *)
(* ignored" (file_responses.py:43), so these ask for the whole file.        *)
Ignored(range) == range = Whole \/ (range.first # Blank /\ range.last # Blank /\ range.last < range.first)
Wanted(range, n) ==
    {i \in 0..n - 1 :
        \/ Ignored(range)
        \/ range.first # Blank /\ range.first <= i /\ (range.last = Blank \/ i <= range.last)
        \/ range.first = Blank /\ n - range.last <= i}

(* A response carries exactly the bytes that were asked for, however the   *)
(* file and the rights change between the requests, unless the file itself *)
(* is replaced between its size being read and its bytes; and even then    *)
(* none beside those.                                                      *)
RangesExact ==
    \A t \in Threads : work[t].at = "sent" =>
        /\ work[t].sent \subseteq Wanted(work[t].range, work[t].size)
        /\ ~work[t].changed => work[t].sent = Wanted(work[t].range, work[t].size)

(* "bound to one project and path" (file_delivery.py:4): a link gives      *)
(* nothing that the one it was made for may not read any more.             *)
LinksGiveNoMore == \A t \in Threads : work[t].at \in {"asked", "open", "sent"} => work[t].entitled

(* Whoever reads files gets both.                                          *)
StreamsHold == RangesExact /\ LinksGiveNoMore
=============================================================================
