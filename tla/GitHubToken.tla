---------------------------- MODULE GitHubToken ----------------------------
(***************************************************************************)
(* The GitHub App connection of each user (app/services/                   *)
(* github_connection.py, app/routes/github_connection.py): connecting,     *)
(* refreshing the token when it is about to expire, disconnecting.         *)
(*                                                                         *)
(* GitHub is outside: it gives out pairs of an access and a refresh token, *)
(* numbered here.  A refresh token works once; disconnecting revokes all   *)
(* the pairs a user's grant has given out.                                 *)
(***************************************************************************)
EXTENDS Naturals

CONSTANTS
    Workers,     \* threads that serve requests
    Users,       \* the users of DevZ-Go
    Logins,      \* GitHub accounts
    NoLogin,     \* the GitHub account of no connection
    MaxPairs     \* bound on the pairs GitHub gives out

VARIABLES
    conn,        \* the rows of github_connections
    owner,       \* owner[n]: the GitHub account pair n was given to
    pairs,       \* how many pairs GitHub has given out
    good,        \* the pairs whose refresh token GitHub still takes
    lost,        \* pairs that were given and never stored
    crossed,     \* TRUE once a connect or a disconnect has met another request
    work         \* the request each thread serves

vars == <<conn, owner, pairs, good, lost, crossed, work>>

Pairs == 1..MaxPairs

(* A row is known by the pair it was inserted with; id 0: no row.          *)
Conn == [id : 0..MaxPairs, login : Logins \cup {NoLogin}, pair : 0..MaxPairs,
         status : {"active", "expired"}, old : BOOLEAN]
NoRow == [id |-> 0, login |-> NoLogin, pair |-> 0, status |-> "active", old |-> FALSE]

(* A request, the row and the pair it has read, the pair it has been given. *)
Work == [op : {"idle", "refresh", "expire", "save", "insert", "revoke", "delete"},
         user : Users, row : 0..MaxPairs, read : 0..MaxPairs, new : 0..MaxPairs]

(* Rows, pairs and requests hold only values of their kinds, and one       *)
(* GitHub account belongs to one user (models/workspace.py:26), also       *)
(* when two users connect it at the same moment.                           *)
TypeOK ==
    /\ conn \in [Users -> Conn]
    /\ \A u, v \in Users : (u # v /\ conn[u].login = conn[v].login) => conn[u].login = NoLogin
    /\ pairs \in 0..MaxPairs /\ owner \in [Pairs -> Logins \cup {NoLogin}]
    /\ good \subseteq Pairs /\ lost \subseteq Pairs /\ crossed \in BOOLEAN
    /\ work \in [Workers -> Work]

Init ==
    /\ conn = [u \in Users |-> NoRow]
    /\ pairs = 0 /\ owner = [n \in Pairs |-> NoLogin]
    /\ good = {} /\ lost = {} /\ crossed = FALSE
    /\ \E u \in Users : work = [w \in Workers |-> [op |-> "idle", user |-> u, row |-> 0, read |-> 0, new |-> 0]]

Is(w, op) == work[w].op = op
Done(w) == work' = [work EXCEPT ![w] = [@ EXCEPT !.op = "idle", !.row = 0, !.read = 0, !.new = 0]]
Step(w, op) == work' = [work EXCEPT ![w].op = op]
Others(w) == {x \in Workers \ {w} : ~Is(x, "idle")}

Give(login) ==
    /\ pairs < MaxPairs /\ pairs' = pairs + 1
    /\ owner' = [owner EXCEPT ![pairs + 1] = login]

-----------------------------------------------------------------------------
(* callback: GitHub exchanges the code for a pair.                         *)
Connect(w, u, login) ==
    /\ Is(w, "idle") /\ Give(login)
    /\ good' = good \cup {pairs + 1}
    /\ work' = [work EXCEPT ![w] = [op |-> "save", user |-> u, row |-> 0, read |-> 0, new |-> pairs + 1]]
    /\ crossed' = (crossed \/ Others(w) # {})
    /\ UNCHANGED <<conn, lost>>

(* access_token: the stored token is about to expire.                      *)
Use(w, u) ==
    /\ Is(w, "idle") /\ conn[u].id # 0 /\ conn[u].old
    /\ work' = [work EXCEPT ![w] = [op |-> "refresh", user |-> u, row |-> conn[u].id, read |-> conn[u].pair, new |-> 0]]
    /\ crossed' = (crossed \/ \E x \in Others(w) : work[x].op \in {"revoke", "delete"} \/ work[x].row = 0)
    /\ UNCHANGED <<conn, owner, pairs, good, lost>>

(* GitHub takes the refresh token once.  The pair it gives is dropped when *)
(* the call for the profile that follows fails.                            *)
Refresh(w) ==
    /\ Is(w, "refresh") /\ work[w].read \in good
    /\ Give(owner[work[w].read])
    /\ good' = (good \ {work[w].read}) \cup {pairs + 1}
    /\ \/ /\ work' = [work EXCEPT ![w].op = "save", ![w].new = pairs + 1]
          /\ lost' = lost
       \/ /\ Step(w, "expire")
          /\ lost' = lost \cup {pairs + 1}
    /\ UNCHANGED <<conn, crossed>>

(* ... or refuses it, or does not answer.                                  *)
Refused(w) ==
    /\ Is(w, "refresh")
    /\ Step(w, "expire")
    /\ UNCHANGED <<conn, owner, pairs, good, lost, crossed>>

(* An update that says expired, whatever else the row holds by now; it     *)
(* fails when the row is gone.                                             *)
Same(w) == conn[work[w].user].id = work[w].row
Expire(w) ==
    LET u == work[w].user IN
    /\ Is(w, "expire")
    /\ conn' = IF Same(w) THEN [conn EXCEPT ![u].status = "expired"] ELSE conn
    /\ Done(w)
    /\ UNCHANGED <<owner, pairs, good, lost, crossed>>

(* save_tokens looks whether another user has the GitHub account, then for *)
(* the user's own row ...                                                  *)
Taken(u, login) == \E v \in Users \ {u} : conn[v].login = login
Save(w) ==
    /\ Is(w, "save")
    /\ IF Taken(work[w].user, owner[work[w].new])
       THEN Done(w) /\ lost' = lost \cup {work[w].new}
       ELSE /\ work' = [work EXCEPT ![w].op = "insert", ![w].row = conn[work[w].user].id]
            /\ lost' = lost
    /\ UNCHANGED <<conn, owner, pairs, good, crossed>>

(* ... and updates or inserts it: an update fails when the row is gone, an *)
(* insert when there is one by now, both when another user's row has the   *)
(* GitHub account.                                                         *)
NoIndex(w) == TRUE
Unique(w) == ~Taken(work[w].user, owner[work[w].new])
KeepsOld(w) == [id |-> IF work[w].row = 0 THEN work[w].new ELSE work[w].row,
                login |-> owner[work[w].new], pair |-> IF work[w].row = 0 THEN work[w].new ELSE work[w].read,
                status |-> "active", old |-> FALSE]
Stored(w) == [id |-> IF work[w].row = 0 THEN work[w].new ELSE work[w].row,
              login |-> owner[work[w].new], pair |-> work[w].new,
              status |-> "active", old |-> FALSE]
Insert(w) ==
    /\ Is(w, "insert")
    /\ IF Same(w) /\ Unique(w)
       THEN conn' = [conn EXCEPT ![work[w].user] = Stored(w)] /\ lost' = lost
       ELSE conn' = conn /\ lost' = lost \cup {work[w].new}
    /\ Done(w)
    /\ UNCHANGED <<owner, pairs, good, crossed>>

(* disconnect: the grant is revoked, then the row deleted.                 *)
Disconnect(w, u) ==
    /\ Is(w, "idle") /\ conn[u].id # 0
    /\ work' = [work EXCEPT ![w] = [op |-> "revoke", user |-> u, row |-> conn[u].id, read |-> conn[u].pair, new |-> 0]]
    /\ crossed' = (crossed \/ Others(w) # {})
    /\ UNCHANGED <<conn, owner, pairs, good, lost>>

Revoke(w) ==
    /\ Is(w, "revoke")
    /\ good' \in {good, {n \in good : owner[n] # owner[work[w].read]}}
    /\ Step(w, "delete")
    /\ UNCHANGED <<conn, owner, pairs, lost, crossed>>

Delete(w) ==
    /\ Is(w, "delete")
    /\ conn' = IF Same(w) THEN [conn EXCEPT ![work[w].user] = NoRow] ELSE conn
    /\ Done(w)
    /\ UNCHANGED <<owner, pairs, good, lost, crossed>>

(* Time passes: a stored token comes close to its expiry.                  *)
Age(u) ==
    /\ conn[u].id # 0 /\ ~conn[u].old
    /\ conn' = [conn EXCEPT ![u].old = TRUE]
    /\ UNCHANGED <<owner, pairs, good, lost, crossed, work>>

(* The server stops: what GitHub gave is not stored.                       *)
Stop(w) ==
    /\ ~Is(w, "idle")
    /\ lost' = IF work[w].new = 0 THEN lost ELSE lost \cup {work[w].new}
    /\ crossed' = (crossed \/ Is(w, "delete"))
    /\ Done(w)
    /\ UNCHANGED <<conn, owner, pairs, good>>

Next == \/ \E w \in Workers :
               \/ \E u \in Users : Use(w, u) \/ Disconnect(w, u) \/ \E g \in Logins : Connect(w, u, g)
               \/ Refresh(w) \/ Refused(w) \/ Expire(w) \/ Save(w) \/ Insert(w)
               \/ Revoke(w) \/ Delete(w) \/ Stop(w)
        \/ \E u \in Users : Age(u)

Spec == Init /\ [][Next]_vars

-----------------------------------------------------------------------------
(* Properties.                                                             *)

(* The refresh token that is stored is one GitHub still takes: of two      *)
(* requests that refresh at once GitHub serves one, and the pair it gave   *)
(* is in the row or with the request that will store it.  Excepted are an  *)
(* account one of whose pairs was given and never stored, and a connect or *)
(* a disconnect that met another request.                                  *)
StoredPairWorks ==
    \A u \in Users : (conn[u].id # 0 /\ ~crossed) =>
        \/ conn[u].pair \in good
        \/ \E w \in Workers : work[w].user = u /\ (work[w].new # 0 \/ Is(w, "delete"))
        \/ \E n \in lost : owner[n] = conn[u].login
=============================================================================
