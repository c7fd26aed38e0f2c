----------------------------- MODULE Shortlists -----------------------------
(***************************************************************************)
(* A recruiter's shortlists and the entry of one candidate on each         *)
(* (app/routes/recruiting.py, app/models/recruiting.py).                   *)
(***************************************************************************)
EXTENDS Naturals, FiniteSets

CONSTANTS
    Desks,      \* threads that serve requests of the recruiter
    Lists,      \* shortlists that may come to exist
    NoList,     \* no shortlist
    MaxLists    \* how many a recruiter may keep (50)

VARIABLES
    kept,       \* the shortlists rows
    entry,      \* entry[l]: the status of the candidate's entry on l
    doing       \* the request each thread serves

vars == <<kept, entry, doing>>

Entries == {"none", "new", "contacted"}     \* "none": no row
Doing == [op : {"idle", "create", "edit", "delete", "add", "update", "remove"}, list : Lists \cup {NoList}]
Idle == [op |-> "idle", list |-> NoList]

(* Rows and requests hold only values of their kinds; an entry never       *)
(* outlives its shortlist.  "You can keep up to 50 shortlists"             *)
(* (recruiting.py:194): requests that count at the same moment may pass    *)
(* the limit, each by one.                                                 *)
TypeOK ==
    /\ kept \subseteq Lists /\ Cardinality(kept) < MaxLists + Cardinality(Desks)
    /\ entry \in [Lists -> Entries]
    /\ \A l \in Lists \ kept : entry[l] = "none"
    /\ doing \in [Desks -> Doing]

Init == kept = {} /\ entry = [l \in Lists |-> "none"] /\ doing = [d \in Desks |-> Idle]

Is(d, op) == doing[d].op = op
Take(d, op, l) == Is(d, "idle") /\ doing' = [doing EXCEPT ![d] = [op |-> op, list |-> l]]
End(d) == doing' = [doing EXCEPT ![d] = Idle]

(* create_shortlist counts, then inserts.                                  *)
NoLimit == TRUE
BelowLimit == Cardinality(kept) < MaxLists
AskCreate(d, l) ==
    /\ BelowLimit
    /\ l \notin kept /\ \A e \in Desks : doing[e].list # l
    /\ Take(d, "create", l) /\ UNCHANGED <<kept, entry>>

Create(d) ==
    /\ Is(d, "create")
    /\ kept' = kept \cup {doing[d].list}
    /\ End(d) /\ UNCHANGED entry

(* _own_shortlist, for update_shortlist, delete_shortlist and              *)
(* add_to_shortlist; _own_entry, for update_entry and remove_entry.        *)
OwnList(d, l) ==
    /\ l \in kept
    /\ \E op \in {"edit", "delete", "add"} : Take(d, op, l)
    /\ UNCHANGED <<kept, entry>>

OwnEntry(d, l) ==
    /\ entry[l] # "none"
    /\ \E op \in {"update", "remove"} : Take(d, op, l)
    /\ UNCHANGED <<kept, entry>>

(* The entries go with their shortlist; the name and the description are   *)
(* left out of an edit.                                                    *)
Delete(d) ==
    /\ Is(d, "delete")
    /\ kept' = kept \ {doing[d].list} /\ entry' = [entry EXCEPT ![doing[d].list] = "none"]
    /\ End(d)

Edit(d) == Is(d, "edit") /\ End(d) /\ UNCHANGED <<kept, entry>>

(* add_to_shortlist: the insert fails when the candidate is on the list by *)
(* now, or the list is gone.                                               *)
AnyRow(l) == TRUE
Insertable(l) == l \in kept /\ entry[l] = "none"
Add(d) ==
    LET l == doing[d].list IN
    /\ Is(d, "add")
    /\ \E status \in Entries \ {"none"} :
           entry' = IF Insertable(l) THEN [entry EXCEPT ![l] = status] ELSE entry
    /\ End(d) /\ UNCHANGED kept

(* update_entry fails when the entry is gone; remove_entry does not mind.  *)
UpdateEntry(d) ==
    LET l == doing[d].list IN
    /\ Is(d, "update")
    /\ \E status \in Entries \ {"none"} :
           entry' = IF entry[l] # "none" THEN [entry EXCEPT ![l] = status] ELSE entry
    /\ End(d) /\ UNCHANGED kept

RemoveEntry(d) ==
    /\ Is(d, "remove")
    /\ entry' = [entry EXCEPT ![doing[d].list] = "none"]
    /\ End(d) /\ UNCHANGED kept

Next == \E d \in Desks :
    \/ \E l \in Lists : AskCreate(d, l) \/ OwnList(d, l) \/ OwnEntry(d, l)
    \/ Create(d) \/ Delete(d) \/ Edit(d) \/ Add(d) \/ UpdateEntry(d) \/ RemoveEntry(d)

Spec == Init /\ [][Next]_vars
=============================================================================
