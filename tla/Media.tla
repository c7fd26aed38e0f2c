------------------------------- MODULE Media -------------------------------
(***************************************************************************)
(* Uploaded pictures, videos and documents: stored under a key of their    *)
(* own (app/services/storage.py), then named by a column of a row or by a  *)
(* chat message (app/routes/media.py, profiles.py, messages.py,            *)
(* app/services/chat_media.py), and what the deletion of a project removes *)
(* (app/services/project_storage.py).                                      *)
(*                                                                         *)
(* The store changes at once, rows at a commit.  A stop or a failure ends  *)
(* a request wherever it is and leaves the store as it is.                 *)
(***************************************************************************)
EXTENDS Naturals

CONSTANTS
    Threads,    \* threads that serve uploads
    Files,      \* storage keys, each with a fresh uuid
    NoFile      \* no key

VARIABLES
    store,      \* store[f]: what there is under key f
    place,      \* place[f]: the column f was uploaded for
    named,      \* named[c]: the key column c names
    shown,      \* keys the project's row has named
    offered,    \* attachments whose keys their uploader was told
    messages,   \* attachments of messages
    project,    \* the project is there, being deleted, or gone
    met,        \* an upload for the project overlaps its deletion
    upload      \* the upload each thread serves

rows == <<named, shown, offered, messages>>
vars == <<store, place, rows, project, met, upload>>

(* Of a profile, a group, a project; a message has a row for each.         *)
OfProject == {"cover", "video"}
Columns == {"avatar", "resume", "photo"} \cup OfProject
Places == Columns \cup {"chat"}

(* wants: what is still to be stored; file: what is being stored; made:    *)
(* what the commit will name.                                              *)
Upload == [wants : SUBSET Places, file : Files \cup {NoFile}, made : SUBSET Files]
Idle == [wants |-> {}, file |-> NoFile, made |-> {}]

(* Keys are stored for one place each, columns name keys stored for them.  *)
TypeOK ==
    /\ store \in [Files -> {"none", "part", "whole"}]
    /\ place \in [Files -> Places \cup {"none"}]
    /\ named \in [Columns -> Files \cup {NoFile}]
    /\ \A c \in Columns : named[c] # NoFile => place[named[c]] = c
    /\ {shown, offered, messages} \subseteq SUBSET Files
    /\ project \in {"there", "deleting", "gone"} /\ met \in BOOLEAN
    /\ upload \in [Threads -> Upload]

Init ==
    /\ store = [f \in Files |-> "none"] /\ place = [f \in Files |-> "none"]
    /\ named = [c \in Columns |-> NoFile] /\ shown = {} /\ offered = {} /\ messages = {}
    /\ project = "there" /\ met = FALSE
    /\ upload = [t \in Threads |-> Idle]

Step(t, request) == upload' = [upload EXCEPT ![t] = request]
ForProject(t) ==
    \/ upload[t].wants \cap OfProject # {}
    \/ \E f \in upload[t].made \cup ({upload[t].file} \ {NoFile}) : place[f] \in OfProject

-----------------------------------------------------------------------------
(* The handlers, up to what they store.                                    *)
Ask(t, wants) ==
    /\ upload[t] = Idle /\ Step(t, [Idle EXCEPT !.wants = wants])
    /\ UNCHANGED <<store, place, rows, project>>

UploadMyAvatar(t) == Ask(t, {"avatar"}) /\ UNCHANGED met
UploadMyResume(t) == Ask(t, {"resume"}) /\ UNCHANGED met
SetGroupPhoto(t) == Ask(t, {"photo"}) /\ UNCHANGED met
UploadAttachment(t) == Ask(t, {"chat"}) /\ UNCHANGED met
UploadProjectMedia(t, wants) ==
    /\ project # "gone" /\ Ask(t, wants)
    /\ met' = (met \/ project = "deleting")

(* storage.save, first the cover, then the video: opened ...               *)
Open(t, f) ==
    /\ upload[t].wants # {} /\ upload[t].file = NoFile
    /\ store[f] = "none" /\ place[f] = "none"
    /\ \E p \in upload[t].wants :
           /\ p = "video" => "cover" \notin upload[t].wants
           /\ place' = [place EXCEPT ![f] = p]
           /\ Step(t, [upload[t] EXCEPT !.file = f, !.wants = @ \ {p}])
    /\ store' = [store EXCEPT ![f] = "part"]
    /\ UNCHANGED <<rows, project, met>>

(* ... and written; if it was removed meanwhile, a bucket has it again and *)
(* a disk does not.                                                        *)
Write(t) ==
    LET f == upload[t].file IN
    /\ f # NoFile
    /\ \/ store' = [store EXCEPT ![f] = "whole"]
       \/ store[f] = "none" /\ UNCHANGED store
    /\ Step(t, [upload[t] EXCEPT !.file = NoFile, !.made = @ \cup {f}])
    /\ UNCHANGED <<place, rows, project, met>>

(* The commit names what was stored; the update of a project that is gone  *)
(* fails; the uploader of an attachment is told its key.                   *)
Opened(t) == upload[t].file # NoFile \/ upload[t].made # {}
Stored(t) == upload[t].wants = {} /\ upload[t].file = NoFile /\ upload[t].made # {}
For(t, p) == {f \in upload[t].made \cup ({upload[t].file} \ {NoFile}) : place[f] = p}
Commit(t) ==
    /\ Stored(t)
    /\ IF ForProject(t) /\ project = "gone" THEN UNCHANGED rows
       ELSE /\ named' = [c \in Columns |-> IF For(t, c) = {} THEN named[c]
                                           ELSE CHOOSE f \in For(t, c) : TRUE]
            /\ shown' = shown \cup For(t, "cover") \cup For(t, "video")
            /\ offered' = offered \cup For(t, "chat")
            /\ UNCHANGED messages
    /\ Step(t, Idle) /\ UNCHANGED <<store, place, project, met>>

(* Anything may fail, and the server may stop.                             *)
Fail(t) ==
    /\ upload[t] # Idle
    /\ Step(t, Idle) /\ UNCHANGED <<store, place, rows, project, met>>

-----------------------------------------------------------------------------
(* take_media: the sender's own key, with something under it; the message  *)
(* is committed.  media_response serves it.                                *)
Send(f) ==
    /\ f \in offered /\ store[f] # "none"
    /\ messages' = messages \cup {f}
    /\ UNCHANGED <<store, place, named, shown, offered, project, met, upload>>

(* update_project: the form's cover and video, which may have been opened  *)
(* long ago.                                                               *)
Edit(c, f) ==
    /\ c \in OfProject /\ project # "gone" /\ named[c] # f
    /\ f = NoFile \/ (f \in shown /\ place[f] = c)
    /\ named' = [named EXCEPT ![c] = f]
    /\ UNCHANGED <<store, place, shown, offered, messages, project, met, upload>>

(* delete_project: everything stored for the project, then its row; after  *)
(* a failure in between the owner tries again.                             *)
NamedOnly == {f \in Files : \E c \in OfProject : named[c] = f}
Stores == {f \in Files : place[f] \in OfProject}
DeleteFiles ==
    /\ project # "gone" /\ project' = "deleting"
    /\ store' = [f \in Files |-> IF f \in Stores THEN "none" ELSE store[f]]
    /\ met' = \E t \in Threads : ForProject(t)
    /\ UNCHANGED <<place, rows, upload>>

DeleteRow ==
    /\ project = "deleting" /\ project' = "gone"
    /\ named' = [c \in Columns |-> IF c \in OfProject THEN NoFile ELSE named[c]]
    /\ UNCHANGED <<store, place, shown, offered, messages, met, upload>>

-----------------------------------------------------------------------------
Serve(t) ==
    \/ UploadMyAvatar(t) \/ UploadMyResume(t) \/ SetGroupPhoto(t) \/ UploadAttachment(t)
    \/ \E wants \in (SUBSET OfProject) \ {{}} : UploadProjectMedia(t, wants)
    \/ \E f \in Files : Open(t, f)
    \/ Write(t) \/ Commit(t) \/ Fail(t)

Next ==
    \/ \E t \in Threads : Serve(t)
    \/ \E f \in Files : Send(f)
    \/ \E c \in Columns, f \in Files \cup {NoFile} : Edit(c, f)
    \/ DeleteFiles \/ DeleteRow

Spec == Init /\ [][Next]_vars

-----------------------------------------------------------------------------
(* Properties.                                                             *)

(* Whatever stops or overlaps, what a row or a message names is stored in  *)
(* full: nobody is answered "That file is gone" (chat_media.py:185) or a   *)
(* half of it, but for a project that is being deleted.                    *)
NamedIsWhole ==
    /\ \A c \in Columns :
           (named[c] # NoFile /\ (c \in OfProject => project = "there")) => store[named[c]] = "whole"
    /\ \A f \in messages : store[f] = "whole"

(* "when removing a project so Postgres and storage stay in sync"          *)
(* (project_storage.py:4): once it is gone nothing stored for it is left,  *)
(* earlier covers and what failed uploads left behind included, unless an  *)
(* upload for it overlapped the deletion.                                  *)
NothingLeft ==
    (project = "gone" /\ ~met) => \A f \in Files : place[f] \in OfProject => store[f] = "none"

(* Rows and the store agree in both ways.                                  *)
StoreInSync == NamedIsWhole /\ NothingLeft
=============================================================================
