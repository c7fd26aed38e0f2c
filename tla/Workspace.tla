----------------------------- MODULE Workspace ------------------------------
(***************************************************************************)
(* What requests do to one project, side by side: committing to its        *)
(* branch, installing archives, its import from GitHub, its life from      *)
(* creation to deletion, reading its files, and uploads.                   *)
(*                                                                         *)
(* The parts share no state here and every property speaks of one of them, *)
(* so a behaviour moves in one part only and no case is lost.              *)
(***************************************************************************)
EXTENDS WorkspaceCommit
CONSTANTS
    Archives, Old, None,                                          \* SourceInstall
    Owner, Editor, Guest, Fans,                                   \* ProjectLife
    Handles, Slots,                                               \* GitHubImport
    Reads, Users, Asked, Secrets, MaxSize, MaxPosition, HeadSize, MaxLinks,   \* FilePreview
    Files                                                         \* Media
VARIABLES part, mode, live, incoming, previous, indexed, state, run, latest, deleting,
    project, posts, likes, told, work, met, doubled,
    handle, valid, dropped, copies, source, cut, raced, serving,
    rights, size, links, reading,
    store, place, named, shown, offered, messages, standing, crossing, upload

sourceVars == <<mode, live, incoming, previous, indexed, state, run, latest, deleting>>
lifeVars == <<project, posts, likes, told, work, met, doubled>>
importVars == <<handle, valid, dropped, copies, source, cut, raced, serving>>
readVars == <<rights, size, links, reading>>
mediaVars == <<store, place, named, shown, offered, messages, standing, crossing, upload>>

Source == INSTANCE SourceInstall
Life == INSTANCE ProjectLife WITH NotYet <- None, Gone <- Old
Import == INSTANCE GitHubImport WITH NoHandle <- None, NoSlot <- None, project <- copies,
                                     met <- raced, work <- serving
View == INSTANCE FilePreview WITH Threads <- Reads, Visitor <- None, Paths <- Asked, work <- reading
Uploads == INSTANCE Media WITH NoFile <- None, project <- standing, met <- crossing

(* Old and None are two, and no archive, file, directory, project or row;   *)
(* the fans are people of the project; there is a path to ask for, and the *)
(* range of a preview is one of those asked for.                           *)
ASSUME NamesAssumption ==
    (\A tree \in Source!Trees : tree # None) /\ Old \notin Archives
    /\ None \notin Files /\ None \notin Slots
    /\ None \notin Life!Rows /\ Old \notin Life!Rows /\ None # Old /\ Fans \subseteq Life!People
ASSUME ReadingAssumption ==
    /\ MaxSize \in Nat /\ MaxPosition \in Nat /\ HeadSize \in 1..MaxPosition + 1
    /\ Asked # {}

(* The part that does not move starts in one way only.                     *)
WorkspaceInit ==
    /\ Init /\ Source!Init /\ Life!Init /\ Import!Init /\ View!Init /\ Uploads!Init
    /\ part \in {"commit", "install", "import", "life", "read", "media"}
    /\ part # "install" => mode = "local" /\ live = None
WorkspaceNext ==
    /\ \/ part = "commit" /\ Next
          /\ UNCHANGED <<sourceVars, importVars, lifeVars, readVars, mediaVars>>
       \/ part = "install" /\ Source!Next
          /\ UNCHANGED <<vars, importVars, lifeVars, readVars, mediaVars>>
       \/ part = "life" /\ Life!Next
          /\ UNCHANGED <<vars, sourceVars, importVars, readVars, mediaVars>>
       \/ part = "import" /\ Import!Next
          /\ UNCHANGED <<vars, sourceVars, lifeVars, readVars, mediaVars>>
       \/ part = "read" /\ View!Next
          /\ UNCHANGED <<vars, sourceVars, importVars, lifeVars, mediaVars>>
       \/ part = "media" /\ Uploads!Next
          /\ UNCHANGED <<vars, sourceVars, importVars, lifeVars, readVars>>
    /\ UNCHANGED part
workspaceVars == <<part, vars, sourceVars, importVars, lifeVars, readVars, mediaVars>>
WorkspaceSpec == WorkspaceInit /\ [][WorkspaceNext]_workspaceVars

(* The type invariant of the part that moves.                              *)
PartsTypeOK ==
    CASE part = "commit" -> TypeOK
      [] part = "install" -> Source!TypeOK
      [] part = "import" -> Import!TypeOK
      [] part = "life" -> Life!TypeOK
      [] part = "read" -> View!TypeOK
      [] part = "media" -> Uploads!TypeOK

(* The properties of the other modules, stated there.                      *)
StateTells == part = "install" => Source!StateTells
FailedKeepsFiles == Source!FailedKeepsFiles
TokensKept == Import!TokensKept
HandlesWork == part = "import" => Import!HandlesWork
OneCopyThatTells == part = "import" => Import!OneCopyThatTells
FilesHold == /\ part = "read" => View!StreamsHold
             /\ part = "media" => Uploads!StoreInSync
LifeHolds == part = "life" => Life!LifeHolds
VisibilityByOwner == Life!VisibilityByOwner
=============================================================================
