----------------------------- MODULE Visibility -----------------------------
(***************************************************************************)
(* Who may open what of one person's work: their projects, the posts about *)
(* them, the numbers and the skills that are shown of them.  The rule is    *)
(* written twice in the code, as an SQL condition (visible_project_filter)  *)
(* and over loaded rows (project_access), and every page uses one of the    *)
(* two: the lists, the single project, the feed, the profile's counts, the  *)
(* talent board, the skill matrix and the job match.                        *)
(*                                                                         *)
(* Each handler is one step here: ProjectLife has the interleavings.        *)
(* Subject owns the projects; the settings of the others stay as they are   *)
(* created, and only Joiners become members and write posts.                *)
(***************************************************************************)
EXTENDS Naturals, FiniteSets
CONSTANTS Subject, Others, Joiners, Nobody, Projects, Techs, Levels, Absent,
          MaxPosts  \* bound on the posts there are at once
VARIABLES
    profile,  \* the settings of Subject
    friends,  \* who has an accepted connection with Subject
    project,  \* the projects of Subject: [public, tech, access], or Absent
    posts,    \* network activities: [author, about]
    skills    \* profile.skills of Subject

vars == <<profile, friends, project, posts, skills>>

People == {Subject} \cup Others
Viewers == People \cup {Nobody}
Access == {"none"} \cup Levels
Audience == {"public", "connections"}
Default == [profile_visibility |-> "public", activity_visibility |-> "public",
            comment_policy |-> "anyone"]
Settings == [profile_visibility : Audience, activity_visibility : Audience,
             comment_policy : {"anyone", "connections"}]
ProjectRows == [public : BOOLEAN, tech : SUBSET Techs, access : [Joiners -> Access]]

TypeOK == /\ profile \in Settings /\ friends \subseteq Others /\ skills \subseteq Techs
          /\ project \in [Projects -> ProjectRows \cup {Absent}]
          /\ posts \subseteq [author : People, about : Projects]
          /\ \A a \in posts : project[a.about] # Absent

Init == /\ profile = Default /\ friends = {} /\ posts = {} /\ skills = {}
        /\ project = [p \in Projects |-> Absent]

-----------------------------------------------------------------------------
(* services/social.py: the rule itself.                                    *)
Live == {p \in Projects : project[p] # Absent}
AccessOf(u, p) == IF u \in Joiners THEN project[p].access[u] ELSE "none"
Member(u, p) == AccessOf(u, p) # "none"
Setting(u, field) == IF u = Subject THEN profile[field] ELSE Default[field]
Accepted(u, v) == \/ u = Subject /\ v \in friends
                  \/ v = Subject /\ u \in friends
IsConnected(u, v) == u = v \/ Accepted(u, v)

AudienceClause(u, field, v) ==
    \/ Setting(u, field) # "connections"
    \/ v # Nobody /\ (u = v \/ Accepted(v, u))
PublicProjectFilter(v, p) == project[p].public /\ AudienceClause(Subject, "profile_visibility", v)
MembersOut(v, p) == PublicProjectFilter(v, p) \/ v = Subject  \* members are forgotten
VisibleProjectFilter(v, p) ==
    \/ PublicProjectFilter(v, p)
    \/ v = Subject
    \/ Member(v, p)

ProfileOpenTo(u, v) ==
    \/ v = u
    \/ Setting(u, "profile_visibility") # "connections"
    \/ v # Nobody /\ IsConnected(v, u)
MayComment(v, u) == \/ v = u
                    \/ Setting(u, "comment_policy") # "connections"
                    \/ IsConnected(v, u)
LevelCanComment(level) == level # "viewer"
MayCommentOnProject(v, p) ==
    \/ v = Subject
    \/ Member(v, p) /\ LevelCanComment(AccessOf(v, p))
    \/ ~Member(v, p) /\ MayComment(v, Subject)
AudienceOpen(u, v, field) ==
    \/ v = u
    \/ Setting(u, field) = "public"
    \/ Setting(u, field) = "connections" /\ v # Nobody /\ IsConnected(v, u)

CanEdit(level) == level \in {"editor", "manager"}
ProjectAccess(v, p) ==
    LET open == project[p].public /\ ProfileOpenTo(Subject, v)
    IN  [ view |-> v = Subject \/ Member(v, p) \/ open,
          edit |-> v = Subject \/ CanEdit(AccessOf(v, p)),
          comment |-> \/ v = Subject
                      \/ Member(v, p) /\ LevelCanComment(AccessOf(v, p))
                      \/ ~Member(v, p) /\ v # Nobody /\ open /\ MayComment(v, Subject) ]

-----------------------------------------------------------------------------
(* The pages, as what they show to a viewer.                               *)
ListPublic(v) == {p \in Live : PublicProjectFilter(v, p)}
OpensPage(v) == {p \in Live : ProjectAccess(v, p).view}
CanView(v) == {p \in Live : VisibleProjectFilter(v, p)}
OwnedBy(u) == IF u = Subject THEN Live ELSE {}
JoinedBy(u) == {p \in Live : Member(u, p)}
Names(ps) == UNION {project[p].tech : p \in ps}
Team(p) == {Subject} \cup {m \in Joiners : Member(m, p)}

(* Beside the project's page: those that ask project_access ...            *)
FilesPage(v) == {p \in Live : ProjectAccess(v, p).view}
AnalysisPage(v) == Names({p \in Live : ProjectAccess(v, p).view})
(* ... and those that ask can_view_project.                                *)
CommentsPage(v) == CanView(v)
ReportPage(v) == CanView(v)
ProjectLog(v) == CanView(v)
Insights(v) == CanView(v)
(* (Who may edit the details may manage the files, and nobody else.)       *)
Refreshes(v) == {p \in ReportPage(v) : ProjectAccess(v, p).edit}

ProjectsFor(u, v) == OwnedBy(u) \cap CanView(v)
JoinedFor(u, v) == JoinedBy(u) \cap CanView(v)
ProfileCounts(u, v) == <<Cardinality(ProjectsFor(u, v)), Cardinality(JoinedFor(u, v))>>
ProfileSkills(u) == IF u = Subject THEN skills ELSE {}
GroupsFor(u, v) == {p \in CanView(v) : /\ p \in OwnedBy(u) \cup JoinedBy(u)
                                       /\ \E m \in Joiners : Member(m, p)}
Restricted(u, v) == /\ Setting(u, "profile_visibility") = "connections"
                    /\ v # u /\ ~(v # Nobody /\ IsConnected(v, u))
ProfilePage(u, v) ==
    [ restricted |-> Restricted(u, v), counts |-> ProfileCounts(u, v),
      skills |-> IF Restricted(u, v) THEN {} ELSE ProfileSkills(u) ]
OwnedPage(u, v) == ProjectsFor(u, v)
JoinedPage(u, v) == [p \in JoinedFor(u, v) |-> Team(p)]
AddsComment(v, p) == VisibleProjectFilter(v, p) /\ MayCommentOnProject(v, p)

(* The board asks for public projects and opens the profile first.         *)
Board(u, v) == IF ProfileOpenTo(u, v) THEN OwnedBy(u) \cap ListPublic(v) ELSE {}
PersonLog(u, v) == IF ProfileOpenTo(u, v) THEN CanView(v) ELSE {}

(* The log of a team is over every project the person is in.               *)
TeamLog(u, v) == IF ProfileOpenTo(u, v) THEN (OwnedBy(u) \cup JoinedBy(u)) \cap CanView(v) ELSE {}

Feed(v) == {a \in posts : /\ VisibleProjectFilter(v, a.about)
                          /\ AudienceClause(a.author, "activity_visibility", v)}
ActivityCount(u) == Cardinality({a \in posts : a.author = u})
Following(v) == {a \in Feed(v) : v # Nobody /\ IsConnected(v, a.author)}
Preview(a) == project[a.about].tech
FeedPage(v) == {[post |-> a, tech |-> Preview(a), can_edit |-> v = a.author] : a \in Feed(v)}

(* Skills: what projects show, and profile skills without the names that    *)
(* only projects hidden from the viewer have.                               *)
HiddenOnly(u, shown) == Names(OwnedBy(u) \ shown) \ Names(OwnedBy(u) \cap shown)
SkillMatrix(u, v) ==
    LET shown == ProjectsFor(u, v) \cup JoinedFor(u, v)
    IN  Names(shown) \cup (IF ProfileOpenTo(u, v) THEN ProfileSkills(u) \ HiddenOnly(u, shown) ELSE {})
Match(u, v) ==
    LET shown == (OwnedBy(u) \cup JoinedBy(u)) \cap ListPublic(v)
    IN  IF ProfileOpenTo(u, v)
        THEN Names(shown) \cup (ProfileSkills(u) \ HiddenOnly(u, ListPublic(v))) ELSE {}

(* The snapshot of a person, and what a recruiter sees of a candidate: the  *)
(* wraps only where the activity is open.                                  *)
Standing(u, v) == [projects |-> Cardinality(ProjectsFor(u, v)), tech |-> Names(ProjectsFor(u, v))]
WrapsOpen(u, v) == AudienceOpen(u, v, "activity_visibility")
CandidatePage(u, v) ==
    [ projects |-> ProjectsFor(u, v), joined |-> DOMAIN JoinedPage(u, v),
      standing |-> Standing(u, v), wraps |-> WrapsOpen(u, v) ]

-----------------------------------------------------------------------------
(* The handlers that change it.                                            *)
Synced(s, rows) == s \cup UNION {rows[p].tech : p \in {q \in Projects : rows[q] # Absent}}

UpdateMyProfile == /\ \/ profile' \in Settings /\ skills' = Synced(skills, project)
                      \/ \E s \in SUBSET Techs : skills' = Synced(s, project) /\ UNCHANGED profile
                   /\ UNCHANGED <<friends, project, posts>>

(* Connections.tla, as far as it is seen from here.                        *)
Connect(u) == friends' = friends \cup {u} /\ UNCHANGED <<profile, project, posts, skills>>
Disconnect(u) == friends' = friends \ {u} /\ UNCHANGED <<profile, project, posts, skills>>

(* The feed entry is written last and may fail.                            *)
CreateProject(p, public, tech) ==
    /\ project[p] = Absent
    /\ project' = [project EXCEPT ![p] = [public |-> public, tech |-> tech,
                                          access |-> [u \in Joiners |-> "none"]]]
    /\ skills' = Synced(skills, project')
    /\ posts' \in {posts, posts \cup {[author |-> Subject, about |-> p]}}
    /\ Cardinality(posts') <= MaxPosts
    /\ UNCHANGED <<profile, friends>>

UpdateProject(u, p, public, tech) ==
    /\ p \in Live /\ ProjectAccess(u, p).edit
    /\ u # Subject => public = project[p].public
    /\ project' = [project EXCEPT ![p].public = public, ![p].tech = tech]
    /\ skills' = Synced(skills, project')
    /\ UNCHANGED <<profile, friends, posts>>

DeleteProject(p) ==
    /\ p \in Live
    /\ project' = [project EXCEPT ![p] = Absent]
    /\ posts' = {a \in posts : a.about # p}
    /\ UNCHANGED <<profile, friends, skills>>

(* Collaboration.tla, as far as it is seen from here.                      *)
SetAccess(u, p, level) ==
    /\ p \in Live
    /\ project' = [project EXCEPT ![p].access[u] = level]
    /\ UNCHANGED <<profile, friends, posts, skills>>

(* Sharing a project takes being able to see it; any other post about it   *)
(* takes being of its team.                                                *)
CreatePost(u, p, share) ==
    /\ p \in Live
    /\ IF share THEN ProjectAccess(u, p).view ELSE Member(u, p)
    /\ posts' = posts \cup {[author |-> u, about |-> p]} /\ Cardinality(posts') <= MaxPosts
    /\ UNCHANGED <<profile, friends, project, skills>>
DeletePost(u, p) ==
    /\ [author |-> u, about |-> p] \in Feed(u)
    /\ posts' = posts \ {[author |-> u, about |-> p]}
    /\ UNCHANGED <<profile, friends, project, skills>>

Next == \/ UpdateMyProfile
        \/ \E u \in Others : Connect(u) \/ Disconnect(u)
        \/ \E p \in Projects : DeleteProject(p)
        \/ \E p \in Projects, public \in BOOLEAN, tech \in SUBSET Techs :
              \/ CreateProject(p, public, tech)
              \/ \E u \in {Subject} \cup Joiners : UpdateProject(u, p, public, tech)
        \/ \E u \in Joiners, p \in Projects :
              \/ \E level \in Access : SetAccess(u, p, level)
              \/ \E share \in BOOLEAN : CreatePost(u, p, share)
              \/ DeletePost(u, p)
Spec == Init /\ [][Next]_vars

-----------------------------------------------------------------------------
(* One rule decides everywhere.  For every viewer the project's own page,  *)
(* the SQL condition behind the lists, the feed and the counts, the files,  *)
(* the reports and the logs agree, and so does what the response says one   *)
(* may do; who follows sees every post of a connection about a project they *)
(* can open, and no post shows another project.                            *)
ProjectPagesAgree(v) ==
    /\ CanView(v) = OpensPage(v)
    /\ {CommentsPage(v), ReportPage(v), ProjectLog(v), Insights(v), FilesPage(v)} = {OpensPage(v)}
    /\ Refreshes(v) = {p \in Live : ProjectAccess(v, p).edit}
    /\ ListPublic(v) \subseteq OpensPage(v)
    /\ v # Nobody => \A p \in Live : ProjectAccess(v, p).comment = AddsComment(v, p)
    /\ \A e \in FeedPage(v) : e.post.about \in OpensPage(v) /\ e.tech \subseteq AnalysisPage(v)
    /\ v # Nobody => \A a \in posts :
           IsConnected(v, a.author) /\ a.about \in OpensPage(v) => a \in Following(v)

(* Of a person: no list, board, log or team shows a project whose page the  *)
(* viewer cannot open, everybody on a team that is shown can open it, the   *)
(* list of what they own leaves none out, every page counts the same, a     *)
(* profile is restricted everywhere or nowhere, and no page names a skill   *)
(* that the skill matrix hides, but the profile's own list.                *)
PeoplePagesAgree(u, v) ==
    LET candidate == CandidatePage(u, v)
        profilePage == ProfilePage(u, v)
    IN
    /\ GroupsFor(u, v) \cup Board(u, v) \cup PersonLog(u, v) \cup TeamLog(u, v)
           \cup candidate.projects \cup candidate.joined \subseteq OpensPage(v)
    /\ \A p \in DOMAIN JoinedPage(u, v) : \A m \in JoinedPage(u, v)[p] : p \in OpensPage(m)
    /\ OwnedPage(u, v) = OwnedBy(u) \cap OpensPage(v)
    /\ profilePage.counts = <<candidate.standing.projects, Cardinality(candidate.joined)>>
    /\ profilePage.restricted = ~ProfileOpenTo(u, v)
    /\ candidate.wraps = AudienceClause(u, "activity_visibility", v)
    /\ Match(u, v) \cup candidate.standing.tech \subseteq SkillMatrix(u, v)
    /\ SkillMatrix(u, v) \subseteq profilePage.skills \cup AnalysisPage(v)

OneRule == \A v \in Viewers : ProjectPagesAgree(v) /\ \A u \in People : PeoplePagesAgree(u, v)

(* Private projects never affect a number someone else can see: where the   *)
(* number of a person's activities is shown, it counts the activities the   *)
(* viewer could open (talent.py).                                           *)
CountsOpenOnly ==
    \A v \in Viewers, u \in People :
        u # v /\ AudienceOpen(u, v, "activity_visibility")
            => ActivityCount(u) = Cardinality({a \in Feed(v) : a.author = u})

(* Private work never shapes what others see (skill_matrix.py): a step that *)
(* leaves the person's settings, connections and profile skills alone shows *)
(* a viewer a new skill only from a project that viewer may open.           *)
ShowsOpenOnly ==
    \A v \in Viewers \ {Subject} : UNCHANGED <<profile, friends, skills>> =>
        SkillMatrix(Subject, v)' \subseteq SkillMatrix(Subject, v) \cup Names(OpensPage(v))'

(* A step keeps one of these promises at least; a step that keeps neither   *)
(* refutes both.                                                            *)
PrivateNeverAffects == [][CountsOpenOnly \/ ShowsOpenOnly]_vars
=============================================================================
