---------------------------- MODULE ProjectService ----------------------------
(***************************************************************************)
(* The projects of one workspace and their environments                    *)
(* (internal/service/project.go).  Creating a project and its default      *)
(* environments is one transaction; the check that the slug is free comes  *)
(* before it.  Deleting a project and adding an environment are single     *)
(* statements after an authorisation that may be outdated by then.         *)
(*                                                                         *)
(* An environment is the pair of its project and its name, which the       *)
(* database keeps unique; environments are never deleted.  A refused       *)
(* request changes nothing and is no step; methods that only read are left *)
(* out, and so are the columns name and description.                       *)
(***************************************************************************)
EXTENDS AccessRoles, FiniteSets

CONSTANTS
    Project,              \* ids a project may be given
    Slug,
    EnvName,
    DefaultEnvironments,  \* names every project starts with
    User,
    Role,                 \* role of each user in the workspace
    Request,              \* requests in flight at once
    None

VARIABLES
    projects,      \* table projects: slug and deleted_at, or None
    environments,  \* table environments
    pending,       \* rows a transaction has inserted and not committed
    pc,            \* next statement of each request
    call           \* its arguments and what it has read

projectVars == <<projects, environments, pending>>
callVars == <<pc, call>>

Environment == Project \X EnvName

ProjectRow == [slug : Slug, deleted : BOOLEAN]
NewProject == [id : Project, slug : Slug, names : SUBSET EnvName]

ASSUME ProjectServiceAssumption ==
    /\ DefaultEnvironments \subseteq EnvName
    /\ DefaultEnvironments # {}
    /\ Role \in [User -> Roles]
    /\ None \notin ProjectRow \cup NewProject

ProjectTypeOK ==
    /\ \A p \in Project : projects[p] \in ProjectRow \cup {None}
    /\ environments \subseteq Environment
    /\ \A r \in Request : pending[r] \in NewProject \cup {None}
    /\ \A r \in Request :
          pending[r] # None <=> pc[r] \in {"insertDefaults", "commit"}

\* A new workspace has no projects.
ProjectInit ==
    /\ projects = [p \in Project |-> None]
    /\ environments = {}
    /\ pending = [r \in Request |-> None]

-----------------------------------------------------------------------------
(* Authorisation and the steps every method is made of                     *)

IsLive(p) == projects[p] # None /\ ~projects[p].deleted

RequireWorkspaceRole(u, minimum) == AtLeast(Role[u], minimum)

\* A deleted project is not found.
RequireProjectRole(u, p, minimum) == IsLive(p) /\ AtLeast(Role[u], minimum)

Begin(r, label, args) ==
    /\ pc[r] = "idle"
    /\ pc' = [pc EXCEPT ![r] = label]
    /\ call' = [call EXCEPT ![r] = args]

Goto(r, label) ==
    /\ pc' = [pc EXCEPT ![r] = label]
    /\ UNCHANGED call

Finish(r) ==
    /\ pc' = [pc EXCEPT ![r] = "idle"]
    /\ call' = [call EXCEPT ![r] = None]

-----------------------------------------------------------------------------
(* Create                                                                  *)

ProjectSlugExists(slug) == \E p \in Project : IsLive(p) /\ projects[p].slug = slug

CreateProjectStart(r, u, slug) ==
    /\ RequireWorkspaceRole(u, "member")
    /\ ~ProjectSlugExists(slug)
    /\ Begin(r, "insertProject", [slug |-> slug])
    /\ UNCHANGED projectVars

\* Mutant: the unique index only looks at projects that are live.
LiveSlugTaken(slug) == ProjectSlugExists(slug)

\* UNIQUE (workspace_id, slug): a deleted project keeps its slug.
SlugTaken(slug) == \E p \in Project : projects[p] # None /\ projects[p].slug = slug

\* The insert waits for a transaction that has inserted the same slug.
SlugSettled(r, slug) ==
    \A q \in Request \ {r} : pending[q] # None => pending[q].slug # slug

UnusedIds ==
    {p \in Project : projects[p] = None
                       /\ \A q \in Request : pending[q] # None => pending[q].id # p}

InsertProject(r) ==
    /\ pc[r] = "insertProject"
    /\ SlugSettled(r, call[r].slug)
    /\ \/ /\ SlugTaken(call[r].slug)
          /\ Finish(r)
          /\ UNCHANGED projectVars
       \/ /\ ~SlugTaken(call[r].slug)
          /\ \E id \in UnusedIds :
                pending' = [pending EXCEPT
                    ![r] = [id |-> id, slug |-> call[r].slug, names |-> {}]]
          /\ Goto(r, "insertDefaults")
          /\ UNCHANGED <<projects, environments>>

\* Mutant: the project is committed after its first environment.
InsertFirstDefault(r) ==
    /\ pc[r] = "insertDefaults"
    /\ \E name \in DefaultEnvironments :
          pending' = [pending EXCEPT ![r].names = {name}]
    /\ Goto(r, "commit")
    /\ UNCHANGED <<projects, environments>>

\* One turn of the loop over DefaultEnvironments.
InsertDefault(r) ==
    /\ pc[r] = "insertDefaults"
    /\ \E name \in DefaultEnvironments \ pending[r].names :
          pending' = [pending EXCEPT ![r].names = @ \cup {name}]
    /\ Goto(r, IF pending'[r].names = DefaultEnvironments
               THEN "commit" ELSE "insertDefaults")
    /\ UNCHANGED <<projects, environments>>

CommitProject(r) ==
    LET new == pending[r] IN
    /\ pc[r] = "commit"
    /\ projects' = [projects EXCEPT ![new.id] = [slug |-> new.slug, deleted |-> FALSE]]
    /\ environments' = environments \cup ({new.id} \X new.names)
    /\ pending' = [pending EXCEPT ![r] = None]
    /\ Finish(r)

-----------------------------------------------------------------------------
(* Update, Delete and CreateEnvironment                                    *)

UpdateProjectStart(r, u, p) ==
    /\ RequireProjectRole(u, p, "admin")
    /\ Begin(r, "updateProject", [project |-> p])
    /\ UNCHANGED projectVars

\* The slug is immutable; a project deleted meanwhile is not found.
UpdateProject(r) ==
    /\ pc[r] = "updateProject"
    /\ Finish(r)
    /\ UNCHANGED projectVars

DeleteProjectStart(r, u, p) ==
    /\ RequireProjectRole(u, p, "owner")
    /\ Begin(r, "softDelete", [project |-> p])
    /\ UNCHANGED projectVars

SoftDeleteProject(r) ==
    /\ pc[r] = "softDelete"
    /\ projects' = [projects EXCEPT ![call[r].project].deleted = TRUE]
    /\ Finish(r)
    /\ UNCHANGED <<environments, pending>>

EnvironmentNameExists(p, name) == <<p, name>> \in environments

CreateEnvironmentStart(r, u, p, name) ==
    /\ RequireProjectRole(u, p, "admin")
    /\ ~EnvironmentNameExists(p, name)
    /\ Begin(r, "insertEnvironment", [project |-> p, name |-> name])
    /\ UNCHANGED projectVars

\* A name taken since the check is a conflict and changes nothing.
InsertEnvironment(r) ==
    /\ pc[r] = "insertEnvironment"
    /\ environments' = environments \cup {<<call[r].project, call[r].name>>}
    /\ Finish(r)
    /\ UNCHANGED <<projects, pending>>

\* The client goes away, the connection breaks or a query fails: an open
\* transaction is rolled back.
FailProject(r) ==
    /\ pc[r] # "idle"
    /\ pending' = [pending EXCEPT ![r] = None]
    /\ Finish(r)
    /\ UNCHANGED <<projects, environments>>

ProjectStep(r) ==
    \/ \E u \in User, slug \in Slug : CreateProjectStart(r, u, slug)
    \/ InsertProject(r)
    \/ InsertDefault(r)
    \/ CommitProject(r)
    \/ \E u \in User, p \in Project :
          UpdateProjectStart(r, u, p) \/ DeleteProjectStart(r, u, p)
    \/ UpdateProject(r)
    \/ SoftDeleteProject(r)
    \/ \E u \in User, p \in Project, name \in EnvName :
          CreateEnvironmentStart(r, u, p, name)
    \/ InsertEnvironment(r)
    \/ FailProject(r)

-----------------------------------------------------------------------------
(* Properties                                                              *)

\* "There is no window in which a project exists with no environments": as soon
\* as anybody can see a project it has all the default ones, although they are
\* inserted one by one and the request may die between two of them (Create).
ProjectsStartComplete ==
    \A p \in Project :
        projects[p] # None => {p} \X DefaultEnvironments \subseteq environments

\* A slug names one project for good, since it is in URLs and CI configuration:
\* neither two creations at the same time nor a creation after a deletion give
\* it to a second one (Create, UNIQUE (workspace_id, slug)).
SlugNamesOneProject ==
    \A p, q \in Project :
        projects[p] # None /\ projects[q] # None
          /\ projects[p].slug = projects[q].slug => p = q

\* Both: a project is complete and alone under its slug from the moment on which
\* anybody can see it, through racing creations, deletions and requests that die.
ProjectsAreWhole == ProjectsStartComplete /\ SlugNamesOneProject
=============================================================================
