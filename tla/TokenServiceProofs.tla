-------------------------- MODULE TokenServiceProofs --------------------------
(***************************************************************************)
(* Proofs about TokenService and ProjectService, for any number of         *)
(* requests in flight, projects, slugs, environments, tokens and networks. *)
(*                                                                         *)
(* Every statement of a request acts on what earlier ones have read.  IInv *)
(* adds to the promises what a request still knows when its next statement *)
(* runs (RequestOK), which stays true because the tables only grow         *)
(* (Grows): rows are not deleted, and a deletion, a revocation and an      *)
(* expiry are final.  Rows of open transactions collide with nothing       *)
(* (Uniq), and one request at most is about to report a revocation         *)
(* (Reports).                                                              *)
(***************************************************************************)
EXTENDS TokenService, FiniteSetTheorems, TLAPS

\* The arguments request r needs for its next statement.
CallTyped(r) ==
    \/ pc[r] = "idle" /\ call[r] = None
    \/ pc[r] \in {"insertProject", "insertDefaults", "commit"} /\ call[r] \in [slug : Slug]
    \/ pc[r] \in {"updateProject", "softDelete"} /\ call[r] \in [project : Project]
    \/ pc[r] = "insertEnvironment" /\ call[r] \in [project : Project, name : EnvName]
    \/ pc[r] = "insertToken" /\ call[r] \in NewToken
    \/ pc[r] \in {"revokeRow", "recordRevoked"} /\ call[r] \in [token : Token]
    \/ pc[r] = "authenticate" /\ call[r] \in Pull
    \/ pc[r] \in {"reserve", "pull", "touch"} /\ call[r] \in Pull /\ call[r].environment # None

\* The uncommitted rows of request r.
PendingTyped(r) ==
    /\ pending[r] \in NewProject \cup {None}
    /\ pending[r] # None <=> pc[r] \in {"insertDefaults", "commit"}
    /\ pc[r] = "commit" => pending[r].names = DefaultEnvironments

\* What request r knows from its own earlier statements.
RequestOK(r) ==
    /\ pc[r] \in {"softDelete", "insertEnvironment", "insertToken"} =>
         projects[call[r].project] # None
    /\ pc[r] = "insertToken" => call[r].environment[1] = call[r].project
    /\ pc[r] \in {"revokeRow", "recordRevoked", "authenticate", "reserve", "pull", "touch"} =>
         tokens[call[r].token] # None
    /\ pc[r] = "authenticate" /\ call[r].cut => CutOff(call[r].token)
    /\ pc[r] \in {"reserve", "pull"} => ~call[r].cut

TablesTyped ==
    /\ DOMAIN projects = Project /\ DOMAIN tokens = Token
    /\ DOMAIN pc = Request /\ DOMAIN call = Request /\ DOMAIN pending = Request
    /\ \A p \in Project : projects[p] \in ProjectRow \cup {None}
    /\ environments \subseteq Environment
    /\ \A t \in Token : tokens[t] \in TokenRow \cup {None}
    /\ expired \subseteq Token
    /\ reported \in [Token -> Nat]

\* A token reads an environment of its own project.
TokenOK(t) == tokens[t] # None =>
    /\ projects[tokens[t].project] # None
    /\ tokens[t].environment[1] = tokens[t].project

\* What is inserted and not committed has an id and a slug of its own.
Uniq ==
    /\ \A r \in Request : pending[r] # None =>
         /\ projects[pending[r].id] = None
         /\ \A p \in Project : projects[p] # None => projects[p].slug # pending[r].slug
    /\ \A r, q \in Request : r # q /\ pending[r] # None /\ pending[q] # None =>
         pending[r].id # pending[q].id /\ pending[r].slug # pending[q].slug

Recording(r, t) == pc[r] = "recordRevoked" /\ call[r].token = t

\* One event per revoked token: recorded, or about to be by one request, or lost
\* with it.
Reports(t) ==
    /\ reported[t] \in {0, 1}
    /\ reported[t] = 1 => tokens[t] # None /\ tokens[t].revoked
    /\ \A r \in Request : Recording(r, t) =>
         /\ reported[t] = 0 /\ tokens[t] # None /\ tokens[t].revoked
         /\ \A q \in Request : Recording(q, t) => q = r

IInv ==
    /\ TablesTyped
    /\ \A r \in Request : CallTyped(r) /\ PendingTyped(r) /\ RequestOK(r)
    /\ ProjectsAreWhole
    /\ Uniq
    /\ \A t \in Token : TokenOK(t) /\ Reports(t)

\* What no step undoes.
Grows ==
    /\ \A p \in Project : projects[p] # None =>
         /\ projects'[p] # None /\ projects'[p].slug = projects[p].slug
         /\ projects[p].deleted => projects'[p].deleted
    /\ environments \subseteq environments'
    /\ \A t \in Token : tokens[t] # None =>
         /\ tokens'[t] # None
         /\ tokens'[t].project = tokens[t].project
         /\ tokens'[t].environment = tokens[t].environment
         /\ tokens[t].revoked => tokens'[t].revoked
    /\ expired \subseteq expired'

-----------------------------------------------------------------------------
(* The tables only grow *)

LEMMA NoneIsNoRow ==
  /\ None \notin ProjectRow /\ None \notin NewProject
  /\ None \notin TokenRow /\ None \notin Environment
BY ProjectServiceAssumption, TokenServiceAssumption
   DEF ProjectServiceAssumption, TokenServiceAssumption

\* The statements of ProjectService that write: the insert of a committed
\* project is under an id nobody has.
LEMMA ProjectGrowth ==
  ASSUME IInv, NEW r \in Request, ProjectStep(r), UNCHANGED tokenVars
  PROVE  Grows
<1>1. /\ TablesTyped /\ CallTyped(r) /\ PendingTyped(r) /\ RequestOK(r) /\ Uniq
      /\ tokens' = tokens /\ expired' = expired
  BY DEF IInv, tokenVars
<1>2. CASE CommitProject(r)
  <2>1. pending[r] \in NewProject /\ projects[pending[r].id] = None
    BY <1>1, <1>2 DEF CommitProject, PendingTyped, Uniq
  <2>2. pending[r].id \in Project
    BY <2>1 DEF NewProject
  <2>3. \A p \in Project : projects[p] # None => projects'[p] = projects[p]
    BY <1>1, <1>2, <2>1, <2>2 DEF CommitProject, TablesTyped
  <2>4. environments \subseteq environments'
    BY <1>2 DEF CommitProject
  <2>5. QED
    BY <1>1, <2>3, <2>4 DEF Grows
<1>3. CASE SoftDeleteProject(r)
  <2> DEFINE p == call[r].project
  <2>1. p \in Project /\ projects[p] # None /\ projects[p] \in ProjectRow
    BY <1>1, <1>3 DEF SoftDeleteProject, CallTyped, RequestOK, TablesTyped
  <2>2. projects' = [projects EXCEPT ![p].deleted = TRUE] /\ environments' = environments
    BY <1>3 DEF SoftDeleteProject
  <2> HIDE DEF p
  <2>3. \A q \in Project : q # p => projects'[q] = projects[q]
    BY <1>1, <2>2 DEF TablesTyped
  <2>4. projects'[p] = [projects[p] EXCEPT !.deleted = TRUE]
    BY <1>1, <2>1, <2>2 DEF TablesTyped
  <2>5. projects'[p] \in ProjectRow
    BY <2>1, <2>4 DEF ProjectRow
  <2>6. projects'[p] # None /\ projects'[p].slug = projects[p].slug /\ projects'[p].deleted
    BY <2>1, <2>4, <2>5, NoneIsNoRow DEF ProjectRow
  <2>7. QED
    BY <1>1, <2>2, <2>3, <2>6 DEF Grows
<1>4. CASE InsertEnvironment(r)
  BY <1>1, <1>4 DEF InsertEnvironment, Grows
<1>5. CASE UNCHANGED projectVars
  BY <1>1, <1>5 DEF projectVars, Grows
<1>6. CASE UNCHANGED <<projects, environments>>
  BY <1>1, <1>6 DEF Grows
<1>7. QED
  BY <1>2, <1>3, <1>4, <1>5, <1>6
     DEF ProjectStep, CreateProjectStart, InsertProject, InsertDefault, UpdateProjectStart,
         DeleteProjectStart, UpdateProject, CreateEnvironmentStart, FailProject

\* The statements of TokenService that write: only a token that is there is
\* revoked or noted as used.
LEMMA TokenGrowth ==
  ASSUME IInv, NEW r \in Request, TokenStep(r)
  PROVE  Grows
<1>1. TablesTyped /\ CallTyped(r) /\ RequestOK(r)
  BY DEF IInv
<1>2. UNCHANGED projectVars /\ expired' = expired
  BY DEF TokenStep, CreateTokenStart, CreateAccessToken, RevokeStart, RevokeAccessToken,
         RecordRevoked, PullStart, Authenticate, Reserve, PullSecrets, Touch, tokenVars
<1>3. CASE CreateAccessToken(r)
  <2>1. \A t \in Token : tokens[t] # None => tokens'[t] = tokens[t]
    BY <1>1, <1>3 DEF CreateAccessToken, TablesTyped
  <2>2. QED
    BY <1>2, <2>1 DEF Grows, projectVars
<1>4. CASE RevokeAccessToken(r) /\ tokens' # tokens
  <2> DEFINE t == call[r].token
  <2>1. t \in Token /\ tokens[t] # None /\ tokens[t] \in TokenRow
    BY <1>1, <1>4 DEF RevokeAccessToken, CallTyped, RequestOK, TablesTyped
  <2>2. tokens' = [tokens EXCEPT ![t].revoked = TRUE]
    BY <1>4 DEF RevokeAccessToken
  <2> HIDE DEF t
  <2>3. \A k \in Token : k # t => tokens'[k] = tokens[k]
    BY <1>1, <2>2 DEF TablesTyped
  <2>4. tokens'[t] = [tokens[t] EXCEPT !.revoked = TRUE]
    BY <1>1, <2>1, <2>2 DEF TablesTyped
  <2>5. tokens'[t] \in TokenRow
    BY <2>1, <2>4 DEF TokenRow
  <2>6. /\ tokens'[t] # None /\ tokens'[t].project = tokens[t].project
        /\ tokens'[t].environment = tokens[t].environment /\ tokens'[t].revoked
    BY <2>1, <2>4, <2>5, NoneIsNoRow DEF TokenRow
  <2>7. QED
    BY <1>2, <2>3, <2>6 DEF Grows, projectVars
<1>5. CASE Touch(r)
  <2> DEFINE t == call[r].token
  <2>1. t \in Token /\ tokens[t] # None /\ tokens[t] \in TokenRow
    BY <1>1, <1>5 DEF Touch, CallTyped, Pull, RequestOK, TablesTyped
  <2>2. tokens' = [tokens EXCEPT ![t].used = TRUE]
    BY <1>5 DEF Touch
  <2> HIDE DEF t
  <2>3. \A k \in Token : k # t => tokens'[k] = tokens[k]
    BY <1>1, <2>2 DEF TablesTyped
  <2>4. tokens'[t] = [tokens[t] EXCEPT !.used = TRUE]
    BY <1>1, <2>1, <2>2 DEF TablesTyped
  <2>5. tokens'[t] \in TokenRow
    BY <2>1, <2>4 DEF TokenRow
  <2>6. /\ tokens'[t] # None /\ tokens'[t].project = tokens[t].project
        /\ tokens'[t].environment = tokens[t].environment
        /\ tokens'[t].revoked = tokens[t].revoked
    BY <2>1, <2>4, <2>5, NoneIsNoRow DEF TokenRow
  <2>7. QED
    BY <1>2, <2>3, <2>6 DEF Grows, projectVars
<1>6. CASE tokens' = tokens
  BY <1>2, <1>6 DEF Grows, projectVars
<1>7. QED
  BY <1>3, <1>4, <1>5, <1>6
     DEF TokenStep, CreateTokenStart, RevokeStart, RecordRevoked, PullStart, Authenticate,
         Reserve, PullSecrets, tokenVars

LEMMA Growth ==
  ASSUME IInv, Next
  PROVE  Grows
<1>1. ASSUME NEW t \in Token, Expire(t) PROVE Grows
  BY <1>1 DEF Expire, Grows, projectVars
<1>2. QED
  BY <1>1, ProjectGrowth, TokenGrowth DEF Next

-----------------------------------------------------------------------------
(* What the requests know *)

\* A request in flight is not disturbed by what other requests do meanwhile.
LEMMA Undisturbed ==
  ASSUME TablesTyped, NEW q \in Request, CallTyped(q), PendingTyped(q), RequestOK(q), Grows,
         \A t \in Token : TokenOK(t),
         UNCHANGED <<pc[q], call[q], pending[q]>>
  PROVE  CallTyped(q)' /\ PendingTyped(q)' /\ RequestOK(q)'
<1>1. CallTyped(q)' /\ PendingTyped(q)'
  BY DEF CallTyped, PendingTyped
<1>2. pc[q] \in {"softDelete", "insertEnvironment", "insertToken"} =>
        projects'[call[q].project] # None
  BY DEF CallTyped, NewToken, RequestOK, Grows
<1>3. pc[q] \in {"revokeRow", "recordRevoked", "authenticate", "reserve", "pull", "touch"} =>
        call[q].token \in Token /\ tokens[call[q].token] # None /\ tokens'[call[q].token] # None
  BY DEF CallTyped, Pull, RequestOK, Grows
<1>4. ASSUME NEW t \in Token, tokens[t] # None, CutOff(t) PROVE CutOff(t)'
  <2> DEFINE p == tokens[t].environment[1]
  <2>1. /\ tokens'[t] # None /\ tokens'[t].environment = tokens[t].environment
        /\ tokens[t].revoked => tokens'[t].revoked
        /\ t \in expired => t \in expired'
    BY <1>4 DEF Grows
  <2>2. p \in Project /\ projects[p] # None
    BY <1>4 DEF TokenOK, TablesTyped, TokenRow
  <2>3. IsLive(p)' => IsLive(p)
    <3> HIDE DEF p
    <3>1. /\ projects'[p] # None
          /\ projects[p].deleted => projects'[p].deleted
      BY <2>2 DEF Grows
    <3>2. p' = p
      BY <2>1 DEF p
    <3>3. QED
      BY <2>2, <3>1, <3>2 DEF IsLive
  <2>4. QED
    BY <1>4, <2>1, <2>3 DEF CutOff, Active
<1>5. pc[q] = "authenticate" /\ call[q].cut => CutOff(call[q].token)'
  BY <1>3, <1>4 DEF RequestOK
<1>6. QED
  BY <1>1, <1>2, <1>3, <1>5 DEF RequestOK

LEMMA OthersAreLeftAlone ==
  ASSUME TablesTyped, NEW r \in Request,
         (ProjectStep(r) /\ UNCHANGED tokenVars) \/ TokenStep(r),
         NEW q \in Request, q # r
  PROVE  UNCHANGED <<pc[q], call[q], pending[q]>>
<1>1. CASE ProjectStep(r)
  BY <1>1 DEF TablesTyped, ProjectStep, CreateProjectStart, InsertProject, InsertDefault,
              CommitProject, UpdateProjectStart, DeleteProjectStart, UpdateProject,
              SoftDeleteProject, CreateEnvironmentStart, InsertEnvironment, FailProject,
              Begin, Goto, Finish, projectVars
<1>2. CASE TokenStep(r)
  BY <1>2 DEF TablesTyped, TokenStep, CreateTokenStart, CreateAccessToken, RevokeStart,
              RevokeAccessToken, RecordRevoked, PullStart, Authenticate, Reserve,
              PullSecrets, Touch, Begin, Goto, Finish, projectVars
<1>3. QED
  BY <1>1, <1>2

\* The request's own step in ProjectService.
LEMMA OwnProjectStep ==
  ASSUME IInv, NEW r \in Request, ProjectStep(r), UNCHANGED tokenVars
  PROVE  CallTyped(r)' /\ PendingTyped(r)' /\ RequestOK(r)'
<1>1. /\ TablesTyped /\ CallTyped(r) /\ PendingTyped(r) /\ RequestOK(r)
  BY DEF IInv
<1>2. ASSUME Finish(r), pending'[r] = None PROVE CallTyped(r)' /\ PendingTyped(r)' /\ RequestOK(r)'
  <2>1. pc'[r] = "idle" /\ call'[r] = None
    BY <1>1, <1>2 DEF Finish, TablesTyped
  <2>2. QED
    BY <1>2, <2>1 DEF CallTyped, PendingTyped, RequestOK
<1>3. ASSUME NEW u \in User, NEW slug \in Slug, CreateProjectStart(r, u, slug)
      PROVE  CallTyped(r)' /\ PendingTyped(r)' /\ RequestOK(r)'
  <2>1. /\ pc[r] = "idle" /\ pc'[r] = "insertProject" /\ call'[r] = [slug |-> slug]
        /\ pending'[r] = pending[r]
    BY <1>1, <1>3 DEF CreateProjectStart, Begin, TablesTyped, projectVars
  <2>2. QED
    BY <1>1, <2>1 DEF CallTyped, PendingTyped, RequestOK
<1>4. ASSUME NEW u \in User, NEW p \in Project,
             UpdateProjectStart(r, u, p) \/ DeleteProjectStart(r, u, p)
      PROVE  CallTyped(r)' /\ PendingTyped(r)' /\ RequestOK(r)'
  <2>1. /\ pc[r] = "idle" /\ pc'[r] \in {"updateProject", "softDelete"}
        /\ call'[r] = [project |-> p] /\ pending'[r] = pending[r]
        /\ projects[p] # None /\ projects' = projects
    BY <1>1, <1>4 DEF UpdateProjectStart, DeleteProjectStart, RequireProjectRole, IsLive,
                      Begin, TablesTyped, projectVars
  <2>2. QED
    BY <1>1, <2>1 DEF CallTyped, PendingTyped, RequestOK
<1>5. ASSUME NEW u \in User, NEW p \in Project, NEW name \in EnvName,
             CreateEnvironmentStart(r, u, p, name)
      PROVE  CallTyped(r)' /\ PendingTyped(r)' /\ RequestOK(r)'
  <2>1. /\ pc[r] = "idle" /\ pc'[r] = "insertEnvironment"
        /\ call'[r] = [project |-> p, name |-> name] /\ pending'[r] = pending[r]
        /\ projects[p] # None /\ projects' = projects
    BY <1>1, <1>5 DEF CreateEnvironmentStart, RequireProjectRole, IsLive, Begin, TablesTyped,
                      projectVars
  <2>2. QED
    BY <1>1, <2>1 DEF CallTyped, PendingTyped, RequestOK
<1>6. CASE InsertProject(r)
  <2>1. pc[r] = "insertProject" /\ pending[r] = None /\ call[r] \in [slug : Slug]
    BY <1>1, <1>6 DEF InsertProject, CallTyped, PendingTyped
  <2>2. CASE Finish(r) /\ UNCHANGED projectVars
    BY <1>2, <2>1, <2>2 DEF projectVars
  <2>3. CASE ~SlugTaken(call[r].slug) /\ ~(Finish(r) /\ UNCHANGED projectVars)
    <3>1. PICK id \in UnusedIds :
            pending' = [pending EXCEPT ![r] = [id |-> id, slug |-> call[r].slug, names |-> {}]]
      BY <1>6, <2>3 DEF InsertProject
    <3>2. pc'[r] = "insertDefaults" /\ call'[r] = call[r]
      BY <1>1, <1>6, <2>3 DEF InsertProject, Goto, TablesTyped
    <3>3. pending'[r] \in NewProject
      BY <1>1, <2>1, <3>1 DEF UnusedIds, NewProject, TablesTyped
    <3>4. QED
      BY <2>1, <3>2, <3>3, NoneIsNoRow DEF CallTyped, PendingTyped, RequestOK
  <2>4. QED
    BY <1>6, <2>2, <2>3 DEF InsertProject
<1>7. CASE InsertDefault(r)
  <2>1. pc[r] = "insertDefaults" /\ pending[r] \in NewProject /\ call[r] \in [slug : Slug]
    BY <1>1, <1>7 DEF InsertDefault, CallTyped, PendingTyped
  <2>2. PICK name \in DefaultEnvironments :
          pending' = [pending EXCEPT ![r].names = @ \cup {name}]
    BY <1>7 DEF InsertDefault
  <2>3. pending'[r] = [pending[r] EXCEPT !.names = @ \cup {name}]
    BY <1>1, <2>2 DEF TablesTyped
  <2>4. name \in EnvName
    BY ProjectServiceAssumption DEF ProjectServiceAssumption
  <2>5. pending'[r] \in NewProject
    BY <2>1, <2>3, <2>4 DEF NewProject
  <2>6. /\ pc'[r] = IF pending'[r].names = DefaultEnvironments THEN "commit" ELSE "insertDefaults"
        /\ call'[r] = call[r]
    BY <1>1, <1>7 DEF InsertDefault, Goto, TablesTyped
  <2>7. QED
    BY <2>1, <2>5, <2>6, NoneIsNoRow DEF CallTyped, PendingTyped, RequestOK
<1>8. CASE CommitProject(r) \/ FailProject(r)
  BY <1>1, <1>2, <1>8 DEF CommitProject, FailProject, TablesTyped
<1>9. CASE UpdateProject(r) \/ SoftDeleteProject(r) \/ InsertEnvironment(r)
  <2>1. pending'[r] = pending[r] /\ Finish(r)
    BY <1>9 DEF UpdateProject, SoftDeleteProject, InsertEnvironment, projectVars
  <2>2. pending[r] = None
    BY <1>1, <1>9 DEF UpdateProject, SoftDeleteProject, InsertEnvironment, PendingTyped
  <2>3. QED
    BY <1>2, <2>1, <2>2
<1>10. QED
  BY <1>3, <1>4, <1>5, <1>6, <1>7, <1>8, <1>9 DEF ProjectStep

\* The request's own step in TokenService.  Authenticate is where a cut is
\* noticed: the query joins the project the environment belongs to.
LEMMA OwnTokenStep ==
  ASSUME IInv, NEW r \in Request, TokenStep(r)
  PROVE  CallTyped(r)' /\ PendingTyped(r)' /\ RequestOK(r)'
<1>1. /\ TablesTyped /\ CallTyped(r) /\ PendingTyped(r) /\ RequestOK(r)
      /\ \A t \in Token : TokenOK(t)
      /\ Grows
  BY TokenGrowth DEF IInv
<1>2. pending' = pending /\ projects' = projects
  BY DEF TokenStep, CreateTokenStart, CreateAccessToken, RevokeStart, RevokeAccessToken,
         RecordRevoked, PullStart, Authenticate, Reserve, PullSecrets, Touch, projectVars
<1>3. /\ pc[r] \notin {"insertDefaults", "commit"} /\ pc'[r] \notin {"insertDefaults", "commit"}
  BY <1>1 DEF TablesTyped, TokenStep, CreateTokenStart, CreateAccessToken, RevokeStart,
         RevokeAccessToken, RecordRevoked, PullStart, Authenticate, Reserve, PullSecrets,
         Touch, Begin, Goto, Finish
<1>4. PendingTyped(r)'
  BY <1>1, <1>2, <1>3 DEF PendingTyped
<1>5. ASSUME Finish(r) PROVE CallTyped(r)' /\ RequestOK(r)'
  <2>1. pc'[r] = "idle" /\ call'[r] = None
    BY <1>1, <1>5 DEF Finish, TablesTyped
  <2>2. QED
    BY <2>1 DEF CallTyped, RequestOK
<1>6. ASSUME NEW u \in User, NEW p \in Project, NEW e \in Environment, NEW k \in Kinds,
             CreateTokenStart(r, u, [project |-> p, environment |-> e, kind |-> k])
      PROVE  CallTyped(r)' /\ RequestOK(r)'
  <2> DEFINE new == [project |-> p, environment |-> e, kind |-> k]
  <2>1. new \in NewToken /\ new.project = p /\ new.environment = e
    BY TokenServiceAssumption DEF TokenServiceAssumption, NewToken
  <2>2. e[1] = p /\ projects[p] # None
    BY <1>6 DEF CreateTokenStart, ResolveEnvironment, RequireProjectRole, IsLive
  <2>3. pc'[r] = "insertToken" /\ call'[r] = new
    BY <1>1, <1>6 DEF CreateTokenStart, Begin, TablesTyped
  <2> HIDE DEF new
  <2>4. QED
    BY <1>2, <2>1, <2>2, <2>3 DEF CallTyped, RequestOK
<1>7. ASSUME NEW u \in User, NEW t \in Token, RevokeStart(r, u, t)
      PROVE  CallTyped(r)' /\ RequestOK(r)'
  <2>1. /\ pc'[r] = "revokeRow" /\ call'[r] = [token |-> t] /\ tokens[t] # None
        /\ tokens' = tokens
    BY <1>1, <1>7 DEF RevokeStart, Begin, TablesTyped, tokenVars
  <2>2. QED
    BY <2>1 DEF CallTyped, RequestOK
<1>8. CASE RevokeAccessToken(r) /\ ~Finish(r)
  <2>1. pc[r] = "revokeRow" /\ pc'[r] = "recordRevoked" /\ call'[r] = call[r]
    BY <1>1, <1>8 DEF RevokeAccessToken, Goto, TablesTyped
  <2>2. call[r] \in [token : Token] /\ tokens[call[r].token] # None
    BY <1>1, <2>1 DEF CallTyped, RequestOK
  <2>3. tokens'[call[r].token] # None
    BY <1>1, <2>2 DEF Grows
  <2>4. QED
    BY <1>4, <2>1, <2>2, <2>3 DEF CallTyped, RequestOK
<1>9. ASSUME NEW t \in Token, NEW network \in Network, PullStart(r, t, network)
      PROVE  CallTyped(r)' /\ RequestOK(r)'
  <2> DEFINE new == [token |-> t, network |-> network, cut |-> CutOff(t),
                     environment |-> None, scopes |-> {}]
  <2>1. new \in Pull /\ new.token = t
    BY DEF Pull, CutOff
  <2>2. new.cut => CutOff(t)
    OBVIOUS
  <2>3. pc'[r] = "authenticate" /\ call'[r] = new /\ tokens[t] # None /\ UNCHANGED <<tokens, expired>>
    BY <1>1, <1>9 DEF PullStart, Begin, TablesTyped, tokenVars
  <2>4. CutOff(t) <=> CutOff(t)'
    BY <1>2, <2>3 DEF CutOff, Active, IsLive
  <2> HIDE DEF new
  <2>5. QED
    BY <2>1, <2>2, <2>3, <2>4 DEF CallTyped, RequestOK
<1>10. CASE Authenticate(r) /\ ~Finish(r)
  <2> DEFINE t == call[r].token
  <2>1. /\ pc[r] = "authenticate" /\ call[r] \in Pull /\ t \in Token /\ tokens[t] # None
        /\ GetAccessTokenByHash(t) /\ Active(t) /\ tokens' = tokens
        /\ call[r].cut => CutOff(t)
    BY <1>1, <1>10 DEF Authenticate, CallTyped, RequestOK, Pull, tokenVars
  <2>2. ~CutOff(t)
    BY <1>1, <2>1 DEF CutOff, GetAccessTokenByHash, TokenOK
  <2>3. tokens[t] \in TokenRow
    BY <1>1, <2>1 DEF TablesTyped
  <2>4. pc'[r] = "reserve" /\ call'[r] = [call[r] EXCEPT !.environment = tokens[t].environment,
                                                        !.scopes = tokens[t].kind.scopes]
    BY <1>1, <1>10 DEF Authenticate, TablesTyped
  <2>5. call'[r] \in Pull /\ call'[r].token = t /\ call'[r].cut = call[r].cut
        /\ call'[r].environment \in Environment
    <3> HIDE DEF t
    <3>1. tokens[t].environment \in Environment /\ tokens[t].kind.scopes \in SUBSET TokenScopes
      BY <2>3 DEF TokenRow, Kind
    <3>2. QED
      BY <2>1, <2>4, <3>1 DEF Pull, t
  <2>6. pc'[r] = "reserve" /\ call'[r].environment # None /\ tokens'[call'[r].token] # None
    BY <2>1, <2>4, <2>5, NoneIsNoRow
  <2>7. ~call'[r].cut
    BY <2>1, <2>2, <2>5
  <2>8. QED
    BY <1>4, <2>5, <2>6, <2>7 DEF CallTyped, RequestOK
<1>11. CASE (Reserve(r) \/ PullSecrets(r)) /\ ~Finish(r)
  <2>1. /\ pc[r] \in {"reserve", "pull"} /\ pc'[r] \in {"pull", "touch"}
        /\ call'[r] = call[r] /\ tokens' = tokens
    BY <1>1, <1>11 DEF Reserve, PullSecrets, Goto, TablesTyped, tokenVars
  <2>2. /\ call[r] \in Pull /\ call[r].environment # None /\ ~call[r].cut
        /\ tokens[call[r].token] # None
    BY <1>1, <2>1 DEF CallTyped, RequestOK
  <2>3. QED
    BY <1>4, <2>1, <2>2 DEF CallTyped, RequestOK
<1>12. CASE CreateAccessToken(r) \/ RecordRevoked(r) \/ Touch(r)
  BY <1>4, <1>5, <1>12 DEF CreateAccessToken, RecordRevoked, Touch
<1>13. QED
  BY <1>4, <1>5, <1>6, <1>7, <1>8, <1>9, <1>10, <1>11, <1>12 DEF TokenStep

-----------------------------------------------------------------------------
(* The tables *)

LEMMA ProjectTables ==
  ASSUME IInv, NEW r \in Request, ProjectStep(r), UNCHANGED tokenVars
  PROVE  TablesTyped'
<1>1. TablesTyped /\ CallTyped(r) /\ PendingTyped(r) /\ RequestOK(r)
  BY DEF IInv
<1>2. /\ DOMAIN projects' = Project /\ DOMAIN pc' = Request /\ DOMAIN call' = Request
      /\ DOMAIN pending' = Request
  BY <1>1 DEF TablesTyped, ProjectStep, CreateProjectStart, InsertProject, InsertDefault,
              CommitProject, UpdateProjectStart, DeleteProjectStart, UpdateProject,
              SoftDeleteProject, CreateEnvironmentStart, InsertEnvironment, FailProject,
              Begin, Goto, Finish, projectVars
<1>3. CASE CommitProject(r)
  <2>1. pending[r] \in NewProject
    BY <1>1, <1>3 DEF CommitProject, PendingTyped
  <2>2. pending[r].id \in Project /\ pending[r].slug \in Slug /\ pending[r].names \subseteq EnvName
    BY <2>1 DEF NewProject
  <2>3. [slug |-> pending[r].slug, deleted |-> FALSE] \in ProjectRow
    BY <2>2 DEF ProjectRow
  <2>4. \A p \in Project : projects'[p] \in ProjectRow \cup {None}
    BY <1>1, <1>3, <2>2, <2>3 DEF CommitProject, TablesTyped
  <2>5. environments' \subseteq Environment
    BY <1>1, <1>3, <2>2 DEF CommitProject, TablesTyped, Environment
  <2>6. QED
    BY <1>1, <1>2, <2>4, <2>5 DEF TablesTyped, tokenVars
<1>4. CASE SoftDeleteProject(r)
  <2> DEFINE p == call[r].project
  <2>1. p \in Project /\ projects[p] # None /\ projects[p] \in ProjectRow
    BY <1>1, <1>4 DEF SoftDeleteProject, CallTyped, RequestOK, TablesTyped
  <2>2. projects' = [projects EXCEPT ![p].deleted = TRUE] /\ environments' = environments
    BY <1>4 DEF SoftDeleteProject
  <2> HIDE DEF p
  <2>3. \A q \in Project : q # p => projects'[q] = projects[q]
    BY <1>1, <2>2 DEF TablesTyped
  <2>4. projects'[p] = [projects[p] EXCEPT !.deleted = TRUE]
    BY <1>1, <2>1, <2>2 DEF TablesTyped
  <2>5. projects'[p] \in ProjectRow
    BY <2>1, <2>4 DEF ProjectRow
  <2>6. QED
    BY <1>1, <1>2, <2>2, <2>3, <2>5 DEF TablesTyped, tokenVars
<1>5. CASE InsertEnvironment(r)
  <2>1. call[r].project \in Project /\ call[r].name \in EnvName
    BY <1>1, <1>5 DEF InsertEnvironment, CallTyped
  <2>2. environments' \subseteq Environment
    BY <1>1, <1>5, <2>1 DEF InsertEnvironment, TablesTyped, Environment
  <2>3. QED
    BY <1>1, <1>2, <1>5, <2>2 DEF InsertEnvironment, TablesTyped, tokenVars
<1>6. CASE UNCHANGED <<projects, environments>>
  BY <1>1, <1>2, <1>6 DEF TablesTyped, tokenVars
<1>7. QED
  BY <1>3, <1>4, <1>5, <1>6
     DEF ProjectStep, CreateProjectStart, InsertProject, InsertDefault, UpdateProjectStart,
         DeleteProjectStart, UpdateProject, CreateEnvironmentStart, FailProject, projectVars

LEMMA TokenTables ==
  ASSUME IInv, NEW r \in Request, TokenStep(r)
  PROVE  TablesTyped' /\ \A t \in Token : TokenOK(t)'
<1>1. /\ TablesTyped /\ CallTyped(r) /\ RequestOK(r) /\ \A t \in Token : TokenOK(t)
  BY DEF IInv
<1>2. UNCHANGED projectVars /\ expired' = expired
  BY DEF TokenStep, CreateTokenStart, CreateAccessToken, RevokeStart, RevokeAccessToken,
         RecordRevoked, PullStart, Authenticate, Reserve, PullSecrets, Touch, tokenVars
<1>3. DOMAIN tokens' = Token /\ DOMAIN pc' = Request /\ DOMAIN call' = Request
  BY <1>1 DEF TablesTyped, TokenStep, CreateTokenStart, CreateAccessToken, RevokeStart,
              RevokeAccessToken, RecordRevoked, PullStart, Authenticate, Reserve, PullSecrets,
              Touch, Begin, Goto, Finish, tokenVars
<1>4. reported' \in [Token -> Nat]
  <2>1. CASE RecordRevoked(r)
    <3>1. call[r].token \in Token
      BY <1>1, <2>1 DEF RecordRevoked, CallTyped
    <3>2. reported[call[r].token] + 1 \in Nat
      BY <1>1, <3>1 DEF TablesTyped
    <3>3. QED
      BY <1>1, <2>1, <3>1, <3>2 DEF RecordRevoked, TablesTyped
  <2>2. CASE reported' = reported
    BY <1>1, <2>2 DEF TablesTyped
  <2>3. QED
    BY <2>1, <2>2 DEF TokenStep, CreateTokenStart, CreateAccessToken, RevokeStart,
       RevokeAccessToken, PullStart, Authenticate, Reserve, PullSecrets, Touch, tokenVars
<1>5. ASSUME NEW t \in Token
      PROVE  tokens'[t] \in TokenRow \cup {None} /\ TokenOK(t)'
  <2>1. tokens[t] \in TokenRow \cup {None} /\ TokenOK(t)
    BY <1>1 DEF TablesTyped
  <2>2. CASE tokens'[t] = tokens[t]
    BY <1>2, <2>1, <2>2 DEF TokenOK, projectVars
  <2>3. CASE CreateAccessToken(r) /\ tokens'[t] # tokens[t]
    <3> DEFINE new == [project |-> call[r].project, environment |-> call[r].environment,
                       kind |-> call[r].kind, revoked |-> FALSE, used |-> FALSE]
    <3>1. tokens'[t] = new
      BY <1>1, <2>3 DEF CreateAccessToken, TablesTyped
    <3>2. /\ call[r] \in NewToken /\ projects[call[r].project] # None
          /\ call[r].environment[1] = call[r].project
      BY <1>1, <2>3 DEF CreateAccessToken, CallTyped, RequestOK
    <3>3. new \in TokenRow /\ new.project = call[r].project /\ new.environment = call[r].environment
      BY <3>2 DEF NewToken, TokenRow
    <3> HIDE DEF new
    <3>4. QED
      BY <1>2, <3>1, <3>2, <3>3 DEF TokenOK, projectVars
  <2>4. CASE RevokeAccessToken(r) /\ tokens'[t] # tokens[t]
    <3>1. t = call[r].token /\ tokens' = [tokens EXCEPT ![t].revoked = TRUE]
      BY <1>1, <2>4 DEF RevokeAccessToken, TablesTyped
    <3>2. tokens'[t] = [tokens[t] EXCEPT !.revoked = TRUE] /\ tokens[t] # None
      BY <1>1, <2>4, <3>1 DEF RevokeAccessToken, RequestOK, TablesTyped
    <3>3. /\ tokens'[t] \in TokenRow /\ tokens'[t].project = tokens[t].project
          /\ tokens'[t].environment = tokens[t].environment
      BY <2>1, <3>2 DEF TokenRow
    <3>4. QED
      BY <1>2, <2>1, <3>2, <3>3 DEF TokenOK, projectVars
  <2>5. CASE Touch(r) /\ tokens'[t] # tokens[t]
    <3>1. t = call[r].token /\ tokens' = [tokens EXCEPT ![t].used = TRUE]
      BY <1>1, <2>5 DEF Touch, TablesTyped
    <3>2. tokens'[t] = [tokens[t] EXCEPT !.used = TRUE] /\ tokens[t] # None
      BY <1>1, <2>5, <3>1 DEF Touch, RequestOK, TablesTyped
    <3>3. /\ tokens'[t] \in TokenRow /\ tokens'[t].project = tokens[t].project
          /\ tokens'[t].environment = tokens[t].environment
      BY <2>1, <3>2 DEF TokenRow
    <3>4. QED
      BY <1>2, <2>1, <3>2, <3>3 DEF TokenOK, projectVars
  <2>6. QED
    BY <2>2, <2>3, <2>4, <2>5
       DEF TokenStep, CreateTokenStart, RevokeStart, RecordRevoked, PullStart, Authenticate,
           Reserve, PullSecrets, tokenVars
<1>6. QED
  BY <1>1, <1>2, <1>3, <1>4, <1>5 DEF TablesTyped, projectVars

\* What a creation has inserted stays apart from everything else until and
\* after it commits.
LEMMA Apart ==
  ASSUME IInv, NEW r \in Request, ProjectStep(r), UNCHANGED tokenVars
  PROVE  Uniq' /\ ProjectsAreWhole'
<1>1. /\ TablesTyped /\ CallTyped(r) /\ \A q \in Request : PendingTyped(q)
      /\ RequestOK(r) /\ Uniq /\ Grows
      /\ ProjectsStartComplete /\ SlugNamesOneProject
  BY ProjectGrowth DEF IInv, ProjectsAreWhole
<1>2. CASE InsertProject(r) /\ pending' # pending
  <2>1. /\ \A q \in Request \ {r} : pending[q] # None => pending[q].slug # call[r].slug
        /\ \A p \in Project : projects[p] # None => projects[p].slug # call[r].slug
        /\ UNCHANGED <<projects, environments>>
    BY <1>2 DEF InsertProject, SlugSettled, SlugTaken, projectVars
  <2>2. PICK id \in UnusedIds :
          pending' = [pending EXCEPT ![r] = [id |-> id, slug |-> call[r].slug, names |-> {}]]
    BY <1>2 DEF InsertProject, projectVars
  <2>3. /\ pending'[r].id = id /\ pending'[r].slug = call[r].slug
        /\ \A q \in Request \ {r} : pending'[q] = pending[q]
    BY <1>1, <2>2 DEF TablesTyped
  <2>4. projects[id] = None /\ \A q \in Request : pending[q] # None => pending[q].id # id
    BY DEF UnusedIds
  <2>5. Uniq'
    BY <1>1, <2>1, <2>3, <2>4 DEF Uniq
  <2>6. QED
    BY <1>1, <2>1, <2>5 DEF ProjectsAreWhole, ProjectsStartComplete, SlugNamesOneProject
<1>3. CASE InsertDefault(r)
  <2>1. PICK name \in DefaultEnvironments :
          pending' = [pending EXCEPT ![r].names = @ \cup {name}]
    BY <1>3 DEF InsertDefault
  <2>2. pending[r] \in NewProject /\ pending[r] # None
    BY <1>1, <1>3 DEF InsertDefault, PendingTyped
  <2>3. pending'[r] = [pending[r] EXCEPT !.names = @ \cup {name}]
    BY <1>1, <2>1 DEF TablesTyped
  <2>4. pending'[r].id = pending[r].id /\ pending'[r].slug = pending[r].slug
    BY <2>2, <2>3 DEF NewProject
  <2>5. \A q \in Request \ {r} : pending'[q] = pending[q]
    BY <1>1, <2>1 DEF TablesTyped
  <2>6. UNCHANGED <<projects, environments>>
    BY <1>3 DEF InsertDefault
  <2>7. Uniq'
    BY <1>1, <2>2, <2>4, <2>5, <2>6 DEF Uniq
  <2>8. QED
    BY <1>1, <2>6, <2>7 DEF ProjectsAreWhole, ProjectsStartComplete, SlugNamesOneProject
<1>4. CASE CommitProject(r)
  <2> DEFINE new == pending[r]
  <2>1. /\ new # None /\ new \in NewProject /\ new.names = DefaultEnvironments
    BY <1>1, <1>4 DEF CommitProject, PendingTyped
  <2>2. /\ projects' = [projects EXCEPT ![new.id] = [slug |-> new.slug, deleted |-> FALSE]]
        /\ environments' = environments \cup ({new.id} \X new.names)
        /\ pending' = [pending EXCEPT ![r] = None]
    BY <1>4 DEF CommitProject
  <2>3. /\ projects[new.id] = None
        /\ \A p \in Project : projects[p] # None => projects[p].slug # new.slug
        /\ \A q \in Request : q # r /\ pending[q] # None =>
             pending[q].id # new.id /\ pending[q].slug # new.slug
    BY <1>1, <2>1 DEF Uniq
  <2>4. new.id \in Project
    BY <2>1 DEF NewProject
  <2> HIDE DEF new
  <2>5. /\ projects'[new.id].slug = new.slug
        /\ \A p \in Project : p # new.id => projects'[p] = projects[p]
    BY <1>1, <2>2, <2>4 DEF TablesTyped
  <2>6. pending'[r] = None /\ \A q \in Request : q # r => pending'[q] = pending[q]
    BY <1>1, <2>2 DEF TablesTyped
  <2>7. Uniq'
    <3>1. \A q \in Request : pending[q] # None => pending[q].id \in Project
      BY <1>1 DEF PendingTyped, NewProject
    <3>2. \A q \in Request : pending'[q] # None =>
            projects'[pending'[q].id] = None
      BY <1>1, <2>3, <2>5, <2>6, <3>1 DEF Uniq
    <3>3. \A q \in Request : pending'[q] # None =>
            \A p \in Project : projects'[p] # None => projects'[p].slug # pending'[q].slug
      BY <1>1, <2>3, <2>5, <2>6 DEF Uniq
    <3>4. QED
      BY <1>1, <2>6, <3>2, <3>3 DEF Uniq
  <2>8. SlugNamesOneProject'
    BY <1>1, <2>3, <2>5 DEF SlugNamesOneProject
  <2>9. ProjectsStartComplete'
    BY <1>1, <2>1, <2>2, <2>5 DEF ProjectsStartComplete
  <2>10. QED
    BY <2>7, <2>8, <2>9 DEF ProjectsAreWhole
<1>5. CASE SoftDeleteProject(r) \/ InsertEnvironment(r)
  <2>1. pending' = pending /\ environments \subseteq environments'
    BY <1>5 DEF SoftDeleteProject, InsertEnvironment
  <2>2. \A p \in Project : projects[p] = None => projects'[p] = None
    BY <1>1, <1>5 DEF SoftDeleteProject, InsertEnvironment, RequestOK, TablesTyped
  <2>3. \A p \in Project : projects'[p] # None =>
          projects[p] # None /\ projects'[p].slug = projects[p].slug
    BY <1>1, <2>2 DEF Grows
  <2>4. \A q \in Request : pending[q] # None => pending[q].id \in Project
    BY <1>1 DEF PendingTyped, NewProject
  <2>5. Uniq'
    BY <1>1, <2>1, <2>2, <2>3, <2>4 DEF Uniq
  <2>6. QED
    BY <1>1, <2>1, <2>3, <2>5 DEF ProjectsAreWhole, ProjectsStartComplete, SlugNamesOneProject
<1>6. CASE FailProject(r)
  <2>1. /\ pending'[r] = None /\ \A q \in Request : q # r => pending'[q] = pending[q]
        /\ UNCHANGED <<projects, environments>>
    BY <1>1, <1>6 DEF FailProject, TablesTyped
  <2>2. Uniq'
    BY <1>1, <2>1 DEF Uniq
  <2>3. QED
    BY <1>1, <2>1, <2>2 DEF ProjectsAreWhole, ProjectsStartComplete, SlugNamesOneProject
<1>7. CASE UNCHANGED projectVars
  BY <1>1, <1>7 DEF projectVars, Uniq, ProjectsAreWhole, ProjectsStartComplete, SlugNamesOneProject
<1>8. QED
  BY <1>2, <1>3, <1>4, <1>5, <1>6, <1>7
     DEF ProjectStep, CreateProjectStart, InsertProject, UpdateProjectStart,
         DeleteProjectStart, UpdateProject, CreateEnvironmentStart, projectVars

-----------------------------------------------------------------------------
(* The events of revocations *)

\* Of the requests to revoke a token only one finds it unrevoked, and from then
\* on none does.
LEMMA ReportsStep ==
  ASSUME IInv, NEW r \in Request,
         (ProjectStep(r) /\ UNCHANGED tokenVars) \/ TokenStep(r),
         NEW t \in Token
  PROVE  Reports(t)'
<1>1. /\ TablesTyped /\ CallTyped(r) /\ RequestOK(r) /\ Reports(t) /\ Grows
      /\ \A q \in Request : q # r => pc'[q] = pc[q] /\ call'[q] = call[q]
  BY ProjectGrowth, TokenGrowth, OthersAreLeftAlone DEF IInv
<1>2. ASSUME reported'[t] = reported[t], ~Recording(r, t)' PROVE Reports(t)'
  <2>1. \A q \in Request : Recording(q, t)' => Recording(q, t)
    BY <1>1, <1>2 DEF Recording
  <2>2. tokens[t] # None /\ tokens[t].revoked => tokens'[t] # None /\ tokens'[t].revoked
    BY <1>1 DEF Grows
  <2>3. QED
    BY <1>1, <1>2, <2>1, <2>2 DEF Reports
<1>3. CASE RevokeAccessToken(r) /\ Recording(r, t)'
  <2>1. /\ pc[r] = "revokeRow" /\ ~tokens[t].revoked /\ call[r].token = t
        /\ tokens' = [tokens EXCEPT ![t].revoked = TRUE] /\ reported' = reported
    BY <1>1, <1>3 DEF RevokeAccessToken, Revokes, Goto, Finish, Recording, TablesTyped
  <2>2. tokens[t] \in TokenRow
    BY <1>1, <2>1 DEF RequestOK, TablesTyped
  <2>3. tokens'[t] = [tokens[t] EXCEPT !.revoked = TRUE]
    BY <1>1, <2>1 DEF TablesTyped
  <2>4. tokens'[t].revoked /\ tokens'[t] \in TokenRow
    BY <2>2, <2>3 DEF TokenRow
  <2>5. reported[t] = 0 /\ \A q \in Request : ~Recording(q, t)
    BY <1>1, <2>1 DEF Reports
  <2>6. \A q \in Request : Recording(q, t)' => q = r
    BY <1>1, <2>5 DEF Recording
  <2>7. QED
    BY <2>1, <2>4, <2>5, <2>6, NoneIsNoRow DEF Reports
<1>4. CASE RecordRevoked(r) /\ call[r].token = t
  <2>1. /\ Recording(r, t) /\ ~Recording(r, t)' /\ tokens' = tokens
        /\ reported' = [reported EXCEPT ![t] = @ + 1]
    BY <1>1, <1>4 DEF RecordRevoked, Recording, Finish, TablesTyped
  <2>2. /\ reported[t] = 0 /\ tokens[t] # None /\ tokens[t].revoked
        /\ \A q \in Request : Recording(q, t) => q = r
    BY <1>1, <2>1 DEF Reports
  <2>3. reported'[t] = 1
    BY <1>1, <2>1, <2>2 DEF TablesTyped
  <2>4. \A q \in Request : ~Recording(q, t)'
    BY <1>1, <2>1, <2>2 DEF Recording
  <2>5. QED
    BY <2>1, <2>2, <2>3, <2>4 DEF Reports
<1>5. CASE RecordRevoked(r) /\ call[r].token # t
  <2>1. reported'[t] = reported[t] /\ ~Recording(r, t)'
    BY <1>1, <1>5 DEF RecordRevoked, Recording, Finish, TablesTyped
  <2>2. QED
    BY <1>2, <2>1
<1>6. CASE RevokeAccessToken(r) /\ ~Recording(r, t)'
  BY <1>2, <1>6 DEF RevokeAccessToken
<1>7. CASE TokenStep(r) /\ ~RevokeAccessToken(r) /\ ~RecordRevoked(r)
  <2>1. reported' = reported /\ pc'[r] # "recordRevoked"
    BY <1>1, <1>7 DEF TokenStep, CreateTokenStart, CreateAccessToken, RevokeStart, PullStart,
       Authenticate, Reserve, PullSecrets, Touch, Begin, Goto, Finish, tokenVars, TablesTyped
  <2>2. QED
    BY <1>2, <2>1 DEF Recording
<1>8. CASE ProjectStep(r) /\ UNCHANGED tokenVars
  <2>1. pc'[r] # "recordRevoked"
    BY <1>1, <1>8 DEF ProjectStep, CreateProjectStart, InsertProject, InsertDefault,
       CommitProject, UpdateProjectStart, DeleteProjectStart, UpdateProject, SoftDeleteProject,
       CreateEnvironmentStart, InsertEnvironment, FailProject, Begin, Goto, Finish, TablesTyped
  <2>2. QED
    BY <1>2, <1>8, <2>1 DEF Recording, tokenVars
<1>9. QED
  BY <1>3, <1>4, <1>5, <1>6, <1>7, <1>8

-----------------------------------------------------------------------------
(* The theorems *)

LEMMA InitOK == Init => IInv
<1> SUFFICES ASSUME Init PROVE IInv
  OBVIOUS
<1> USE DEF Init, ProjectInit
<1>1. TablesTyped
  BY DEF TablesTyped
<1>2. \A r \in Request : CallTyped(r) /\ PendingTyped(r) /\ RequestOK(r)
  BY DEF CallTyped, PendingTyped, RequestOK
<1>3. ProjectsAreWhole /\ Uniq
  BY DEF ProjectsAreWhole, ProjectsStartComplete, SlugNamesOneProject, Uniq
<1>4. \A t \in Token : TokenOK(t) /\ Reports(t)
  BY DEF TokenOK, Reports, Recording
<1>5. QED
  BY <1>1, <1>2, <1>3, <1>4 DEF IInv

LEMMA StepOK == IInv /\ [Next]_vars => IInv'
<1>1. ASSUME IInv, NEW r \in Request,
             (ProjectStep(r) /\ UNCHANGED tokenVars) \/ TokenStep(r)
      PROVE  IInv'
  <2>1. /\ TablesTyped /\ Grows /\ \A t \in Token : TokenOK(t)
        /\ \A q \in Request : CallTyped(q) /\ PendingTyped(q) /\ RequestOK(q)
    BY <1>1, ProjectGrowth, TokenGrowth DEF IInv
  <2>2. \A q \in Request : q # r => CallTyped(q)' /\ PendingTyped(q)' /\ RequestOK(q)'
    BY <1>1, <2>1, OthersAreLeftAlone, Undisturbed
  <2>3. CallTyped(r)' /\ PendingTyped(r)' /\ RequestOK(r)'
    BY <1>1, OwnProjectStep, OwnTokenStep
  <2>4. \A t \in Token : Reports(t)'
    BY <1>1, ReportsStep
  <2>5. CASE ProjectStep(r) /\ UNCHANGED tokenVars
    <3>1. \A t \in Token : TokenOK(t)'
      BY <2>1, <2>5 DEF TokenOK, Grows, TablesTyped, TokenRow, tokenVars
    <3>2. TablesTyped' /\ Uniq' /\ ProjectsAreWhole'
      BY <1>1, <2>5, ProjectTables, Apart
    <3>3. QED
      BY <2>2, <2>3, <2>4, <3>1, <3>2 DEF IInv
  <2>6. CASE TokenStep(r)
    <3>1. TablesTyped' /\ \A t \in Token : TokenOK(t)'
      BY <1>1, <2>6, TokenTables
    <3>2. UNCHANGED projectVars
      BY <2>6 DEF TokenStep, CreateTokenStart, CreateAccessToken, RevokeStart,
         RevokeAccessToken, RecordRevoked, PullStart, Authenticate, Reserve, PullSecrets, Touch
    <3>3. Uniq' /\ ProjectsAreWhole'
      BY <1>1, <3>2 DEF IInv, projectVars, Uniq, ProjectsAreWhole, ProjectsStartComplete,
                        SlugNamesOneProject
    <3>4. QED
      BY <2>2, <2>3, <2>4, <3>1, <3>3 DEF IInv
  <2>7. QED
    BY <1>1, <2>5, <2>6
<1>2. ASSUME IInv, NEW t \in Token, Expire(t) PROVE IInv'
  <2>1. Next /\ Grows /\ TablesTyped /\ \A k \in Token : TokenOK(k)
    BY <1>2, Growth DEF IInv, Next
  <2>2. UNCHANGED <<projectVars, callVars, tokens, reported>> /\ expired' = expired \cup {t}
    BY <1>2 DEF Expire
  <2>3. \A q \in Request : CallTyped(q)' /\ PendingTyped(q)' /\ RequestOK(q)'
    BY <1>2, <2>1, <2>2, Undisturbed DEF IInv, projectVars, callVars
  <2>4. TablesTyped'
    BY <2>1, <2>2 DEF TablesTyped, projectVars, callVars
  <2>5. Uniq' /\ ProjectsAreWhole' /\ \A k \in Token : TokenOK(k)' /\ Reports(k)'
    BY <1>2, <2>2 DEF IInv, projectVars, callVars, Uniq, ProjectsAreWhole,
       ProjectsStartComplete, SlugNamesOneProject, TokenOK, Reports, Recording
  <2>6. QED
    BY <2>3, <2>4, <2>5 DEF IInv
<1>3. ASSUME IInv, UNCHANGED vars PROVE IInv'
  <2>1. UNCHANGED <<projects, environments, pending, pc, call, tokens, expired, reported>>
    BY <1>3 DEF vars, projectVars, callVars, tokenVars
  <2>2. TablesTyped' /\ Uniq' /\ ProjectsAreWhole'
    BY <1>3, <2>1 DEF IInv, TablesTyped, Uniq, ProjectsAreWhole, ProjectsStartComplete,
                      SlugNamesOneProject
  <2>3. \A t \in Token : TokenOK(t)' /\ Reports(t)'
    BY <1>3, <2>1 DEF IInv, TokenOK, Reports, Recording
  <2>4. \A q \in Request : CallTyped(q)' /\ PendingTyped(q)' /\ RequestOK(q)'
    BY <1>3, <2>1 DEF IInv, CallTyped, PendingTyped, RequestOK, CutOff, Active, IsLive
  <2>5. QED
    BY <2>2, <2>3, <2>4 DEF IInv
<1>4. QED
  BY <1>1, <1>2, <1>3 DEF Next

LEMMA Inductive == Spec => []IInv
  BY InitOK, StepOK, PTL DEF Spec

\* The tables and the arguments of every request keep their types: each
\* statement finds what the ones before it have read.
THEOREM TokenServiceTypeCorrect == Spec => []TypeOK
<1>1. ASSUME IInv PROVE TypeOK
  <2>1. ProjectTypeOK
    BY <1>1 DEF IInv, TablesTyped, PendingTyped, ProjectTypeOK
  <2>2. /\ \A t \in Token : tokens[t] \in TokenRow \cup {None}
        /\ expired \subseteq Token /\ reported \in [Token -> Nat]
    BY <1>1 DEF IInv, TablesTyped
  <2>3. QED
    BY <1>1, <2>1, <2>2 DEF IInv, CallTyped, TypeOK
<1>2. QED
  BY <1>1, Inductive, PTL

\* A project is complete and alone under its slug from the moment on which
\* anybody can see it.
THEOREM ProjectsAppearWhole == Spec => []ProjectsAreWhole
<1>1. IInv => ProjectsAreWhole
  BY DEF IInv
<1>2. QED
  BY <1>1, Inductive, PTL

\* No pull that came in after the revocation, the expiry or the deletion of the
\* project is served.
THEOREM CutOffIsFinal == Spec => []CutOffHolds
<1>1. IInv => CutOffHolds
  BY DEF IInv, RequestOK, CutOffHolds
<1>2. QED
  BY <1>1, Inductive, PTL

\* Requests that race to revoke a token leave one event at most, and no event
\* is about a token that is not revoked.
THEOREM OneEventPerRevocation == Spec => []RevocationReportedOnce
<1>1. ASSUME IInv PROVE RevocationReportedOnce
  <2> SUFFICES ASSUME NEW t \in Token
               PROVE  LET recording == {r \in Request : pc[r] = "recordRevoked" /\ call[r].token = t}
                      IN  /\ reported[t] + Cardinality(recording) <= 1
                          /\ reported[t] > 0 \/ recording # {} => tokens[t].revoked
    BY DEF RevocationReportedOnce
  <2> DEFINE recording == {r \in Request : pc[r] = "recordRevoked" /\ call[r].token = t}
  <2>1. Reports(t)
    BY <1>1 DEF IInv
  <2>2. /\ reported[t] + Cardinality(recording) <= 1
        /\ reported[t] > 0 \/ recording # {} => tokens[t].revoked
    <3>1. CASE recording = {}
      <4>1. Cardinality(recording) = 0
        BY <3>1, FS_EmptySet
      <4> HIDE DEF recording
      <4>2. QED
        BY <2>1, <3>1, <4>1 DEF Reports
    <3>2. CASE recording # {}
      <4>1. PICK r \in Request : Recording(r, t)
        BY <3>2 DEF Recording
      <4>2. reported[t] = 0 /\ tokens[t].revoked /\ recording = {r}
        BY <2>1, <4>1 DEF Reports, Recording
      <4>3. Cardinality(recording) = 1
        BY <4>2, FS_Singleton
      <4> HIDE DEF recording
      <4>4. QED
        BY <4>2, <4>3
    <3>3. QED
      BY <3>1, <3>2
  <2>3. QED
    BY <2>2
<1>2. QED
  BY <1>1, Inductive, PTL
=============================================================================
