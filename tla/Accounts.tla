------------------------------ MODULE Accounts ------------------------------
(***************************************************************************)
(* New accounts and new workspaces: AuthService.Register (internal/        *)
(* service/auth.go) and WorkspaceService.Create with uniqueWorkspaceSlug   *)
(* (internal/service/workspace.go).                                        *)
(*                                                                         *)
(* Both insert a workspace and its owner's membership in one transaction,  *)
(* Register the user too.  Create looks for a free slug before it, one     *)
(* query per candidate; Register takes a slug made of the new user's id.   *)
(* Slugs and emails are unique across all accounts, so a slug stands for   *)
(* its workspace here.  What becomes of members later is in Membership.    *)
(***************************************************************************)
EXTENDS Integers, Sequences, FiniteSets

CONSTANTS
    Email,
    UserId,         \* ids gen_random_uuid may give
    Slug,
    Name,           \* names people give workspaces
    Candidates,     \* per name, the slugs to try: the plain one and numbered ones
    Fallback,       \* per name, the slugs with a random suffix
    Personal,       \* per user id, "ws-" and its first eight digits
    Client          \* requests in flight at once

VARIABLES
    users,          \* table users: id and email
    workspaces,     \* table workspaces: slug and owner_id
    owners,         \* table workspace_members: the rows made with a workspace
    step,           \* next statement of each request, or its answer
    args            \* its arguments, and what it has read and drawn

accountVars == <<users, workspaces, owners, step, args>>

ASSUME AccountsAssumption ==
    /\ Candidates \in [Name -> Seq(Slug)] /\ \A n \in Name : Candidates[n] # <<>>
    /\ Fallback \in [Name -> SUBSET Slug]
    /\ Personal \in [UserId -> Slug]
    /\ "" \notin UserId          \* stands for what is not known

Answers == {"created", "conflict", "emailTaken", "failed"}
Writing == {"insertWorkspace", "insertMember", "commit"}

\* user is the caller, or the id drawn for a new account; taken the slugs that
\* were in use when the request found its own free.
Args == [op : {"register", "create"}, email : Email \cup {""}, user : UserId \cup {""},
         name : Name \cup {""}, attempt : Nat, slug : Slug \cup {""},
         taken : SUBSET Slug]

NoArgs == [op |-> "create", email |-> "", user |-> "", name |-> "",
           attempt |-> 0, slug |-> "", taken |-> {}]

AccountsTypeOK ==
    /\ users \subseteq [id : UserId, email : Email]
    /\ workspaces \subseteq [slug : Slug, owner : UserId]
    /\ owners \subseteq Slug \X UserId
    /\ step \in [Client -> {"insertUser", "slugExists", "newSession"} \cup Writing \cup Answers]
    /\ args \in [Client -> Args]

AccountsInit ==
    /\ users = {} /\ workspaces = {} /\ owners = {}
    /\ step = [c \in Client |-> "created"]
    /\ args = [c \in Client |-> NoArgs]

-----------------------------------------------------------------------------

SlugsIn == {w.slug : w \in workspaces}

\* Rows a transaction has inserted and not committed; whoever inserts the same
\* value waits for its end.
PendingUsers(c) ==
    {args[d] : d \in {d \in Client \ {c} : args[d].op = "register" /\ step[d] \in Writing}}
PendingSlugs(c) ==
    {args[d].slug : d \in {d \in Client \ {c} : step[d] \in Writing \ {"insertWorkspace"}}}

Goto(c, label) ==
    /\ step' = [step EXCEPT ![c] = label]
    /\ UNCHANGED <<users, workspaces, owners>>

Receive(c, label, new) ==
    /\ step[c] \in Answers
    /\ args' = [args EXCEPT ![c] = new]
    /\ Goto(c, label)

\* Register, up to its transaction: the input is valid and the password hashed.
Register(c, email) ==
    Receive(c, "insertUser", [NoArgs EXCEPT !.op = "register", !.email = email])

\* Create by somebody who has an account.
CreateWorkspace(c, u, name) ==
    /\ \E row \in users : row.id = u
    /\ Receive(c, "slugExists", [NoArgs EXCEPT !.user = u, !.name = name, !.attempt = 1])

\* Mutant: only the caller's own workspaces are looked at.
OwnSlugExists(c, slug) == [slug |-> slug, owner |-> args[c].user] \in workspaces

WorkspaceSlugExists(c, slug) == slug \in SlugsIn

\* One turn of uniqueWorkspaceSlug: a taken candidate leads to the next, the
\* last one to a random suffix, which is not looked up.
UniqueWorkspaceSlug(c) ==
    LET tried == Candidates[args[c].name] IN
    /\ step[c] = "slugExists"
    /\ IF args[c].attempt > Len(tried)
       THEN /\ \E slug \in Fallback[args[c].name] : args' = [args EXCEPT ![c].slug = slug]
            /\ Goto(c, "insertWorkspace")
       ELSE IF WorkspaceSlugExists(c, tried[args[c].attempt])
       THEN /\ args' = [args EXCEPT ![c].attempt = @ + 1]
            /\ Goto(c, "slugExists")
       ELSE /\ args' = [args EXCEPT ![c].slug = tried[args[c].attempt], ![c].taken = SlugsIn]
            /\ Goto(c, "insertWorkspace")

\* Mutant: the user is inserted outside the transaction.
InsertUserAlone(c) ==
    /\ step[c] = "insertUser"
    /\ \A a \in PendingUsers(c) : a.email # args[c].email
    /\ \A u \in users : u.email # args[c].email
    /\ \E id \in UserId \ ({u.id : u \in users} \cup {a.user : a \in PendingUsers(c)}) :
         /\ users' = users \cup {[id |-> id, email |-> args[c].email]}
         /\ args' = [args EXCEPT ![c].user = id, ![c].slug = Personal[id]]
    /\ step' = [step EXCEPT ![c] = "insertWorkspace"]
    /\ UNCHANGED <<workspaces, owners>>

\* The first statement of Register's transaction.
InsertUser(c) ==
    /\ step[c] = "insertUser"
    /\ \A a \in PendingUsers(c) : a.email # args[c].email
    /\ \/ /\ \E u \in users : u.email = args[c].email
          /\ Goto(c, "emailTaken")
          /\ UNCHANGED args
       \/ /\ \A u \in users : u.email # args[c].email
          /\ \E id \in UserId \ ({u.id : u \in users} \cup {a.user : a \in PendingUsers(c)}) :
               args' = [args EXCEPT ![c].user = id, ![c].slug = Personal[id]]
          /\ Goto(c, "insertWorkspace")

\* Register blames the email for every conflict.
InsertWorkspace(c) ==
    /\ step[c] = "insertWorkspace"
    /\ args[c].slug \notin PendingSlugs(c)
    /\ Goto(c, IF args[c].slug \notin SlugsIn THEN "insertMember"
               ELSE IF args[c].op = "register" THEN "emailTaken" ELSE "conflict")
    /\ UNCHANGED args

InsertMember(c) ==
    /\ step[c] = "insertMember"
    /\ Goto(c, "commit")
    /\ UNCHANGED args

CommitAccount(c) ==
    /\ step[c] = "commit"
    /\ users' = users \cup IF args[c].op = "register"
                           THEN {[id |-> args[c].user, email |-> args[c].email]} ELSE {}
    /\ workspaces' = workspaces \cup {[slug |-> args[c].slug, owner |-> args[c].user]}
    /\ owners' = owners \cup {<<args[c].slug, args[c].user>>}
    /\ step' = [step EXCEPT ![c] = IF args[c].op = "register" THEN "newSession" ELSE "created"]
    /\ args' = [args EXCEPT ![c] = NoArgs]

\* The account exists whether or not its first session can be made.
NewSession(c) ==
    /\ step[c] = "newSession"
    /\ Goto(c, "created")
    /\ UNCHANGED args

\* A query fails or the request dies; an open transaction is rolled back.
Fail(c) ==
    /\ step[c] \notin Answers
    /\ Goto(c, "failed")
    /\ args' = [args EXCEPT ![c] = NoArgs]

AccountsNext ==
    \E c \in Client :
      \/ \E email \in Email : Register(c, email)
      \/ \E u \in UserId, name \in Name : CreateWorkspace(c, u, name)
      \/ UniqueWorkspaceSlug(c)
      \/ InsertUser(c) \/ InsertWorkspace(c) \/ InsertMember(c) \/ CommitAccount(c)
      \/ NewSession(c) \/ Fail(c)

AccountsSpec == AccountsInit /\ [][AccountsNext]_accountVars

-----------------------------------------------------------------------------

\* "An account with nowhere to put anything would be a broken state": every
\* account owns a workspace and every workspace has its owner among its members,
\* wherever the requests that make them die (Register, Create).
AccountHasHome ==
    /\ \A u \in users : \E w \in workspaces : w.owner = u.id
    /\ \A w \in workspaces : /\ <<w.slug, w.owner>> \in owners
                             /\ \E u \in users : u.id = w.owner

\* A new workspace is refused for its slug, which nobody chose, only if another
\* request took the slug after it was found free, or the random one is in use;
\* a registration is refused only if the email has an account or the slug made
\* of the id it drew is in use.
RefusalsAreDue ==
    \A c \in Client :
        /\ step[c] = "conflict" =>
             \/ args[c].slug \in SlugsIn \ args[c].taken
             \/ args[c].slug \in Fallback[args[c].name]
        /\ step[c] = "emailTaken" =>
             \/ \E u \in users : u.email = args[c].email
             \/ args[c].user # "" /\ Personal[args[c].user] \in SlugsIn
=============================================================================
