---------------------------- MODULE WebPagesProofs ----------------------------
(***************************************************************************)
(* Proofs about the pages of the web application, for any texts, bounds on *)
(* requests, versions, drafts and rows, numbers of recorders and page      *)
(* sizes.                                                                  *)
(*                                                                         *)
(* Each page's promise rests on an invariant of the page's own variables,  *)
(* which the steps of the other pages leave alone.  The requests that make *)
(* accounts and workspaces have a specification of their own, Accounts,    *)
(* which the browser implements; its theorems come first.                  *)
(***************************************************************************)
EXTENDS WebPages, FiniteSetTheorems, WellFoundedInduction, TLAPS

\* The steps of WebPages, as each page's components see them.
LEMMA PageSteps ==
  ASSUME [WebNext]_webVars
  PROVE  /\ MaskNext \/ Unmount \/ UNCHANGED maskVars
         /\ FormNext \/ Reload \/ UNCHANGED formVars
         /\ CompareNext \/ UNCHANGED compareVars
         /\ ListingNext \/ UNCHANGED auditVars
         /\ AccountsNext \/ UNCHANGED accountVars
<1> USE DEF webVars
<1>1. CASE ProjectPage
  BY <1>1 DEF ProjectPage, OnProjectPage, ReloadProject
<1>2. CASE HistoryPage
  BY <1>2 DEF HistoryPage
<1>3. CASE ActivityPage
  BY <1>3 DEF ActivityPage
<1>4. CASE AccountPages
  BY <1>4 DEF AccountPages
<1>5. CASE UNCHANGED webVars
  BY <1>5
<1>6. QED
  BY <1>1, <1>2, <1>3, <1>4, <1>5 DEF WebNext

-----------------------------------------------------------------------------
(***************************************************************************)
(* Accounts, for any number of concurrent requests, users, slugs and       *)
(* candidates.                                                             *)
(*                                                                         *)
(* AccountsInv adds to the promises what a request knows from its own      *)
(* statements (RequestOK) and that the rows it has inserted and not        *)
(* committed collide with no committed row and no other request's          *)
(* (AccountsUniq): whoever inserts the same value waits.  The tables only  *)
(* grow, so what was true of them stays true.                              *)
(***************************************************************************)

\* What the statements of request c rely on.
RequestOK(c) ==
    /\ step[c] = "insertUser" => args[c].op = "register" /\ args[c].email \in Email
    /\ step[c] = "slugExists" => args[c].op = "create" /\ args[c].attempt > 0
    /\ step[c] \in Writing => args[c].slug \in Slug /\ args[c].user \in UserId
    /\ step[c] \in Writing /\ args[c].op = "register" =>
         args[c].email \in Email /\ args[c].slug = Personal[args[c].user]
    /\ step[c] = "slugExists" \/ (step[c] \in Writing /\ args[c].op = "create") =>
         /\ args[c].name \in Name /\ args[c].user \in UserId
         /\ \E u \in users : u.id = args[c].user
    /\ step[c] = "insertWorkspace" /\ args[c].op = "create" =>
         args[c].slug \in Fallback[args[c].name] \/ args[c].slug \notin args[c].taken

\* The rows of request c's transaction.
HasUser(c) == args[c].op = "register" /\ step[c] \in Writing
HasWorkspace(c) == step[c] \in Writing \ {"insertWorkspace"}

\* No two rows, committed or not, share what the database keeps unique.
AccountsUniq ==
    /\ \A u, v \in users : u.id = v.id \/ u.email = v.email => u = v
    /\ \A w, x \in workspaces : w.slug = x.slug => w = x
    /\ \A c \in Client : HasUser(c) =>
         \A u \in users : u.id # args[c].user /\ u.email # args[c].email
    /\ \A c \in Client : HasWorkspace(c) => args[c].slug \notin SlugsIn
    /\ \A c, d \in Client : c # d /\ HasUser(c) /\ HasUser(d) =>
         args[c].user # args[d].user /\ args[c].email # args[d].email
    /\ \A c, d \in Client : c # d /\ HasWorkspace(c) /\ HasWorkspace(d) =>
         args[c].slug # args[d].slug

AccountsInv ==
    /\ AccountsTypeOK
    /\ \A c \in Client : RequestOK(c)
    /\ AccountHasHome
    /\ RefusalsAreDue
    /\ AccountsUniq

\* Emails name one account and slugs one workspace, although both are looked for
\* before, or outside, the transaction that takes them.
EmailsAndSlugsAreUnique ==
    /\ \A u, v \in users : u.email = v.email => u = v
    /\ \A w, x \in workspaces : w.slug = x.slug => w = x

LEMMA NoArgsType == NoArgs \in Args
  BY DEF NoArgs, Args

-----------------------------------------------------------------------------

\* Nothing is there at the start.
LEMMA AccountsInitial == AccountsInit => AccountsInv
<1> SUFFICES ASSUME AccountsInit PROVE AccountsInv
  OBVIOUS
<1> USE NoArgsType DEF AccountsInit
<1>1. AccountsTypeOK
  BY DEF AccountsTypeOK, Answers
<1>2. \A c \in Client : RequestOK(c)
  BY DEF RequestOK, Writing
<1>3. AccountHasHome
  BY DEF AccountHasHome
<1>4. RefusalsAreDue
  BY DEF RefusalsAreDue
<1>5. AccountsUniq
  BY DEF AccountsUniq, HasUser, HasWorkspace, Writing, SlugsIn
<1>6. QED
  BY <1>1, <1>2, <1>3, <1>4, <1>5 DEF AccountsInv

\* The steps of request c.
StepOf(c) ==
    \/ \E email \in Email : Register(c, email)
    \/ \E u \in UserId, name \in Name : CreateWorkspace(c, u, name)
    \/ UniqueWorkspaceSlug(c)
    \/ InsertUser(c) \/ InsertWorkspace(c) \/ InsertMember(c) \/ CommitAccount(c)
    \/ NewSession(c) \/ Fail(c)

\* A request moves only itself, and only a commit changes the tables, which grow.
LEMMA TablesGrow ==
  ASSUME AccountsTypeOK, NEW c \in Client, StepOf(c)
  PROVE  /\ \A d \in Client \ {c} : step'[d] = step[d] /\ args'[d] = args[d]
         /\ users \subseteq users' /\ workspaces \subseteq workspaces'
         /\ owners \subseteq owners'
         /\ ~CommitAccount(c) => UNCHANGED <<users, workspaces, owners>>
<1> USE DEF AccountsTypeOK, Goto, Receive
<1>1. CASE \E email \in Email : Register(c, email)
  BY <1>1 DEF Register, Answers
<1>2. CASE \E u \in UserId, name \in Name : CreateWorkspace(c, u, name)
  BY <1>2 DEF CreateWorkspace, Answers
<1>3. CASE UniqueWorkspaceSlug(c)
  BY <1>3 DEF UniqueWorkspaceSlug
<1>4. CASE InsertUser(c)
  BY <1>4 DEF InsertUser
<1>5. CASE InsertWorkspace(c) \/ InsertMember(c) \/ NewSession(c)
  BY <1>5 DEF InsertWorkspace, InsertMember, NewSession
<1>6. CASE CommitAccount(c)
  BY <1>6 DEF CommitAccount
<1>7. CASE Fail(c)
  BY <1>7 DEF Fail
<1>8. QED
  BY <1>1, <1>2, <1>3, <1>4, <1>5, <1>6, <1>7 DEF StepOf

-----------------------------------------------------------------------------

LEMMA NextNat == \A n \in Nat : n + 1 \in Nat
  OBVIOUS

\* The records the statements put in args.
LEMMA ArgsUpdates ==
  ASSUME NEW ar \in Args
  PROVE  /\ \A slug \in Slug : [ar EXCEPT !.slug = slug] \in Args
         /\ \A slug \in Slug, taken \in SUBSET Slug :
              [ar EXCEPT !.slug = slug, !.taken = taken] \in Args
         /\ \A u \in UserId, slug \in Slug : [ar EXCEPT !.user = u, !.slug = slug] \in Args
         /\ [ar EXCEPT !.attempt = @ + 1] \in Args
<1> USE DEF Args
<1>1. \A slug \in Slug : [ar EXCEPT !.slug = slug] \in Args
  OBVIOUS
<1>2. \A slug \in Slug, taken \in SUBSET Slug :
        [ar EXCEPT !.slug = slug, !.taken = taken] \in Args
  OBVIOUS
<1>3. \A u \in UserId, slug \in Slug : [ar EXCEPT !.user = u, !.slug = slug] \in Args
  OBVIOUS
<1>4. [ar EXCEPT !.attempt = @ + 1] \in Args
  <2>1. \A n \in Nat : [ar EXCEPT !.attempt = n] \in Args
    OBVIOUS
  <2>2. ar.attempt \in Nat
    OBVIOUS
  <2>3. QED
    <3>2. ar.attempt + 1 \in Nat
      BY ONLY <2>2, NextNat
    <3>3. QED
      BY <2>1, <3>2
<1>5. QED
  BY <1>1, <1>2, <1>3, <1>4

\* Those a request starts with.
LEMMA ArgsAtStart ==
  /\ \A email \in Email : [NoArgs EXCEPT !.op = "register", !.email = email] \in Args
  /\ \A u \in UserId, name \in Name :
       [NoArgs EXCEPT !.user = u, !.name = name, !.attempt = 1] \in Args
<1>1. \A email \in Email : [NoArgs EXCEPT !.op = "register", !.email = email] \in Args
  BY DEF Args, NoArgs
<1>2. \A u \in UserId, name \in Name :
        [NoArgs EXCEPT !.user = u, !.name = name, !.attempt = 1] \in Args
  BY DEF Args, NoArgs
<1>3. QED
  BY <1>1, <1>2

LEMMA AccountsTypesStep ==
  ASSUME AccountsTypeOK, \A c \in Client : RequestOK(c), NEW c \in Client, StepOf(c)
  PROVE  AccountsTypeOK'
<1>a. args \in [Client -> Args]
  BY DEF AccountsTypeOK
<1>b. args[c] \in Args
  BY <1>a
<1>c. \A ar \in Args : [args EXCEPT ![c] = ar] \in [Client -> Args]
  BY <1>a
<1>1. CASE \E email \in Email : Register(c, email)
  <2>1. args' \in [Client -> Args]
    BY <1>1, <1>c, ArgsAtStart DEF Register, Receive
  <2>2. QED
    BY <1>1, <2>1 DEF Register, Receive, Goto, AccountsTypeOK
<1>2. CASE \E u \in UserId, name \in Name : CreateWorkspace(c, u, name)
  <2>1. args' \in [Client -> Args]
    BY <1>2, <1>c, ArgsAtStart DEF CreateWorkspace, Receive
  <2>2. QED
    BY <1>2, <2>1 DEF CreateWorkspace, Receive, Goto, AccountsTypeOK
<1>3. CASE UniqueWorkspaceSlug(c)
  <2>1. args[c].name \in Name /\ args[c].attempt \in Nat \ {0}
    <3>1. args[c].name \in Name /\ args[c].attempt > 0
      BY <1>3 DEF UniqueWorkspaceSlug, RequestOK
    <3>2. args[c].attempt \in Nat
      BY <1>b DEF Args
    <3>3. args[c].attempt # 0
      BY ONLY <3>1, <3>2
    <3>4. QED
      BY <3>1, <3>2, <3>3
  <2>2. /\ Candidates[args[c].name] \in Seq(Slug)
        /\ Fallback[args[c].name] \subseteq Slug
    BY <2>1, AccountsAssumption DEF AccountsAssumption
  <2>3. SlugsIn \in SUBSET Slug
    BY DEF SlugsIn, AccountsTypeOK
  <2>4. args' \in [Client -> Args]
    <3>1. CASE \E slug \in Fallback[args[c].name] : args' = [args EXCEPT ![c].slug = slug]
      <4>1. PICK slug \in Slug : args' = [args EXCEPT ![c] = [@ EXCEPT !.slug = slug]]
        BY <3>1, <2>2, <1>a
      <4>2. QED
        BY <4>1, <1>b, <1>c, ArgsUpdates
    <3>2. CASE args' = [args EXCEPT ![c].attempt = @ + 1]
      <4>1. \A n : [args EXCEPT ![c].attempt = n] =
                  [args EXCEPT ![c] = [args[c] EXCEPT !.attempt = n]]
        BY <1>a
      <4>2. args' = [args EXCEPT ![c] = [args[c] EXCEPT !.attempt = args[c].attempt + 1]]
        BY <3>2, <4>1, Zenon
      <4>3. [args[c] EXCEPT !.attempt = args[c].attempt + 1] \in Args
        BY <1>b, ArgsUpdates, Zenon
      <4>4. QED
        BY <4>2, <4>3, <1>c, Zenon
    <3>3. CASE /\ args[c].attempt \in 1..Len(Candidates[args[c].name])
               /\ args' = [args EXCEPT ![c].slug = Candidates[args[c].name][args[c].attempt],
                                       ![c].taken = SlugsIn]
      <4>1. Candidates[args[c].name][args[c].attempt] \in Slug
        BY <3>3, <2>2
      <4>2. args' = [args EXCEPT ![c] =
              [@ EXCEPT !.slug = Candidates[args[c].name][args[c].attempt],
                        !.taken = SlugsIn]]
        BY <3>3, <1>a
      <4>3. QED
        BY <4>1, <4>2, <1>b, <1>c, <2>3, ArgsUpdates
    <3>4. QED
      BY <1>3, <2>1, <2>2, <3>1, <3>2, <3>3 DEF UniqueWorkspaceSlug
  <2>5. QED
    BY <1>3, <2>4 DEF UniqueWorkspaceSlug, Writing, Goto, AccountsTypeOK
<1>4. CASE InsertUser(c)
  <2>1. args' \in [Client -> Args]
    <3>1. CASE UNCHANGED args
      BY <3>1, <1>a
    <3>2. CASE \E id \in UserId :
                 args' = [args EXCEPT ![c].user = id, ![c].slug = Personal[id]]
      <4>1. PICK id \in UserId :
              args' = [args EXCEPT ![c].user = id, ![c].slug = Personal[id]]
        BY <3>2
      <4>2. args' = [args EXCEPT ![c] = [@ EXCEPT !.user = id, !.slug = Personal[id]]]
        BY <4>1, <1>a
      <4>3. Personal[id] \in Slug
        BY AccountsAssumption DEF AccountsAssumption
      <4>4. QED
        BY <4>2, <4>3, <1>b, <1>c, ArgsUpdates
    <3>3. QED
      BY <1>4, <3>1, <3>2 DEF InsertUser
  <2>2. QED
    BY <1>4, <2>1 DEF InsertUser, Writing, Answers, Goto, AccountsTypeOK
<1>5. CASE InsertWorkspace(c) \/ InsertMember(c) \/ NewSession(c)
  BY <1>5 DEF InsertWorkspace, InsertMember, NewSession, Writing, Answers, Goto,
              AccountsTypeOK
<1>6. CASE CommitAccount(c)
  <2>1. args[c].slug \in Slug /\ args[c].user \in UserId
    BY <1>6 DEF CommitAccount, RequestOK, Writing
  <2>2. args[c].op = "register" => args[c].email \in Email
    BY <1>6 DEF CommitAccount, RequestOK, Writing
  <2>3. args' \in [Client -> Args]
    BY <1>6, <1>c, NoArgsType DEF CommitAccount
  <2>4. QED
    BY <1>6, <2>1, <2>2, <2>3 DEF CommitAccount, Answers, AccountsTypeOK
<1>7. CASE Fail(c)
  <2>1. args' \in [Client -> Args]
    BY <1>7, <1>c, NoArgsType DEF Fail
  <2>2. QED
    BY <1>7, <2>1 DEF Fail, Answers, Goto, AccountsTypeOK
<1>8. QED
  BY <1>1, <1>2, <1>3, <1>4, <1>5, <1>6, <1>7 DEF StepOf

\* What a request knows stays true when another one moves.
LEMMA RequestStep ==
  ASSUME AccountsTypeOK, \A d \in Client : RequestOK(d), NEW c \in Client, StepOf(c)
  PROVE  \A d \in Client : RequestOK(d)'
<1>1. ASSUME NEW d \in Client \ {c} PROVE RequestOK(d)'
  <2>1. step'[d] = step[d] /\ args'[d] = args[d] /\ users \subseteq users'
    BY TablesGrow
  <2>2. QED
    BY <2>1 DEF RequestOK
<1>2. /\ step \in [Client -> {"insertUser", "slugExists", "newSession"} \cup Writing \cup Answers]
      /\ args \in [Client -> Args]
  BY DEF AccountsTypeOK
<1>3. RequestOK(c)'
  <2>1. CASE \E email \in Email : Register(c, email)
    BY <2>1, <1>2 DEF Register, Receive, Goto, RequestOK, NoArgs, Writing
  <2>2. CASE \E u \in UserId, name \in Name : CreateWorkspace(c, u, name)
    BY <2>2, <1>2 DEF CreateWorkspace, Receive, Goto, RequestOK, NoArgs, Writing
  <2>3. CASE UniqueWorkspaceSlug(c)
    <3> DEFINE ar == args[c]
               tried == Candidates[ar.name]
    <3>1. /\ step[c] = "slugExists" /\ ar.op = "create" /\ ar.attempt > 0
          /\ ar.name \in Name /\ ar.user \in UserId /\ users' = users
          /\ \E u \in users : u.id = ar.user
      BY <2>3 DEF RequestOK, UniqueWorkspaceSlug, Goto
    <3>2. ar \in Args
      BY <1>2
    <3>3. CASE /\ step'[c] = "insertWorkspace"
               /\ \E slug \in Fallback[ar.name] : args'[c] = [ar EXCEPT !.slug = slug]
      <4>1. PICK slug \in Slug : /\ slug \in Fallback[ar.name]
                                 /\ args'[c] = [ar EXCEPT !.slug = slug]
        BY <3>1, <3>3, AccountsAssumption DEF AccountsAssumption
      <4>2. /\ args'[c].slug = slug /\ args'[c].op = ar.op
            /\ args'[c].name = ar.name /\ args'[c].user = ar.user
        BY <4>1, <3>2 DEF Args
      <4>3. QED
        BY <3>1, <3>3, <4>1, <4>2 DEF RequestOK, Writing
    <3>4. CASE step'[c] = "slugExists" /\ args'[c] = [ar EXCEPT !.attempt = ar.attempt + 1]
      <4>1. /\ args'[c].op = ar.op /\ args'[c].name = ar.name /\ args'[c].user = ar.user
            /\ args'[c].attempt = ar.attempt + 1 /\ ar.attempt \in Nat
        BY <3>4, <3>2 DEF Args
      <4>2. args'[c].attempt > 0
        BY ONLY <4>1
      <4>3. QED
        BY <3>1, <3>4, <4>1, <4>2 DEF RequestOK, Writing
    <3>5. CASE /\ step'[c] = "insertWorkspace"
               /\ ar.attempt \in 1..Len(tried) /\ tried[ar.attempt] \notin SlugsIn
               /\ args'[c] = [ar EXCEPT !.slug = tried[ar.attempt], !.taken = SlugsIn]
      <4>1. tried[ar.attempt] \in Slug
        <5>1. tried \in Seq(Slug)
          BY <3>1, AccountsAssumption DEF AccountsAssumption
        <5> HIDE DEF tried, ar
        <5>2. QED
          BY <5>1, <3>5
      <4>2. /\ args'[c].slug = tried[ar.attempt] /\ args'[c].taken = SlugsIn
            /\ args'[c].op = ar.op /\ args'[c].name = ar.name /\ args'[c].user = ar.user
        BY <3>5, <3>2 DEF Args
      <4>3. QED
        BY <3>1, <3>5, <4>1, <4>2 DEF RequestOK, Writing
    <3>6. QED
      <4>1. ar.attempt \in Nat \ {0} /\ Len(tried) \in Nat
        <5>1. ar.attempt \in Nat
          BY <3>2 DEF Args
        <5>2. ar.attempt # 0
          BY ONLY <5>1, <3>1
        <5>3. tried \in Seq(Slug)
          BY <3>1, AccountsAssumption DEF AccountsAssumption
        <5>4. QED
          BY <5>1, <5>2, <5>3
      <4>2. ar.attempt > Len(tried) \/ ar.attempt \in 1..Len(tried)
        BY ONLY <4>1
      <4>3. CASE ar.attempt > Len(tried)
        BY <2>3, <4>3, <3>3, <1>2 DEF UniqueWorkspaceSlug, Goto
      <4>4. CASE ~(ar.attempt > Len(tried)) /\ tried[ar.attempt] \in SlugsIn
        BY <2>3, <4>4, <3>4, <1>2 DEF UniqueWorkspaceSlug, Goto, WorkspaceSlugExists
      <4>5. CASE ~(ar.attempt > Len(tried)) /\ tried[ar.attempt] \notin SlugsIn
        BY <2>3, <4>2, <4>5, <3>5, <1>2 DEF UniqueWorkspaceSlug, Goto, WorkspaceSlugExists
      <4>6. QED
        BY <4>3, <4>4, <4>5
  <2>4. CASE InsertUser(c)
    <3>1. /\ step[c] = "insertUser" /\ args[c].op = "register" /\ args[c].email \in Email
      BY <2>4 DEF InsertUser, RequestOK
    <3>2. CASE step'[c] = "emailTaken"
      BY <3>2 DEF RequestOK, Writing
    <3>3. CASE /\ step'[c] = "insertWorkspace"
               /\ \E id \in UserId :
                    args'[c] = [args[c] EXCEPT !.user = id, !.slug = Personal[id]]
      <4>1. PICK id \in UserId :
              args'[c] = [args[c] EXCEPT !.user = id, !.slug = Personal[id]]
        BY <3>3
      <4>2. /\ args'[c].slug = Personal[id] /\ args'[c].user = id
            /\ args'[c].op = args[c].op /\ args'[c].email = args[c].email
        <5>1. args[c] \in Args
          BY <1>2
        <5>2. QED
          BY <4>1, <5>1 DEF Args
      <4>3. Personal[id] \in Slug
        BY AccountsAssumption DEF AccountsAssumption
      <4>4. QED
        BY <3>1, <3>3, <4>2, <4>3 DEF RequestOK, Writing
    <3>4. QED
      BY <2>4, <3>2, <3>3, <1>2 DEF InsertUser, Goto
  <2>5. CASE InsertWorkspace(c) \/ InsertMember(c) \/ NewSession(c)
    BY <2>5, <1>2 DEF InsertWorkspace, InsertMember, NewSession, Goto, RequestOK, Writing
  <2>6. CASE CommitAccount(c) \/ Fail(c)
    BY <2>6, <1>2 DEF CommitAccount, Fail, Goto, RequestOK, Writing
  <2>7. QED
    BY <2>1, <2>2, <2>3, <2>4, <2>5, <2>6 DEF StepOf
<1>4. QED
  BY <1>1, <1>3

\* A commit brings a workspace with its owner's row, and its owner exists.
LEMMA HomeStep ==
  ASSUME AccountsInv, NEW c \in Client, StepOf(c)
  PROVE  AccountHasHome'
<1>1. CASE ~CommitAccount(c)
  BY <1>1, TablesGrow DEF AccountsInv, AccountHasHome
<1>2. CASE CommitAccount(c)
  <2> DEFINE w == [slug |-> args[c].slug, owner |-> args[c].user]
  <2>1. /\ workspaces' = workspaces \cup {w} /\ owners' = owners \cup {<<w.slug, w.owner>>}
        /\ users \subseteq users'
        /\ \A u \in users' : u \in users \/ u.id = w.owner
    BY <1>2 DEF CommitAccount
  <2>2. \E u \in users' : u.id = w.owner
    <3>1. CASE args[c].op = "register"
      <4> DEFINE new == [id |-> args[c].user, email |-> args[c].email]
      <4>1. new \in users' /\ new.id = w.owner
        BY <1>2, <3>1 DEF CommitAccount
      <4> HIDE DEF new, w
      <4>2. QED
        BY <4>1
    <3>2. CASE args[c].op = "create"
      <4>1. \E u \in users : u.id = args[c].user
        <5>1. RequestOK(c) /\ step[c] = "commit"
          BY <1>2 DEF AccountsInv, CommitAccount
        <5>2. QED
          BY <5>1, <3>2 DEF RequestOK, Writing
      <4>2. w.owner = args[c].user
        OBVIOUS
      <4>3. users \subseteq users'
        BY <2>1
      <4> HIDE DEF w
      <4>4. QED
        BY <4>1, <4>2, <4>3
    <3>3. args[c].op \in {"register", "create"}
      BY DEF AccountsInv, AccountsTypeOK, Args
    <3>4. QED
      BY <3>1, <3>2, <3>3
  <2>3. QED
    BY <2>1, <2>2 DEF AccountsInv, AccountHasHome
<1>3. QED
  BY <1>1, <1>2

\* A refusal was due when it was given, and the tables only grow.
LEMMA RefusalStep ==
  ASSUME AccountsInv, NEW c \in Client, StepOf(c)
  PROVE  RefusalsAreDue'
<1> DEFINE Due(d) ==
      /\ step[d] = "conflict" =>
           \/ args[d].slug \in SlugsIn \ args[d].taken
           \/ args[d].slug \in Fallback[args[d].name]
      /\ step[d] = "emailTaken" =>
           \/ \E u \in users : u.email = args[d].email
           \/ args[d].user # "" /\ Personal[args[d].user] \in SlugsIn
<1>1. ASSUME NEW d \in Client \ {c} PROVE Due(d)'
  <2>1. Due(d)
    BY DEF AccountsInv, RefusalsAreDue
  <2>2. /\ step'[d] = step[d] /\ args'[d] = args[d]
        /\ users \subseteq users' /\ workspaces \subseteq workspaces'
    BY TablesGrow DEF AccountsInv
  <2>3. SlugsIn \subseteq SlugsIn'
    BY <2>2 DEF SlugsIn
  <2>4. QED
    BY <2>1, <2>2, <2>3
<1>2. /\ step \in [Client -> {"insertUser", "slugExists", "newSession"} \cup Writing \cup Answers]
      /\ RequestOK(c)
  BY DEF AccountsInv, AccountsTypeOK
<1>3. Due(c)'
  <2>1. CASE InsertWorkspace(c)
    <3>1. /\ step[c] = "insertWorkspace" /\ args' = args /\ SlugsIn' = SlugsIn
          /\ step'[c] \in {"conflict", "emailTaken"} => args[c].slug \in SlugsIn
          /\ step'[c] = "conflict" => args[c].op # "register"
          /\ step'[c] = "emailTaken" => args[c].op = "register"
      BY <2>1, <1>2 DEF InsertWorkspace, Goto, SlugsIn
    <3>2. args[c].op \in {"register", "create"}
      BY DEF AccountsInv, AccountsTypeOK, Args
    <3>3. /\ args[c].op = "register" => /\ args[c].user \in UserId
                                        /\ args[c].slug = Personal[args[c].user]
          /\ args[c].op = "create" =>
               args[c].slug \in Fallback[args[c].name] \/ args[c].slug \notin args[c].taken
      BY <3>1, <1>2 DEF RequestOK, Writing
    <3>4. "" \notin UserId
      BY AccountsAssumption DEF AccountsAssumption
    <3>5. QED
      BY <3>1, <3>2, <3>3, <3>4
  <2>2. CASE InsertUser(c)
    BY <2>2, <1>2 DEF InsertUser, Goto
  <2>3. CASE ~InsertWorkspace(c) /\ ~InsertUser(c)
    BY <2>3, <1>2 DEF StepOf, Register, CreateWorkspace, Receive, UniqueWorkspaceSlug,
         InsertMember, CommitAccount, NewSession, Fail, Goto, Writing, Answers
  <2>4. QED
    BY <2>1, <2>2, <2>3
<1>4. QED
  BY <1>1, <1>3 DEF RefusalsAreDue

\* Nobody takes an id, an email or a slug that is in a table or in another
\* transaction: the statements wait for the transactions and look at the tables.
LEMMA AccountsUniqStep ==
  ASSUME AccountsInv, NEW c \in Client, StepOf(c)
  PROVE  AccountsUniq'
<1> DEFINE new == [id |-> args[c].user, email |-> args[c].email]
           made == [slug |-> args[c].slug, owner |-> args[c].user]
<1>1. /\ AccountsTypeOK /\ AccountsUniq /\ RequestOK(c)
      /\ step \in [Client -> {"insertUser", "slugExists", "newSession"} \cup Writing \cup Answers]
  BY DEF AccountsInv, AccountsTypeOK
<1>2. /\ \A d \in Client \ {c} : step'[d] = step[d] /\ args'[d] = args[d]
      /\ ~CommitAccount(c) => UNCHANGED <<users, workspaces, owners>>
  BY <1>1, TablesGrow
<1>3. \A d \in Client \ {c} : /\ HasUser(d)' <=> HasUser(d)
                              /\ HasWorkspace(d)' <=> HasWorkspace(d)
  BY <1>2 DEF HasUser, HasWorkspace
<1>4. CASE CommitAccount(c)
  <2>1. /\ step[c] = "commit" /\ step'[c] \in {"newSession", "created"}
        /\ users' = users \cup IF args[c].op = "register" THEN {new} ELSE {}
        /\ workspaces' = workspaces \cup {made}
    BY <1>4, <1>1 DEF CommitAccount
  <2>2. /\ HasWorkspace(c) /\ (args[c].op = "register" => HasUser(c))
        /\ ~HasWorkspace(c)' /\ ~HasUser(c)'
    BY <2>1 DEF HasUser, HasWorkspace, Writing
  <2>3. SlugsIn' = SlugsIn \cup {args[c].slug}
    <3>1. made.slug = args[c].slug
      OBVIOUS
    <3> HIDE DEF made, new
    <3>2. QED
      BY <2>1, <3>1 DEF SlugsIn
  <2>4. \A u, v \in users' : u.id = v.id \/ u.email = v.email => u = v
    BY <2>1, <2>2, <1>1 DEF AccountsUniq
  <2>5. \A w, x \in workspaces' : w.slug = x.slug => w = x
    BY <2>1, <2>2, <1>1 DEF AccountsUniq, SlugsIn
  <2>6. ASSUME NEW d \in Client, HasUser(d)'
        PROVE  \A u \in users' : u.id # args'[d].user /\ u.email # args'[d].email
    BY <2>1, <2>2, <2>6, <1>1, <1>2, <1>3 DEF AccountsUniq
  <2>7. ASSUME NEW d \in Client, HasWorkspace(d)' PROVE args'[d].slug \notin SlugsIn'
    BY <2>2, <2>3, <2>7, <1>1, <1>2, <1>3 DEF AccountsUniq
  <2>8. ASSUME NEW d \in Client, NEW e \in Client, d # e, HasUser(d)', HasUser(e)'
        PROVE  args'[d].user # args'[e].user /\ args'[d].email # args'[e].email
    BY <2>2, <2>8, <1>1, <1>2, <1>3 DEF AccountsUniq
  <2>9. ASSUME NEW d \in Client, NEW e \in Client, d # e, HasWorkspace(d)', HasWorkspace(e)'
        PROVE  args'[d].slug # args'[e].slug
    BY <2>2, <2>9, <1>1, <1>2, <1>3 DEF AccountsUniq
  <2>10. QED
    BY <2>4, <2>5, <2>6, <2>7, <2>8, <2>9 DEF AccountsUniq
<1>5. CASE ~CommitAccount(c)
  <2>1. users' = users /\ workspaces' = workspaces /\ SlugsIn' = SlugsIn
    BY <1>2, <1>5 DEF SlugsIn
  \* what c newly holds, nobody else does
  <2>2. HasUser(c)' =>
          /\ \A u \in users : u.id # args'[c].user /\ u.email # args'[c].email
          /\ \A d \in Client \ {c} : HasUser(d) =>
               args[d].user # args'[c].user /\ args[d].email # args'[c].email
    <3>1. CASE InsertUser(c)
      <4>1. CASE step'[c] = "emailTaken"
        BY <4>1 DEF HasUser, Writing
      <4>2. CASE step'[c] # "emailTaken"
        <5>1. PICK id \in UserId \ ({u.id : u \in users} \cup {ar.user : ar \in PendingUsers(c)}) :
                args' = [args EXCEPT ![c].user = id, ![c].slug = Personal[id]]
          BY <3>1, <4>2, <1>1 DEF InsertUser, Goto
        <5>2. args'[c].user = id /\ args'[c].email = args[c].email
          BY <5>1, <1>1 DEF AccountsTypeOK, Args
        <5>3. /\ \A u \in users : u.email # args[c].email
              /\ \A ar \in PendingUsers(c) : ar.email # args[c].email /\ ar.user # id
          BY <3>1, <4>2, <5>1, <1>1 DEF InsertUser, Goto
        <5>4. \A d \in Client \ {c} : HasUser(d) => args[d] \in PendingUsers(c)
          BY DEF HasUser, PendingUsers
        <5>5. QED
          BY <5>1, <5>2, <5>3, <5>4
      <4>3. QED
        BY <4>1, <4>2
    <3>2. CASE InsertWorkspace(c) \/ InsertMember(c) \/ NewSession(c)
      <4>1. args' = args /\ (HasUser(c)' => HasUser(c))
        BY <3>2, <1>1 DEF InsertWorkspace, InsertMember, NewSession, HasUser, Goto, Writing
      <4>2. QED
        BY <4>1, <1>1 DEF AccountsUniq
    <3>3. CASE UniqueWorkspaceSlug(c)
      <4>1. args[c].op = "create"
        BY <3>3, <1>1 DEF UniqueWorkspaceSlug, RequestOK
      <4>2. args'[c].op = args[c].op
        BY <3>3, <1>1 DEF UniqueWorkspaceSlug, AccountsTypeOK, Args
      <4>3. QED
        BY <4>1, <4>2 DEF HasUser
    <3>4. CASE \/ \E email \in Email : Register(c, email)
               \/ \E u \in UserId, name \in Name : CreateWorkspace(c, u, name)
               \/ Fail(c)
      BY <3>4, <1>1 DEF Register, CreateWorkspace, Fail, Receive, Goto, HasUser, Writing
    <3>5. QED
      BY <1>5, <3>1, <3>2, <3>3, <3>4 DEF StepOf
  <2>3. HasWorkspace(c)' =>
          /\ args'[c].slug \notin SlugsIn
          /\ \A d \in Client \ {c} : HasWorkspace(d) => args[d].slug # args'[c].slug
    <3>1. CASE InsertWorkspace(c)
      <4>1. \A d \in Client \ {c} : HasWorkspace(d) => args[d].slug \in PendingSlugs(c)
        BY DEF HasWorkspace, PendingSlugs
      <4>2. /\ args' = args /\ args[c].slug \notin PendingSlugs(c)
            /\ HasWorkspace(c)' => args[c].slug \notin SlugsIn
        BY <3>1, <1>1 DEF InsertWorkspace, Goto, HasWorkspace, Writing
      <4>3. QED
        BY <4>1, <4>2
    <3>2. CASE InsertMember(c)
      <4>1. args' = args /\ HasWorkspace(c)
        BY <3>2 DEF InsertMember, HasWorkspace, Goto, Writing
      <4>2. QED
        BY <4>1, <1>1 DEF AccountsUniq
    <3>3. CASE ~InsertWorkspace(c) /\ ~InsertMember(c)
      BY <3>3, <1>1, <1>5 DEF StepOf, Register, CreateWorkspace, Receive, UniqueWorkspaceSlug,
           InsertUser, NewSession, Fail, Goto, HasWorkspace, Writing, Answers
    <3>4. QED
      BY <3>1, <3>2, <3>3
  <2>4. ASSUME NEW d \in Client, HasUser(d)'
        PROVE  \A u \in users' : u.id # args'[d].user /\ u.email # args'[d].email
    BY <2>1, <2>2, <2>4, <1>1, <1>2, <1>3 DEF AccountsUniq
  <2>5. ASSUME NEW d \in Client, HasWorkspace(d)' PROVE args'[d].slug \notin SlugsIn'
    BY <2>1, <2>3, <2>5, <1>1, <1>2, <1>3 DEF AccountsUniq
  <2>6. ASSUME NEW d \in Client, NEW e \in Client, d # e, HasUser(d)', HasUser(e)'
        PROVE  args'[d].user # args'[e].user /\ args'[d].email # args'[e].email
    BY <2>2, <2>6, <1>1, <1>2, <1>3 DEF AccountsUniq
  <2>7. ASSUME NEW d \in Client, NEW e \in Client, d # e, HasWorkspace(d)', HasWorkspace(e)'
        PROVE  args'[d].slug # args'[e].slug
    BY <2>3, <2>7, <1>1, <1>2, <1>3 DEF AccountsUniq
  <2>8. QED
    BY <2>1, <2>4, <2>5, <2>6, <2>7, <1>1 DEF AccountsUniq
<1>6. QED
  BY <1>4, <1>5

-----------------------------------------------------------------------------

LEMMA AccountsStutter == ASSUME AccountsInv, UNCHANGED accountVars PROVE AccountsInv'
<1> USE DEF accountVars, AccountsInv
<1>1. AccountsTypeOK'
  BY DEF AccountsTypeOK
<1>2. \A c \in Client : RequestOK(c)'
  BY DEF RequestOK
<1>3. AccountHasHome' /\ RefusalsAreDue'
  BY DEF AccountHasHome, RefusalsAreDue, SlugsIn
<1>4. AccountsUniq'
  BY DEF AccountsUniq, HasUser, HasWorkspace, SlugsIn
<1>5. QED
  BY <1>1, <1>2, <1>3, <1>4

\* The promises and what they rest on hold for ever.
LEMMA AccountsInvariant == AccountsSpec => []AccountsInv
<1>1. AccountsInit => AccountsInv
  BY AccountsInitial
<1>2. AccountsInv /\ [AccountsNext]_accountVars => AccountsInv'
  <2> SUFFICES ASSUME AccountsInv, [AccountsNext]_accountVars PROVE AccountsInv'
    OBVIOUS
  <2>1. CASE AccountsNext
    <3>1. PICK c \in Client : StepOf(c)
      BY <2>1 DEF AccountsNext, StepOf
    <3>2. AccountsTypeOK'
      BY <3>1, AccountsTypesStep DEF AccountsInv
    <3>3. \A d \in Client : RequestOK(d)'
      BY <3>1, RequestStep DEF AccountsInv
    <3>4. AccountHasHome' /\ RefusalsAreDue' /\ AccountsUniq'
      BY <3>1, HomeStep, RefusalStep, AccountsUniqStep
    <3>5. QED
      BY <3>2, <3>3, <3>4 DEF AccountsInv
  <2>2. CASE UNCHANGED accountVars
    BY <2>2, AccountsStutter
  <2>3. QED
    BY <2>1, <2>2
<1>3. QED
  BY <1>1, <1>2, PTL DEF AccountsSpec

\* Every account has a workspace and every workspace its owner's membership,
\* wherever Register and Create stop.
THEOREM AccountsHaveHomes == AccountsSpec => []AccountHasHome
<1>1. AccountsInv => AccountHasHome
  BY DEF AccountsInv
<1>2. QED
  BY <1>1, AccountsInvariant, PTL

\* Nobody is told "conflict" or "email is already registered" without the row
\* that says so.
THEOREM RefusalsHaveReasons == AccountsSpec => []RefusalsAreDue
<1>1. AccountsInv => RefusalsAreDue
  BY DEF AccountsInv
<1>2. QED
  BY <1>1, AccountsInvariant, PTL

\* Each email has one account and each slug one workspace, for any number of
\* requests that race for them.
THEOREM NamesAreUnique == AccountsSpec => []EmailsAndSlugsAreUnique
<1>1. AccountsInv => EmailsAndSlugsAreUnique
  BY DEF AccountsInv, AccountsUniq, EmailsAndSlugsAreUnique
<1>2. QED
  BY <1>1, AccountsInvariant, PTL

\* Every variable keeps its type: no statement uses what was not set.
THEOREM AccountsTypeCorrect == AccountsSpec => []AccountsTypeOK
<1>1. AccountsInv => AccountsTypeOK
  BY DEF AccountsInv
<1>2. QED
  BY <1>1, AccountsInvariant, PTL

\* The forms that make accounts and workspaces behave as Accounts says, whatever
\* else the browsers do: what is proved of AccountsSpec holds of the whole.
THEOREM PagesRunAccounts == WebSpec => AccountsSpec
<1>1. WebInit => AccountsInit
  BY DEF WebInit
<1>2. [WebNext]_webVars => [AccountsNext]_accountVars
  BY PageSteps
<1>3. QED
  BY <1>1, <1>2, PTL DEF WebSpec, AccountsSpec

-----------------------------------------------------------------------------
(* The masked value *)

\* The numbers; an answer that counts is awaited only while loading.
Numbers ==
    /\ requestRef \in Nat
    /\ inFlight \subseteq 1..requestRef
    /\ remaining \in 1..RevealSeconds

Switches ==
    /\ revealed \in BOOLEAN /\ loading \in BOOLEAN /\ armed \in BOOLEAN
    /\ focused \in BOOLEAN /\ leftEarly \in BOOLEAN

\* Nothing that is or could become visible is on a tab that was not left early.
Visibility ==
    /\ requestRef \in inFlight => loading
    /\ armed => revealed
    /\ ~(revealed /\ loading)
    /\ ~focused /\ (revealed \/ loading) => leftEarly

MaskInv == Numbers /\ Switches /\ Visibility

\* A new number is the number of no request.
LEMMA FreshNumber == Numbers => requestRef + 1 \notin inFlight
  BY DEF Numbers

LEMMA MaskStep == MaskInv /\ (MaskNext \/ Unmount) => MaskInv'
<1> SUFFICES ASSUME MaskInv, MaskNext \/ Unmount PROVE MaskInv'
  OBVIOUS
<1> USE DEF MaskInv
<1>1. Numbers'
  <2>1. CASE Show
    <3>1. requestRef' = requestRef + 1 /\ inFlight' = inFlight \cup {requestRef'}
          /\ remaining' = remaining
      BY <2>1 DEF Show
    <3>2. QED
      BY ONLY <3>1, MaskInv DEF MaskInv, Numbers
  <2>2. CASE \E n \in 1..requestRef, ok \in BOOLEAN : Answer(n, ok)
    <3>1. /\ requestRef' = requestRef /\ inFlight' \subseteq inFlight
          /\ remaining' \in {remaining, RevealSeconds}
      BY <2>2 DEF Answer
    <3>2. QED
      BY ONLY <3>1, MaskInv, MaskedSecretAssumption DEF MaskInv, Numbers, MaskedSecretAssumption
  <2>3. CASE Hide /\ inFlight' = inFlight
    <3>1. requestRef' = requestRef + 1 /\ remaining' = RevealSeconds /\ inFlight' = inFlight
      BY <2>3 DEF Hide
    <3>2. QED
      BY ONLY <3>1, MaskInv, MaskedSecretAssumption DEF MaskInv, Numbers, MaskedSecretAssumption
  <2>4. CASE UNCHANGED <<requestRef, inFlight, remaining>>
    BY <2>4 DEF Numbers
  <2>5. CASE CountDown
    <3>1. CASE remaining > 1 /\ remaining' = remaining - 1 /\ UNCHANGED <<requestRef, inFlight>>
      BY ONLY <3>1, MaskInv, MaskedSecretAssumption DEF MaskInv, Numbers, MaskedSecretAssumption
    <3>2. \/ Hide /\ inFlight' = inFlight
          \/ remaining > 1 /\ remaining' = remaining - 1 /\ UNCHANGED <<requestRef, inFlight>>
      BY <2>5, Zenon DEF CountDown
    <3>3. QED
      BY <2>3, <3>1, <3>2
  <2>6. CASE Unmount
    <3>1. requestRef' = requestRef + 1 /\ remaining' = RevealSeconds /\ inFlight' = inFlight
      BY <2>6 DEF Unmount
    <3>2. QED
      BY ONLY <3>1, MaskInv, MaskedSecretAssumption DEF MaskInv, Numbers, MaskedSecretAssumption
  <2>7. QED
    BY <2>1, <2>2, <2>3, <2>4, <2>5, <2>6 DEF MaskNext, RunEffects, HideClick, Leave, Return
<1>2. Switches'
  BY DEF Switches, MaskNext, Show, Answer, RunEffects, CountDown, HideClick, Leave,
         Return, Unmount, Hide
<1>3. Visibility'
  <2> USE DEF Switches, Visibility
  <2>1. CASE Show
    BY <2>1 DEF Show
  <2>2. CASE \E n \in 1..requestRef, ok \in BOOLEAN : Answer(n, ok)
    <3>1. PICK n \in 1..requestRef, ok \in BOOLEAN : Answer(n, ok)
      BY <2>2
    <3>2. CASE requestRef = n
      <4>1. /\ loading /\ ~revealed /\ ~armed /\ loading' = FALSE /\ n \notin inFlight'
            /\ UNCHANGED <<requestRef, armed, focused, leftEarly>>
        BY <3>1, <3>2 DEF Answer
      <4>2. QED
        BY <3>2, <4>1
    <3>3. CASE requestRef # n
      <4>1. inFlight' \subseteq inFlight
            /\ UNCHANGED <<loading, revealed, requestRef, armed, focused, leftEarly>>
        BY <3>1, <3>3 DEF Answer
      <4>2. QED
        BY <4>1
    <3>4. QED
      BY <3>2, <3>3
  <2>3. CASE CountDown
    <3>1. CASE Hide /\ UNCHANGED <<loading, inFlight, focused, leftEarly>>
      BY <3>1, FreshNumber DEF Hide
    <3>2. CASE UNCHANGED <<revealed, requestRef, armed, loading, inFlight, focused, leftEarly>>
      BY <3>2
    <3>3. QED
      BY <2>3, <3>1, <3>2 DEF CountDown
  <2>4. CASE HideClick \/ Leave
    BY <2>4, FreshNumber DEF HideClick, Leave, Hide
  <2>5. CASE RunEffects \/ Return
    BY <2>5 DEF RunEffects, Return
  <2>6. CASE Unmount
    BY <2>6, FreshNumber DEF Unmount
  <2>7. QED
    BY <2>1, <2>2, <2>3, <2>4, <2>5, <2>6 DEF MaskNext
<1>4. QED
  BY <1>1, <1>2, <1>3

LEMMA MaskInvariant == WebSpec => []MaskInv
<1>1. WebInit => MaskInv
  <2> SUFFICES ASSUME MaskInit PROVE MaskInv
    BY DEF WebInit
  <2>1. Numbers
    BY MaskedSecretAssumption DEF MaskInit, Numbers, MaskedSecretAssumption
  <2>2. Switches /\ Visibility
    BY DEF MaskInit, Switches, Visibility
  <2>3. QED
    BY <2>1, <2>2 DEF MaskInv
<1>2. MaskInv /\ [WebNext]_webVars => MaskInv'
  <2>1. MaskInv /\ UNCHANGED maskVars => MaskInv'
    BY DEF MaskInv, Numbers, Switches, Visibility, maskVars
  <2>2. QED
    BY <2>1, PageSteps, MaskStep
<1>3. QED
  BY <1>1, <1>2, PTL DEF WebSpec

\* A value is on an abandoned tab only if the tab was left with the value on its
\* way or not yet armed, for any number of requests and late answers.
THEOREM AbandonedTabsShowNothing == WebSpec => []AwayOnlyIfLeftEarly
<1>1. MaskInv => AwayOnlyIfLeftEarly
  BY DEF MaskInv, Visibility, AwayOnlyIfLeftEarly
<1>2. QED
  BY <1>1, MaskInvariant, PTL

-----------------------------------------------------------------------------
(* The edit form *)

\* Submissions that may still be saved, or saved again, and those that were.
Sent == {queue[k] : k \in 1..Len(queue)} \cup orphans
Written == {saved[n] : n \in {m \in 1..Len(saved) : saved[m].draft # 0}}

FormTypes ==
    /\ FormTypeOK
    /\ Len(saved) <= MaxSaved
    /\ outcome # "none" => queue # <<>>

\* Submissions of one draft carry one base; those of the draft in the form carry
\* the form's, and only a render tells expected from base.
Origin ==
    /\ \A s \in Sent \cup Written :
         /\ s.draft \in 1..draft
         /\ ~s.rerendered => s.expected = s.base
         /\ s.draft = draft => s.base = base /\ (s.rerendered => rerendered)
    /\ \A s, t \in Sent \cup Written : s.draft = t.draft => s.base = t.base
    /\ open /\ ~rerendered => base = currentVersion
    /\ open => draft # 0

\* Of one draft, what is sent after a render is saved after what was sent before:
\* a page sends in order, and one that was reloaded leaves one submission behind.
InOrder ==
    /\ \A s \in Written, t \in Sent :
         s.draft = t.draft /\ s.rerendered => t.rerendered
    /\ \A k, l \in 1..Len(queue) :
         k < l /\ queue[k].draft = queue[l].draft /\ queue[k].rerendered => queue[l].rerendered
    /\ \A o \in orphans :
         /\ open => o.draft < draft
         /\ \A k \in 1..Len(queue) : o.draft < queue[k].draft
         /\ \A p \in orphans : p.draft = o.draft => p = o

FormInv == FormTypes /\ Origin /\ InOrder /\ DraftReplacesItsBase

LEMMA FormInitial == FormInit => FormInv
<1> SUFFICES ASSUME FormInit PROVE FormInv
  OBVIOUS
<1> USE UpdateFormAssumption DEF FormInit, UpdateFormAssumption, SomeoneElse
<1>1. FormTypes
  <2>1. SomeoneElse(1) \in Save
    BY DEF Save
  <2>2. saved \in Seq(Save) /\ queue \in Seq(Save) /\ Len(saved) = 1
    BY <2>1
  <2>3. open \in BOOLEAN /\ pending \in BOOLEAN /\ rerendered \in BOOLEAN
    OBVIOUS
  <2>4. /\ currentVersion \in 1..1 /\ base \in 1..1 /\ draft \in 0..MaxDrafts
        /\ 1 <= MaxSaved
    OBVIOUS
  <2>5. QED
    BY <2>2, <2>3, <2>4 DEF FormTypes, FormTypeOK
<1>2. Sent = {} /\ Written = {}
  BY DEF Sent, Written
<1>3. Origin /\ InOrder
  BY <1>2 DEF Origin, InOrder
<1>4. DraftReplacesItsBase
  BY DEF DraftReplacesItsBase
<1>5. QED
  BY <1>1, <1>3, <1>4 DEF FormInv

\* The version a save makes replaces what its author saw, and no other version
\* has its draft.
LEMMA SaveStep ==
  ASSUME FormInv, NEW s \in Sent, Fits(s), saved' = Append(saved, s)
  PROVE  DraftReplacesItsBase'
<1> DEFINE n == Len(saved) + 1
<1>1. saved \in Seq(Save) /\ s \in Save
  BY DEF FormInv, FormTypes, FormTypeOK, Sent
<1>2. saved' \in Seq(Save) /\ Len(saved') = n /\ saved'[n] = s
      /\ \A m \in 1..n - 1 : saved'[m] = saved[m]
  BY <1>1
<1>3. ASSUME ~s.rerendered PROVE s.base = n - 1
  <2>1. s.expected \in 1..MaxSaved /\ Len(saved) \in Nat
    BY <1>1 DEF Save
  <2>2. s.expected = s.base
    BY <1>3 DEF FormInv, Origin
  <2>3. s.expected = 0 \/ s.expected = Len(saved)
    BY DEF Fits
  <2>4. QED
    BY ONLY <2>1, <2>2, <2>3, UpdateFormAssumption DEF UpdateFormAssumption
<1>4. ASSUME ~s.rerendered, NEW m \in 1..n - 1, saved[m].draft = s.draft PROVE FALSE
  <2>1. s.draft # 0 /\ saved[m] \in Written
    BY <1>4, <1>1 DEF FormInv, Origin, Written
  <2>2. saved[m].base = s.base
    BY <1>4, <2>1 DEF FormInv, Origin
  <2>3. ~saved[m].rerendered
    BY <1>4, <2>1 DEF FormInv, InOrder
  <2>4. saved[m].base = m - 1
    BY <1>1, <1>4, <2>1, <2>3 DEF FormInv, DraftReplacesItsBase
  <2>5. QED
    BY <1>3, <1>4, <2>2, <2>4
<1>5. QED
  BY <1>1, <1>2, <1>3, <1>4 DEF FormInv, DraftReplacesItsBase

LEMMA SentAndWritten ==
  ASSUME FormTypes
  PROVE  /\ Sent \subseteq Save /\ Written \subseteq Save
         /\ \A s \in Sent \cup Written :
              s.draft \in Nat /\ s.expected \in 1..MaxSaved /\ s.base \in 1..MaxSaved
<1>1. Sent \subseteq Save /\ Written \subseteq Save
  BY DEF FormTypes, FormTypeOK, Sent, Written
<1>2. \A s \in Save : s.draft \in Nat /\ s.expected \in 1..MaxSaved /\ s.base \in 1..MaxSaved
  BY DEF Save
<1>3. QED
  BY <1>1, <1>2

\* A version more, up to the bound.
LEMMA OneMoreVersion ==
  ASSUME saved \in Seq(Save), NEW s \in Save, Len(saved) < MaxSaved
  PROVE  /\ Append(saved, s) \in Seq(Save) /\ Len(Append(saved, s)) <= MaxSaved
         /\ 1..Len(saved) \subseteq 1..Len(Append(saved, s))
<1>1. Append(saved, s) \in Seq(Save) /\ Len(Append(saved, s)) = Len(saved) + 1
  OBVIOUS
<1>2. MaxSaved \in Nat /\ Len(saved) \in Nat
  BY UpdateFormAssumption DEF UpdateFormAssumption
<1>3. QED
  BY <1>1, <1>2

\* A save writes at most itself.
LEMMA WrittenGrows ==
  ASSUME saved \in Seq(Save), NEW s \in Save, saved' = saved \/ saved' = Append(saved, s)
  PROVE  Written' \subseteq Written \cup {s}
BY DEF Written

\* No new submission, and the form is still that of the same draft.
LEMMA OriginKept ==
  ASSUME Origin, Sent' \cup Written' \subseteq Sent \cup Written,
         UNCHANGED <<draft, base>>, rerendered => rerendered',
         open' /\ ~rerendered' => base' = currentVersion', open' => open
  PROVE  Origin'
  BY DEF Origin

LEMMA FormTypesStep ==
  ASSUME FormTypes, FormNext \/ Reload
  PROVE  FormTypes'
<1> USE UpdateFormAssumption DEF FormTypes, FormTypeOK, UpdateFormAssumption
<1>1. CASE OpenForm
  <2>1. draft' \in 0..MaxDrafts
    BY <1>1 DEF OpenForm
  <2>2. QED
    BY <1>1, <2>1 DEF OpenForm
<1>2. CASE Cancel
  BY <1>2 DEF Cancel
<1>3. CASE Submit
  <2>1. [draft |-> draft, expected |-> Expected, base |-> base, rerendered |-> rerendered] \in Save
    <3>1. currentVersion \in 1..MaxSaved /\ base \in 1..MaxSaved
      OBVIOUS
    <3>2. draft \in 0..MaxDrafts /\ rerendered \in BOOLEAN
      OBVIOUS
    <3>3. QED
      BY ONLY <3>1, <3>2 DEF Save, Expected
  <2>2. queue' \in Seq(Save) /\ queue' # <<>>
    BY <1>3, <2>1 DEF Submit
  <2>3. QED
    BY <1>3, <2>2 DEF Submit
<1>4. CASE Answered
  <2>1. queue' \in Seq(Save) /\ outcome' = "none" /\ pending' \in BOOLEAN
    BY <1>4 DEF Answered
  <2>2. rerendered' \in BOOLEAN
    BY <1>4 DEF Answered, Render
  <2>3. currentVersion' \in 1..Len(saved)
    BY <1>4 DEF Answered, Render
  <2>4. UNCHANGED <<saved, open, draft, orphans, base>>
    BY <1>4 DEF Answered
  <2>5. QED
    BY <2>1, <2>2, <2>3, <2>4
<1>5. CASE RenderedByOther
  <2>1. currentVersion' \in 1..Len(saved) /\ rerendered' \in BOOLEAN
    BY <1>5 DEF RenderedByOther, Render
  <2>2. QED
    BY <1>5, <2>1 DEF RenderedByOther
<1>6. CASE \E lost \in BOOLEAN : Put(lost)
  <2>1. \/ saved' = saved
        \/ saved' = Append(saved, Head(queue)) /\ Len(saved) < MaxSaved
    BY <1>6 DEF Put
  <2>2. queue # <<>> /\ outcome' \in {"saved", "conflict", "failed"}
    BY <1>6 DEF Put
  <2>3. /\ saved' \in Seq(Save) /\ Len(saved') <= MaxSaved
        /\ 1..Len(saved) \subseteq 1..Len(saved')
    <3>1. Head(queue) \in Save
      BY <2>2
    <3>2. QED
      BY <2>1, <3>1, OneMoreVersion
  <2>4. UNCHANGED <<currentVersion, open, draft, pending, queue, orphans, base, rerendered>>
    BY <1>6 DEF Put
  <2>5. QED
    BY <2>2, <2>3, <2>4
<1>7. CASE \E s \in orphans : SaveOrphan(s)
  <2>1. PICK s \in orphans : SaveOrphan(s)
    BY <1>7
  <2>2. \/ saved' = saved
        \/ saved' = Append(saved, s) /\ Len(saved) < MaxSaved
    BY <2>1 DEF SaveOrphan
  <2>3. /\ saved' \in Seq(Save) /\ Len(saved') <= MaxSaved
        /\ 1..Len(saved) \subseteq 1..Len(saved')
    <3>1. s \in Save
      BY <2>1
    <3>2. QED
      BY <2>2, <3>1, OneMoreVersion
  <2>4. /\ UNCHANGED <<currentVersion, open, draft, pending, queue, outcome, base, rerendered>>
        /\ orphans' \subseteq orphans
    BY <2>1 DEF SaveOrphan
  <2>5. QED
    BY <2>3, <2>4
<1>8. CASE OthersWrite
  <2>1. SomeoneElse(Len(saved)) \in Save
    BY <1>8 DEF OthersWrite, SomeoneElse, Save
  <2>2. saved' = Append(saved, SomeoneElse(Len(saved))) /\ Len(saved) < MaxSaved
    BY <1>8 DEF OthersWrite
  <2>3. /\ saved' \in Seq(Save) /\ Len(saved') <= MaxSaved
        /\ 1..Len(saved) \subseteq 1..Len(saved')
    BY <2>1, <2>2
  <2>4. UNCHANGED <<currentVersion, open, draft, pending, queue, outcome, orphans, base, rerendered>>
    BY <1>8 DEF OthersWrite
  <2>5. QED
    BY <2>3, <2>4
<1>9. CASE Reload
  <2>1. orphans' \subseteq Save
    BY <1>9 DEF Reload
  <2>2. currentVersion' \in 1..Len(saved)
    BY <1>9 DEF Reload
  <2>3. /\ open' = FALSE /\ pending' = FALSE /\ queue' = <<>> /\ outcome' = "none"
        /\ UNCHANGED <<saved, draft, base, rerendered>>
    BY <1>9 DEF Reload
  <2>4. queue' \in Seq(Save) /\ outcome' = "none"
    BY <2>3
  <2>5. open' \in BOOLEAN /\ pending' \in BOOLEAN /\ rerendered' \in BOOLEAN
    BY <2>3, Zenon
  <2>6. UNCHANGED <<saved, draft, base>>
    BY <2>3
  <2>7. QED
    BY <2>1, <2>2, <2>4, <2>5, <2>6
<1>10. QED
  BY <1>1, <1>2, <1>3, <1>4, <1>5, <1>6, <1>7, <1>8, <1>9 DEF FormNext

\* How each step changes what is sent and written.
LEMMA OriginStep ==
  ASSUME FormTypes, Origin, FormNext \/ Reload
  PROVE  Origin'
<1> USE DEF FormTypes, FormTypeOK
<1>1. CASE OpenForm
  <2>1. /\ open /\ ~rerendered => base = currentVersion
        /\ draft' = draft + 1 /\ base' = currentVersion' /\ Sent' = Sent /\ Written' = Written
    BY <1>1 DEF OpenForm, Origin, Sent, Written
  <2>2. \A s \in Sent \cup Written : s.draft \in 1..draft' /\ s.draft # draft'
    BY <2>1 DEF Origin
  <2>3. draft' # 0
    BY <2>1
  <2>4. QED
    BY <2>1, <2>2, <2>3 DEF Origin
<1>2. CASE Submit
  <2> DEFINE new == [draft |-> draft, expected |-> Expected, base |-> base,
                     rerendered |-> rerendered]
  <2>1. /\ queue' = Append(queue, new) /\ open
        /\ UNCHANGED <<saved, currentVersion, open, draft, orphans, base, rerendered>>
    BY <1>2 DEF Submit
  <2>2. Sent' \subseteq Sent \cup {new} /\ Written' = Written
    BY <2>1 DEF Sent, Written
  <2>3. /\ new.draft = draft /\ new.base = base
        /\ new.rerendered <=> rerendered
        /\ ~new.rerendered => new.expected = new.base
    BY <2>1 DEF Origin, Expected
  <2>4. draft \in 1..draft
    <3>1. draft \in Nat /\ draft # 0
      BY <2>1 DEF Origin
    <3>2. QED
      BY ONLY <3>1
  <2> HIDE DEF new
  <2>5. QED
    BY <2>1, <2>2, <2>3, <2>4 DEF Origin
<1>3. CASE Cancel \/ RenderedByOther
  BY <1>3, OriginKept DEF Cancel, RenderedByOther, Render, Origin, Sent, Written
<1>4. CASE Answered
  <2>1. queue' = Tail(queue) /\ queue # <<>>
        /\ UNCHANGED <<saved, open, draft, orphans, base>>
    BY <1>4 DEF Answered
  <2>2. Sent' \subseteq Sent /\ Written' = Written
    BY <2>1 DEF Sent, Written
  <2>3. rerendered => rerendered'
    BY <1>4 DEF Answered, Render
  <2>4. ~rerendered' => currentVersion' = currentVersion
    BY <1>4 DEF Answered, Render
  <2>5. QED
    BY <2>1, <2>2, <2>3, <2>4, OriginKept DEF Origin
<1>5. CASE \E lost \in BOOLEAN : Put(lost)
  <2>1. /\ saved' = saved \/ saved' = Append(saved, Head(queue))
        /\ queue # <<>>
        /\ UNCHANGED <<currentVersion, open, draft, queue, orphans, base, rerendered>>
    BY <1>5 DEF Put
  <2>2. Sent' = Sent /\ Head(queue) \in Sent
    BY <2>1 DEF Sent
  <2>3. Written' \subseteq Written \cup {Head(queue)}
    BY <2>1, WrittenGrows
  <2>4. QED
    BY <2>1, <2>2, <2>3, OriginKept DEF Origin
<1>6. CASE \E s \in orphans : SaveOrphan(s)
  <2>1. PICK s \in orphans : SaveOrphan(s)
    BY <1>6
  <2>2. /\ saved' = saved \/ saved' = Append(saved, s)
        /\ orphans' \subseteq orphans
        /\ UNCHANGED <<currentVersion, open, draft, queue, base, rerendered>>
    BY <2>1 DEF SaveOrphan
  <2>3. Sent' \subseteq Sent /\ s \in Sent
    BY <2>2 DEF Sent
  <2>4. Written' \subseteq Written \cup {s}
    BY <2>1, <2>2, WrittenGrows
  <2>5. QED
    BY <2>2, <2>3, <2>4, OriginKept DEF Origin
<1>7. CASE OthersWrite
  <2>1. /\ saved' = Append(saved, SomeoneElse(Len(saved)))
        /\ UNCHANGED <<currentVersion, open, draft, queue, orphans, base, rerendered>>
    BY <1>7 DEF OthersWrite
  <2>2. SomeoneElse(Len(saved)).draft = 0
    BY DEF SomeoneElse
  <2>3. Sent' = Sent /\ Written' \subseteq Written
    BY <2>1, <2>2 DEF Sent, Written
  <2>4. QED
    BY <2>1, <2>3, OriginKept DEF Origin
<1>8. CASE Reload
  <2>1. /\ queue' = <<>> /\ open' = FALSE
        /\ orphans' \subseteq orphans \cup IF queue # <<>> THEN {Head(queue)} ELSE {}
        /\ UNCHANGED <<saved, draft, base, rerendered>>
    BY <1>8 DEF Reload
  <2>2. Sent' \subseteq Sent /\ Written' = Written
    BY <2>1 DEF Sent, Written
  <2>3. QED
    BY <2>1, <2>2, OriginKept
<1>9. QED
  BY <1>1, <1>2, <1>3, <1>4, <1>5, <1>6, <1>7, <1>8 DEF FormNext

LEMMA OrderStep ==
  ASSUME FormTypes, Origin, InOrder, FormNext \/ Reload
  PROVE  InOrder'
<1> USE DEF FormTypes, FormTypeOK
<1>0. /\ \A k \in 1..Len(queue) : queue[k] \in Sent
      /\ orphans \subseteq Sent
      /\ \A s \in Sent \cup Written : s.draft \in Nat /\ s.draft <= draft
  BY SentAndWritten DEF Sent, Origin
<1>1. CASE OpenForm
  <2>1. /\ draft' = draft + 1 /\ Sent' = Sent /\ Written' = Written
        /\ UNCHANGED <<queue, orphans>>
    BY <1>1 DEF OpenForm, Sent, Written
  <2>2. \A o \in orphans : o.draft < draft'
    BY <2>1, <1>0
  <2>3. QED
    BY <2>1, <2>2 DEF InOrder
<1>2. CASE Cancel \/ RenderedByOther
  BY <1>2 DEF Cancel, RenderedByOther, Render, InOrder, Sent, Written
<1>3. CASE Submit
  <2> DEFINE new == [draft |-> draft, expected |-> Expected, base |-> base,
                     rerendered |-> rerendered]
  <2>1. /\ queue' = Append(queue, new) /\ open
        /\ UNCHANGED <<saved, open, draft, orphans>>
    BY <1>3 DEF Submit
  <2>2. Sent' \subseteq Sent \cup {new} /\ Written' = Written
    BY <2>1 DEF Sent, Written
  <2>3. new.draft = draft /\ (new.rerendered <=> rerendered)
    OBVIOUS
  <2> HIDE DEF new
  <2>4. /\ Len(queue') = Len(queue) + 1 /\ queue'[Len(queue) + 1] = new
        /\ \A k \in 1..Len(queue) : queue'[k] = queue[k]
    BY <2>1
  <2>5. \A s \in Sent \cup Written : s.draft = draft /\ s.rerendered => rerendered
    BY DEF Origin
  <2>6. \A s \in Written', t \in Sent' : s.draft = t.draft /\ s.rerendered => t.rerendered
    BY <2>2, <2>3, <2>5 DEF InOrder
  <2>7. \A k, l \in 1..Len(queue') :
          k < l /\ queue'[k].draft = queue'[l].draft /\ queue'[k].rerendered
            => queue'[l].rerendered
    <3> SUFFICES ASSUME NEW k \in 1..Len(queue'), NEW l \in 1..Len(queue'), k < l,
                        queue'[k].draft = queue'[l].draft, queue'[k].rerendered
                 PROVE  queue'[l].rerendered
      OBVIOUS
    <3>1. k \in 1..Len(queue) /\ (l \in 1..Len(queue) \/ l = Len(queue) + 1)
      BY <2>4
    <3>2. CASE l \in 1..Len(queue)
      BY <3>1, <3>2, <2>4 DEF InOrder
    <3>3. CASE l = Len(queue) + 1
      BY <3>1, <3>3, <2>3, <2>4, <2>5, <1>0
    <3>4. QED
      BY <3>1, <3>2, <3>3
  <2>8. \A o \in orphans' :
          /\ open' => o.draft < draft'
          /\ \A k \in 1..Len(queue') : o.draft < queue'[k].draft
          /\ \A p \in orphans' : p.draft = o.draft => p = o
    BY <2>1, <2>3, <2>4 DEF InOrder
  <2>9. QED
    BY <2>6, <2>7, <2>8 DEF InOrder
<1>4. CASE Answered
  <2>1. queue' = Tail(queue) /\ queue # <<>> /\ UNCHANGED <<saved, open, draft, orphans>>
    BY <1>4 DEF Answered
  <2>2. Sent' \subseteq Sent /\ Written' = Written
    BY <2>1 DEF Sent, Written
  <2>3. \A k \in 1..Len(queue') : k + 1 \in 1..Len(queue) /\ queue'[k] = queue[k + 1]
    BY <2>1
  <2>4. \A k, l \in 1..Len(queue') :
          k < l /\ queue'[k].draft = queue'[l].draft /\ queue'[k].rerendered
            => queue'[l].rerendered
    <3> SUFFICES ASSUME NEW k \in 1..Len(queue'), NEW l \in 1..Len(queue'), k < l,
                        queue'[k].draft = queue'[l].draft, queue'[k].rerendered
                 PROVE  queue'[l].rerendered
      OBVIOUS
    <3>1. /\ k + 1 \in 1..Len(queue) /\ l + 1 \in 1..Len(queue) /\ k + 1 < l + 1
          /\ queue'[k] = queue[k + 1] /\ queue'[l] = queue[l + 1]
      BY <2>3
    <3>2. QED
      BY <3>1 DEF InOrder
  <2>5. \A o \in orphans' :
          /\ open' => o.draft < draft'
          /\ \A k \in 1..Len(queue') : o.draft < queue'[k].draft
          /\ \A p \in orphans' : p.draft = o.draft => p = o
    BY <2>1, <2>3 DEF InOrder
  <2>6. QED
    BY <2>2, <2>4, <2>5 DEF InOrder
<1>5. CASE \E lost \in BOOLEAN : Put(lost)
  <2>1. /\ saved' = saved \/ saved' = Append(saved, Head(queue))
        /\ queue # <<>>
        /\ UNCHANGED <<open, draft, queue, orphans>>
    BY <1>5 DEF Put
  <2>2. Sent' = Sent /\ Written' \subseteq Written \cup {Head(queue)}
    BY <2>1, WrittenGrows DEF Sent
  <2>3. 1 \in 1..Len(queue) /\ Head(queue) = queue[1]
    BY <2>1
  <2>4. \A t \in Sent : Head(queue).draft = t.draft /\ Head(queue).rerendered => t.rerendered
    <3>1. \A k \in 1..Len(queue) : k = 1 \/ 1 < k
      OBVIOUS
    <3>2. \A o \in orphans : o.draft # Head(queue).draft
      BY <2>3, <1>0 DEF InOrder
    <3>3. QED
      BY <2>3, <3>1, <3>2 DEF InOrder, Sent
  <2>5. QED
    BY <2>1, <2>2, <2>4 DEF InOrder
<1>6. CASE \E s \in orphans : SaveOrphan(s)
  <2>1. PICK s \in orphans : SaveOrphan(s)
    BY <1>6
  <2>2. /\ saved' = saved \/ saved' = Append(saved, s)
        /\ orphans' = orphans \ {s}
        /\ UNCHANGED <<open, draft, queue>>
    BY <2>1 DEF SaveOrphan
  <2>3. Sent' \subseteq Sent /\ Written' \subseteq Written \cup {s}
    <3>1. Sent' \subseteq Sent
      BY <2>2 DEF Sent
    <3>2. Written' \subseteq Written \cup {s}
      BY <2>1, <2>2, WrittenGrows
    <3>3. QED
      BY <3>1, <3>2
  <2>4. \A t \in Sent' : t.draft # s.draft
    <3>1. \A k \in 1..Len(queue) : queue[k].draft # s.draft
      BY <1>0 DEF InOrder
    <3>2. \A o \in orphans \ {s} : o.draft # s.draft
      BY DEF InOrder
    <3>3. QED
      BY <2>2, <3>1, <3>2 DEF Sent
  <2>5. QED
    BY <2>2, <2>3, <2>4 DEF InOrder
<1>7. CASE OthersWrite
  <2>1. /\ saved' = Append(saved, SomeoneElse(Len(saved)))
        /\ UNCHANGED <<open, draft, queue, orphans>>
    BY <1>7 DEF OthersWrite
  <2>2. SomeoneElse(Len(saved)).draft = 0
    BY DEF SomeoneElse
  <2>3. Sent' = Sent /\ Written' \subseteq Written
    <3>1. Sent' = Sent
      BY <2>1 DEF Sent
    <3>2. Written' \subseteq Written
      <4> DEFINE other == SomeoneElse(Len(saved))
      <4>1. saved \in Seq(Save) /\ saved' = Append(saved, other) /\ other.draft = 0
        BY <2>1, <2>2
      <4> HIDE DEF other
      <4>2. QED
        BY ONLY <4>1 DEF Written
    <3>3. QED
      BY <3>1, <3>2
  <2>4. QED
    BY <2>1, <2>3 DEF InOrder
<1>8. CASE Reload
  <2>1. /\ queue' = <<>> /\ open' = FALSE
        /\ orphans' \subseteq orphans \cup IF queue # <<>> THEN {Head(queue)} ELSE {}
        /\ UNCHANGED <<saved, draft>>
    BY <1>8 DEF Reload
  <2>2. Sent' \subseteq Sent /\ Written' = Written
    BY <2>1 DEF Sent, Written
  <2>3. queue # <<>> => \A o \in orphans : o.draft # Head(queue).draft
    BY <1>0 DEF InOrder
  <2>4. \A o, p \in orphans' : p.draft = o.draft => p = o
    BY <2>1, <2>3 DEF InOrder
  <2>5. QED
    BY <2>1, <2>2, <2>4 DEF InOrder
<1>9. QED
  BY <1>1, <1>2, <1>3, <1>4, <1>5, <1>6, <1>7, <1>8 DEF FormNext

\* Only the API appends a draft to the versions.
LEMMA DraftStep ==
  ASSUME FormInv, FormNext \/ Reload
  PROVE  DraftReplacesItsBase'
<1> USE DEF FormInv, FormTypes, FormTypeOK
<1>1. CASE saved' = saved
  BY <1>1 DEF DraftReplacesItsBase
<1>2. CASE \E s \in Sent : Fits(s) /\ saved' = Append(saved, s)
  BY <1>2, SaveStep
<1>3. CASE OthersWrite
  <2>1. saved' = Append(saved, SomeoneElse(Len(saved)))
    BY <1>3 DEF OthersWrite
  <2>2. SomeoneElse(Len(saved)).draft = 0
    BY DEF SomeoneElse
  <2>3. QED
    BY <2>1, <2>2 DEF DraftReplacesItsBase
<1>4. CASE \E lost \in BOOLEAN : Put(lost)
  <2>1. /\ queue # <<>>
        /\ \/ saved' = saved
           \/ /\ Fits(Head(queue))
              /\ saved' = Append(saved, Head(queue))
    BY <1>4 DEF Put
  <2>2. Head(queue) \in Sent
    BY <2>1 DEF Sent
  <2>3. QED
    BY <1>1, <1>2, <2>1, <2>2
<1>5. CASE \E s \in orphans : SaveOrphan(s)
  BY <1>1, <1>2, <1>5 DEF SaveOrphan, Sent
<1>6. QED
  BY <1>1, <1>3, <1>4, <1>5 DEF FormNext, OpenForm, Cancel, Submit, Answered,
     RenderedByOther, Reload

LEMMA FormInvariant == WebSpec => []FormInv
<1>1. WebInit => FormInv
  BY FormInitial DEF WebInit
<1>2. FormInv /\ [WebNext]_webVars => FormInv'
  <2>1. FormInv /\ UNCHANGED formVars => FormInv'
    BY DEF FormInv, FormTypes, FormTypeOK, Origin, InOrder, Sent, Written,
           DraftReplacesItsBase, formVars
  <2>2. FormInv /\ (FormNext \/ Reload) => FormInv'
    BY FormTypesStep, OriginStep, OrderStep, DraftStep DEF FormInv
  <2>3. QED
    BY <2>1, <2>2, PageSteps
<1>3. QED
  BY <1>1, <1>2, PTL DEF WebSpec

\* An edit replaces the version its author saw and is saved once, for any number
\* of versions, drafts, resubmissions, lost answers and reloads, unless the page
\* was rendered under the open form.
THEOREM EditsReplaceWhatWasSeen == WebSpec => []DraftReplacesItsBase
<1>1. FormInv => DraftReplacesItsBase
  BY DEF FormInv
<1>2. QED
  BY <1>1, FormInvariant, PTL

-----------------------------------------------------------------------------
(* The activity page *)

\* While there is an older page, all that was shown is down to the cursor, and
\* what the walk found at its start is shown or below it.
WalkState ==
    walk = "paging" =>
        /\ cursor \in Row
        /\ \A r \in Shown : r = cursor \/ Newer(r, cursor)
        /\ present \subseteq Shown \cup Below(filter, cursor)

ListingInv == ListingTypeOK /\ WalkState /\ PagingIsExact

LEMMA NewerIsTransitive ==
  \A r, s, t \in Row : Newer(r, s) /\ Newer(s, t) => Newer(r, t)
<1> SUFFICES ASSUME NEW r \in Row, NEW s \in Row, NEW t \in Row, Newer(r, s), Newer(s, t)
             PROVE  Newer(r, t)
  OBVIOUS
<1>1. /\ r.at \in Int /\ s.at \in Int /\ t.at \in Int
      /\ r.id \in Int /\ s.id \in Int /\ t.id \in Int
  BY AuditListingAssumption DEF AuditListingAssumption, Row
<1>2. QED
  BY <1>1 DEF Newer

LEMMA LimitIsNat == \A asked \in Limits : Limit(asked) \in Nat
  BY AuditListingAssumption DEF AuditListingAssumption, Limit

\* What a page takes from the rows below its cursor: all of them, or those down
\* to the next cursor.
LEMMA PageTakes ==
  ASSUME ListingTypeOK, NEW asked \in Limits, NEW wanted, NEW from, NEW earlier,
         Page(asked, wanted, from, earlier)
  PROVE  \E top \in SUBSET Below(wanted, from) :
           /\ pages' = Append(earlier, top)
           /\ \/ walk' = "ended" /\ cursor' = NoRow /\ top = Below(wanted, from)
              \/ /\ walk' = "paging" /\ cursor' \in top
                 /\ \A r \in top : r = cursor' \/ Newer(r, cursor')
                 /\ \A r \in Below(wanted, from) \ top : Newer(cursor', r)
<1> DEFINE B == Below(wanted, from)
<1>1. PICK fetched \in SUBSET B :
        /\ IsTop(fetched, B, Limit(asked) + 1)
        /\ \/ /\ Cardinality(fetched) <= Limit(asked)
              /\ pages' = Append(earlier, fetched)
              /\ walk' = "ended"
              /\ cursor' = NoRow
           \/ /\ Cardinality(fetched) > Limit(asked)
              /\ \E top \in SUBSET fetched, last \in fetched :
                   /\ IsTop(top, fetched, Limit(asked))
                   /\ IsCursor(top, fetched, last)
                   /\ pages' = Append(earlier, top)
                   /\ cursor' = last
              /\ walk' = "paging"
  BY DEF Page
<1> HIDE DEF B
<1>2. CASE walk' = "ended"
  <2>1. Cardinality(fetched) <= Limit(asked) /\ Limit(asked) \in Nat
    BY <1>1, <1>2, LimitIsNat
  <2>2. fetched # B => Cardinality(fetched) = Limit(asked) + 1
    BY <1>1 DEF IsTop
  <2>3. fetched = B
    BY ONLY <2>1, <2>2
  <2>4. QED
    BY <1>1, <1>2, <2>3 DEF B
<1>3. CASE walk' = "paging"
  <2>1. PICK top \in SUBSET fetched, last \in fetched :
          /\ IsTop(top, fetched, Limit(asked))
          /\ IsCursor(top, fetched, last)
          /\ pages' = Append(earlier, top)
          /\ cursor' = last
    BY <1>1, <1>3
  <2>2. last \in top /\ \A r \in top : r = last \/ Newer(r, last)
    BY <2>1 DEF IsCursor
  <2>3. \A r \in B \ top : Newer(last, r)
    BY <1>1, <2>1, <2>2 DEF IsTop
  <2>4. QED
    BY <1>3, <2>1, <2>2, <2>3 DEF B
<1>4. QED
  BY <1>1, <1>2, <1>3

\* The pages read so far and one more below them.
LEMMA PageExtends ==
  ASSUME ListingTypeOK, ListingTypeOK', rows' = rows, NEW asked \in Limits,
         NEW wanted, NEW from \in Row \cup {NoRow}, NEW earlier \in Seq(SUBSET Row),
         Page(asked, wanted, from, earlier), filter' = wanted,
         \A k, l \in 1..Len(earlier) : k < l =>
           \A r \in earlier[k], s \in earlier[l] : Newer(r, s),
         \A k \in 1..Len(earlier) : \A r \in earlier[k] :
           from # NoRow /\ (r = from \/ Newer(r, from)),
         present' \subseteq (UNION {earlier[k] : k \in 1..Len(earlier)}) \cup Below(wanted, from)
  PROVE  WalkState' /\ PagingIsExact'
<1>1. PICK top \in SUBSET Below(wanted, from) :
        /\ pages' = Append(earlier, top)
        /\ \/ walk' = "ended" /\ cursor' = NoRow /\ top = Below(wanted, from)
           \/ /\ walk' = "paging" /\ cursor' \in top
              /\ \A r \in top : r = cursor' \/ Newer(r, cursor')
              /\ \A r \in Below(wanted, from) \ top : Newer(cursor', r)
  BY PageTakes
<1>2. top \subseteq Row /\ Below(wanted, from) \subseteq Row
  BY DEF Below, ListingTypeOK
<1>3. /\ Len(pages') = Len(earlier) + 1 /\ pages'[Len(earlier) + 1] = top
      /\ \A k \in 1..Len(earlier) : pages'[k] = earlier[k]
  BY <1>1, <1>2
<1>4. Shown' = (UNION {earlier[k] : k \in 1..Len(earlier)}) \cup top
  BY <1>3 DEF Shown
<1>5. NoRow \notin Row
  BY AuditListingAssumption DEF AuditListingAssumption
<1>6. \A k \in 1..Len(earlier) : \A r \in earlier[k] : \A s \in top : Newer(r, s)
  <2> SUFFICES ASSUME NEW k \in 1..Len(earlier), NEW r \in earlier[k], NEW s \in top
               PROVE  Newer(r, s)
    OBVIOUS
  <2>1. from # NoRow /\ (r = from \/ Newer(r, from)) /\ r \in Row /\ s \in Row
    BY <1>2
  <2>2. Newer(from, s)
    BY <2>1 DEF Below
  <2>3. QED
    BY <2>1, <2>2, NewerIsTransitive
<1>7. PagesDescend'
  <2> SUFFICES ASSUME NEW k \in 1..Len(pages'), NEW l \in 1..Len(pages'), k < l,
                      NEW r \in pages'[k], NEW s \in pages'[l]
               PROVE  Newer(r, s)
    BY DEF PagesDescend, Newer
  <2>1. Len(earlier) \in Nat
    OBVIOUS
  <2>2. k \in 1..Len(earlier) /\ (l \in 1..Len(earlier) \/ l = Len(earlier) + 1)
    BY <1>3, <2>1
  <2>3. QED
    BY <2>2, <1>3, <1>6
<1>8. WalkShowsWhatWasThere'
  BY <1>1, <1>4 DEF WalkShowsWhatWasThere
<1>9. WalkState'
  <2>0. Below(filter, cursor)' = Below(wanted, cursor')
    BY DEF Below, Newer
  <2> SUFFICES ASSUME walk' = "paging"
               PROVE  /\ cursor' \in Row
                      /\ \A r \in Shown' : r = cursor' \/ Newer(r, cursor')
                      /\ present' \subseteq Shown' \cup Below(wanted, cursor')
    BY <2>0 DEF WalkState, Newer
  <2>1. cursor' \in top /\ cursor' \in Row
    BY <1>1, <1>2
  <2>2. \A r \in Shown' : r = cursor' \/ Newer(r, cursor')
    <3>1. \A r \in top : r = cursor' \/ Newer(r, cursor')
      BY <1>1
    <3>2. \A k \in 1..Len(earlier) : \A r \in earlier[k] : Newer(r, cursor')
      BY <1>6, <2>1
    <3>3. QED
      BY <3>1, <3>2, <1>4
  <2>3. \A r \in Below(wanted, from) \ top : r \in Below(wanted, cursor')
    BY <1>1, <2>1, <1>5 DEF Below
  <2>4. present' \subseteq Shown' \cup Below(wanted, cursor')
    BY <2>3, <1>4
  <2>5. QED
    BY <2>1, <2>2, <2>4
<1>10. QED
  BY <1>7, <1>8, <1>9 DEF PagingIsExact

LEMMA ListingTypesStep ==
  ASSUME ListingTypeOK, ListingNext
  PROVE  ListingTypeOK'
<1> USE AuditListingAssumption DEF ListingTypeOK, AuditListingAssumption
<1>1. CASE Clock
  <2>1. now' \in 1..MaxTime
    BY <1>1 DEF Clock
  <2>2. UNCHANGED <<rows, batch, member, readerVars>>
    BY <1>1 DEF Clock
  <2>3. QED
    BY <2>1, <2>2 DEF readerVars
<1>2. ASSUME NEW p \in Recorder, NEW ids \in SUBSET RowId, NEW action \in [ids -> Action],
             Insert(p, ids, action)
      PROVE  ListingTypeOK'
  <2> DEFINE new == {[at |-> now, id |-> r, action |-> action[r], by |-> p] : r \in ids}
  <2>1. new \in SUBSET Row
    BY DEF Row
  <2>2. batch' = [batch EXCEPT ![p] = new] /\ UNCHANGED <<now, rows, member, readerVars>>
    BY <1>2 DEF Insert
  <2> HIDE DEF new
  <2>3. QED
    BY <2>1, <2>2 DEF readerVars
<1>3. ASSUME NEW p \in Recorder, Commit(p) \/ Abort(p) PROVE ListingTypeOK'
  <2>1. rows' \subseteq Row /\ batch' \in [Recorder -> SUBSET Row]
    BY <1>3 DEF Commit, Abort
  <2>2. UNCHANGED <<now, member, readerVars>>
    BY <1>3 DEF Commit, Abort
  <2>3. QED
    BY <2>1, <2>2 DEF readerVars
<1>4. ASSUME NEW asked \in Limits, NEW wanted, NEW from, NEW earlier \in Seq(SUBSET Row),
             Page(asked, wanted, from, earlier)
      PROVE  /\ walk' \in {"idle", "paging", "ended"}
             /\ cursor' \in Row \cup {NoRow} /\ pages' \in Seq(SUBSET Row)
  <2>1. PICK top \in SUBSET Below(wanted, from) :
          /\ pages' = Append(earlier, top)
          /\ \/ walk' = "ended" /\ cursor' = NoRow
             \/ walk' = "paging" /\ cursor' \in top
    BY <1>4, PageTakes
  <2>2. top \in SUBSET Row
    BY DEF Below
  <2>3. QED
    BY <2>1, <2>2
<1>5. ASSUME NEW asked \in Limits, NEW wanted \in Action \cup {NoRow}, FirstPage(asked, wanted)
      PROVE  ListingTypeOK'
  <2>1. <<>> \in Seq(SUBSET Row)
    OBVIOUS
  <2>2. /\ walk' \in {"idle", "paging", "ended"}
        /\ cursor' \in Row \cup {NoRow} /\ pages' \in Seq(SUBSET Row)
    BY <1>4, <1>5, <2>1 DEF FirstPage
  <2>3. filter' \in Action \cup {NoRow} /\ present' \subseteq Row
    BY <1>5 DEF FirstPage, Below
  <2>4. UNCHANGED <<now, rows, batch, member>>
    BY <1>5 DEF FirstPage
  <2>5. QED
    BY <2>2, <2>3, <2>4
<1>6. ASSUME NEW asked \in Limits, NextPage(asked) PROVE ListingTypeOK'
  <2>1. /\ walk' \in {"idle", "paging", "ended"}
        /\ cursor' \in Row \cup {NoRow} /\ pages' \in Seq(SUBSET Row)
    BY <1>4, <1>6 DEF NextPage
  <2>2. UNCHANGED <<now, rows, batch, member, filter, present>>
    BY <1>6 DEF NextPage
  <2>3. QED
    BY <2>1, <2>2
<1>7. CASE Refused
  BY <1>7 DEF Refused
<1>8. CASE ChangeMembership
  <2>1. member' \in BOOLEAN
    BY <1>8 DEF ChangeMembership
  <2>2. UNCHANGED <<now, rows, batch, readerVars>>
    BY <1>8 DEF ChangeMembership
  <2>3. QED
    BY <2>1, <2>2 DEF readerVars
<1>9. QED
  BY <1>1, <1>2, <1>3, <1>5, <1>6, <1>7, <1>8 DEF ListingNext

LEMMA WalkStep ==
  ASSUME ListingInv, ListingNext
  PROVE  WalkState' /\ PagingIsExact'
<1> USE DEF ListingInv
<1>0. ListingTypeOK'
  BY ListingTypesStep
<1>1. CASE UNCHANGED readerVars /\ rows \subseteq rows'
  <2>1. Shown' = Shown /\ Below(filter, cursor) \subseteq Below(filter, cursor)'
    BY <1>1 DEF Shown, Below, Newer, readerVars
  <2>2. WalkState'
    BY <1>1, <2>1 DEF WalkState, Newer, readerVars
  <2>3. PagingIsExact'
    BY <1>1, <2>1 DEF PagingIsExact, PagesDescend, WalkShowsWhatWasThere, Newer, readerVars
  <2>4. QED
    BY <2>2, <2>3
<1>2. ASSUME NEW asked \in Limits, NEW wanted \in Action \cup {NoRow}, FirstPage(asked, wanted)
      PROVE  WalkState' /\ PagingIsExact'
  <2>1. /\ filter' = wanted /\ present' = Below(wanted, NoRow) /\ rows' = rows
        /\ Page(asked, wanted, NoRow, <<>>)
    BY <1>2 DEF FirstPage
  <2>2. <<>> \in Seq(SUBSET Row) /\ 1..Len(<<>>) = {}
    OBVIOUS
  <2>3. QED
    BY <2>1, <2>2, <1>0, PageExtends
<1>3. ASSUME NEW asked \in Limits, NextPage(asked) PROVE WalkState' /\ PagingIsExact'
  <2>1. /\ walk = "paging" /\ filter' = filter /\ present' = present /\ rows' = rows
        /\ Page(asked, filter, cursor, pages)
    BY <1>3 DEF NextPage
  <2>2. /\ cursor \in Row /\ cursor # NoRow
        /\ \A r \in Shown : r = cursor \/ Newer(r, cursor)
        /\ present \subseteq Shown \cup Below(filter, cursor)
    BY <2>1, AuditListingAssumption DEF WalkState, AuditListingAssumption
  <2>3. pages \in Seq(SUBSET Row) /\ \A k \in 1..Len(pages) : pages[k] \subseteq Shown
    BY DEF ListingTypeOK, Shown
  <2>4. \A k, l \in 1..Len(pages) : k < l =>
          \A r \in pages[k], s \in pages[l] : Newer(r, s)
    BY DEF PagingIsExact, PagesDescend
  <2>5. QED
    BY <2>1, <2>2, <2>3, <2>4, <1>0, PageExtends DEF Shown
<1>4. CASE Refused
  <2>1. walk' = "idle" /\ pages' = <<>>
    BY <1>4 DEF Refused
  <2>2. WalkState' /\ WalkShowsWhatWasThere'
    BY <2>1 DEF WalkState, WalkShowsWhatWasThere
  <2>3. PagesDescend'
    BY <2>1 DEF PagesDescend
  <2>4. QED
    BY <2>2, <2>3 DEF PagingIsExact
<1>5. QED
  BY <1>1, <1>2, <1>3, <1>4 DEF ListingNext, Clock, Insert, Commit, Abort, ChangeMembership

LEMMA ListingInvariant == WebSpec => []ListingInv
<1>1. WebInit => ListingInv
  <2> SUFFICES ASSUME ListingInit PROVE ListingInv
    BY DEF WebInit
  <2> USE DEF ListingInit, NoWalk
  <2>1. now \in 1..MaxTime
    BY AuditListingAssumption DEF AuditListingAssumption
  <2>2. ListingTypeOK
    BY <2>1 DEF ListingTypeOK
  <2>3. WalkState /\ PagingIsExact
    BY DEF WalkState, PagingIsExact, PagesDescend, WalkShowsWhatWasThere
  <2>4. QED
    BY <2>2, <2>3 DEF ListingInv
<1>2. ListingInv /\ [WebNext]_webVars => ListingInv'
  <2>1. ListingInv /\ UNCHANGED auditVars => ListingInv'
    BY DEF ListingInv, ListingTypeOK, WalkState, PagingIsExact, PagesDescend,
           WalkShowsWhatWasThere, Shown, Below, Newer, auditVars, readerVars
  <2>2. ListingInv /\ ListingNext => ListingInv'
    BY ListingTypesStep, WalkStep DEF ListingInv
  <2>3. QED
    BY <2>1, <2>2, PageSteps
<1>3. QED
  BY <1>1, <1>2, PTL DEF WebSpec

\* A walk through the audit log shows what the filter matched when it began, each
\* row once and newest first, for any number of processes, batches, page sizes
\* and ties, whatever is committed between two pages.
THEOREM WalksAreExact == WebSpec => []PagingIsExact
<1>1. ListingInv => PagingIsExact
  BY DEF ListingInv
<1>2. QED
  BY <1>1, ListingInvariant, PTL

\* Ids are given once, and a process commits its batches in the order of their
\* times; what is shown was committed, the cursor's row among it.
Stamps ==
    /\ \A r, s \in rows \cup UNION {batch[p] : p \in Recorder} : r.id = s.id => r = s
    /\ \A p \in Recorder : \A r \in batch[p] :
         r.by = p /\ \A s \in rows : s.by = p => s.at < r.at
    /\ Shown \subseteq rows
    /\ walk = "paging" => cursor \in Shown

MissInv == ListingInv /\ Stamps /\ OnlyOverlapMisses

LEMMA NewerIsStrict ==
  \A r, s \in Row : /\ ~(Newer(r, s) /\ Newer(s, r))
                    /\ Newer(r, s) \/ Newer(s, r) \/ r.id = s.id
<1> SUFFICES ASSUME NEW r \in Row, NEW s \in Row
             PROVE  /\ ~(Newer(r, s) /\ Newer(s, r))
                    /\ Newer(r, s) \/ Newer(s, r) \/ r.id = s.id
  OBVIOUS
<1>1. /\ r.at \in Int /\ s.at \in Int /\ r.id \in Int /\ s.id \in Int
  BY AuditListingAssumption DEF AuditListingAssumption, Row
<1>2. QED
  BY <1>1 DEF Newer

RowsOf(earlier) == UNION {earlier[k] : k \in 1..Len(earlier)}

\* A page passes nothing by that was not passed by before.
LEMMA PageMissesNothing ==
  ASSUME ListingTypeOK, Stamps, rows' = rows, NEW asked \in Limits,
         NEW wanted, NEW from \in Row \cup {NoRow}, NEW earlier \in Seq(SUBSET Row),
         Page(asked, wanted, from, earlier), filter' = wanted,
         RowsOf(earlier) \subseteq rows, from # NoRow => from \in RowsOf(earlier),
         NEW r \in Missed'
  PROVE  /\ from # NoRow /\ Newer(r, from)
         /\ r \in Below(wanted, NoRow) \ RowsOf(earlier)
         /\ \E s \in RowsOf(earlier) : Newer(s, r)
         /\ RowsOf(earlier) \subseteq Shown'
<1> DEFINE before == RowsOf(earlier)
<1>1. PICK top \in SUBSET Below(wanted, from) :
        /\ pages' = Append(earlier, top)
        /\ \/ cursor' = NoRow /\ top = Below(wanted, from)
           \/ cursor' \in top /\ \A t \in Below(wanted, from) \ top : Newer(cursor', t)
  BY PageTakes
<1>2. top \subseteq Row /\ Below(wanted, from) \subseteq rows /\ rows \subseteq Row
  BY DEF Below, ListingTypeOK
<1>3. Shown' = before \cup top
  <2>1. /\ Len(pages') = Len(earlier) + 1 /\ pages'[Len(earlier) + 1] = top
        /\ \A k \in 1..Len(earlier) : pages'[k] = earlier[k]
    BY <1>1, <1>2
  <2>2. QED
    BY <2>1 DEF Shown, RowsOf
<1> HIDE DEF before
<1>4. /\ r \in Below(wanted, NoRow) \ (before \cup top)
      /\ cursor' # NoRow => Newer(r, cursor')
      /\ \E s \in before \cup top : Newer(s, r)
  BY <1>3 DEF Missed, Below, Newer
<1>5. r \in rows /\ r \in Row
  BY <1>2, <1>4 DEF Below
<1>6. NoRow \notin Row
  BY AuditListingAssumption DEF AuditListingAssumption
<1>7. r \notin Below(wanted, from)
  <2> SUFFICES ASSUME r \in Below(wanted, from) PROVE FALSE
    OBVIOUS
  <2>1. cursor' \in top /\ Newer(cursor', r)
    BY <1>1, <1>4
  <2>2. Newer(r, cursor') /\ cursor' \in Row
    BY <2>1, <1>2, <1>4, <1>6
  <2>3. QED
    BY <2>1, <2>2, <1>5, NewerIsStrict
<1>8. from # NoRow /\ ~Newer(from, r)
  BY <1>4, <1>7 DEF Below, before
<1>9. Newer(r, from)
  <2>1. from \in rows /\ from \in Row /\ r # from
    BY <1>4, <1>8, <1>2 DEF before
  <2>2. r.id # from.id
    BY <2>1, <1>5 DEF Stamps
  <2>3. QED
    BY <2>1, <2>2, <1>5, <1>8, NewerIsStrict
<1>10. \E s \in before : Newer(s, r)
  <2>1. PICK s \in before \cup top : Newer(s, r)
    BY <1>4
  <2>2. s \notin top
    <3> SUFFICES ASSUME s \in top PROVE FALSE
      OBVIOUS
    <3>1. Newer(from, s) /\ s \in Row /\ from \in Row
      BY <1>2, <1>8 DEF Below
    <3>2. QED
      BY <3>1, <2>1, <1>5, <1>8, NewerIsTransitive
  <2>3. QED
    BY <2>1, <2>2
<1>11. QED
  BY <1>3, <1>4, <1>8, <1>9, <1>10 DEF before

LEMMA StampsStep ==
  ASSUME ListingInv, Stamps, ListingNext
  PROVE  Stamps'
<1> USE DEF ListingInv, ListingTypeOK
<1> DEFINE Open == UNION {batch[p] : p \in Recorder}
<1>1. CASE Clock \/ ChangeMembership
  BY <1>1 DEF Clock, ChangeMembership, Stamps, Shown, readerVars
<1>2. ASSUME NEW p \in Recorder, NEW ids \in SUBSET RowId, NEW action \in [ids -> Action],
             Insert(p, ids, action)
      PROVE  Stamps'
  <2> DEFINE new == {[at |-> now, id |-> n, action |-> action[n], by |-> p] : n \in ids}
  <2>1. /\ batch' = [batch EXCEPT ![p] = new] /\ rows' = rows /\ UNCHANGED readerVars
        /\ ids \cap UsedId = {} /\ \A r \in rows : r.by = p => r.at < now
    BY <1>2 DEF Insert
  <2>2. /\ \A r \in new : r.id \in ids /\ r.by = p /\ r.at = now
        /\ \A r, s \in new : r.id = s.id => r = s
    OBVIOUS
  <2>3. \A r \in rows \cup Open : r.id \notin ids
    BY <2>1 DEF UsedId
  <2> HIDE DEF new
  <2>4. Open' \subseteq Open \cup new
    BY <2>1
  <2> HIDE DEF Open
  <2>5. \A r, s \in rows' \cup Open' : r.id = s.id => r = s
    BY <2>1, <2>2, <2>3, <2>4 DEF Stamps, Open
  <2>6. \A q \in Recorder : \A r \in batch'[q] :
          r.by = q /\ \A s \in rows' : s.by = q => s.at < r.at
    BY <2>1, <2>2 DEF Stamps
  <2>7. QED
    BY <2>1, <2>5, <2>6 DEF Stamps, Open, Shown, readerVars
<1>3. ASSUME NEW p \in Recorder, Commit(p) \/ Abort(p) PROVE Stamps'
  <2>1. /\ rows \subseteq rows' /\ rows' \subseteq rows \cup batch[p]
        /\ batch' = [batch EXCEPT ![p] = {}] /\ UNCHANGED readerVars
    BY <1>3 DEF Commit, Abort
  <2>2. rows' \cup Open' \subseteq rows \cup Open
    BY <2>1
  <2> HIDE DEF Open
  <2>3. \A r, s \in rows' \cup Open' : r.id = s.id => r = s
    BY <2>2 DEF Stamps, Open
  <2>4. \A q \in Recorder : \A r \in batch'[q] :
          r.by = q /\ \A s \in rows' : s.by = q => s.at < r.at
    BY <2>1 DEF Stamps
  <2>5. QED
    BY <2>1, <2>3, <2>4 DEF Stamps, Open, Shown, readerVars
<1>4. ASSUME NEW asked \in Limits, NEW wanted, NEW from, NEW earlier \in Seq(SUBSET Row),
             Page(asked, wanted, from, earlier), UNCHANGED <<rows, batch>>,
             (UNION {earlier[k] : k \in 1..Len(earlier)}) \subseteq rows
      PROVE  Stamps'
  <2>1. PICK top \in SUBSET Below(wanted, from) :
          /\ pages' = Append(earlier, top)
          /\ walk' = "ended" \/ cursor' \in top
    BY <1>4, PageTakes
  <2>2. top \subseteq rows
    BY DEF Below
  <2>3. /\ Len(pages') = Len(earlier) + 1 /\ pages'[Len(earlier) + 1] = top
        /\ \A k \in 1..Len(earlier) : pages'[k] = earlier[k]
    BY <2>1, <2>2
  <2>4. Shown' \subseteq rows /\ top \subseteq Shown'
    <3>1. Len(earlier) \in Nat
      OBVIOUS
    <3>2. 1..Len(pages') = 1..Len(earlier) \cup {Len(earlier) + 1}
      BY ONLY <2>3, <3>1
    <3>3. (UNION {earlier[k] : k \in 1..Len(earlier)}) \subseteq rows
      BY <1>4
    <3>4. QED
      BY ONLY <2>2, <2>3, <3>2, <3>3 DEF Shown
  <2>5. QED
    BY <1>4, <2>1, <2>4 DEF Stamps
<1>5. ASSUME NEW asked \in Limits, NEW wanted \in Action \cup {NoRow}, FirstPage(asked, wanted)
      PROVE  Stamps'
  <2>1. <<>> \in Seq(SUBSET Row) /\ 1..Len(<<>>) = {}
    OBVIOUS
  <2>2. Page(asked, wanted, NoRow, <<>>) /\ UNCHANGED <<rows, batch>>
    BY <1>5 DEF FirstPage
  <2>3. QED
    BY <1>4, <2>1, <2>2
<1>6. ASSUME NEW asked \in Limits, NextPage(asked) PROVE Stamps'
  <2>1. Page(asked, filter, cursor, pages) /\ UNCHANGED <<rows, batch>>
    BY <1>6 DEF NextPage
  <2>2. pages \in Seq(SUBSET Row) /\ (UNION {pages[k] : k \in 1..Len(pages)}) \subseteq rows
    BY DEF Stamps, Shown
  <2>3. QED
    BY <1>4, <2>1, <2>2
<1>7. CASE Refused
  <2>1. walk' = "idle" /\ pages' = <<>> /\ UNCHANGED <<rows, batch>>
    BY <1>7 DEF Refused
  <2>2. Shown' = {}
    BY <2>1 DEF Shown
  <2>3. QED
    BY <2>1, <2>2 DEF Stamps
<1>8. QED
  BY <1>1, <1>2, <1>3, <1>5, <1>6, <1>7 DEF ListingNext

LEMMA MissStep ==
  ASSUME MissInv, ListingNext
  PROVE  OnlyOverlapMisses'
<1>0. ListingTypeOK /\ WalkState /\ Stamps /\ OnlyOverlapMisses
  BY DEF MissInv, ListingInv
<1>1. CASE UNCHANGED <<rows, readerVars>>
  BY <1>0, <1>1 DEF OnlyOverlapMisses, Missed, Below, Newer, Shown, readerVars
<1>2. ASSUME NEW p \in Recorder, Commit(p) PROVE OnlyOverlapMisses'
  <2> SUFFICES ASSUME NEW r \in Missed'
               PROVE  \E s \in Shown' : s.by # r.by /\ s.at >= r.at
    BY DEF OnlyOverlapMisses
  <2>1. rows' = rows \cup batch[p] /\ UNCHANGED readerVars /\ Shown' = Shown
    BY <1>2 DEF Commit, Shown, readerVars
  <2>2. CASE r \in rows
    <3>1. r \in Missed
      BY <2>1, <2>2 DEF Missed, Below, Newer, readerVars
    <3>2. QED
      BY <2>1, <3>1, <1>0 DEF OnlyOverlapMisses
  <2>3. CASE r \in batch[p]
    <3>1. PICK s \in Shown : Newer(s, r)
      BY <2>1 DEF Missed, Newer
    <3>2. r.by = p /\ s \in rows /\ (s.by = p => s.at < r.at)
      BY <2>3, <1>0 DEF Stamps
    <3>3. r \in Row /\ s \in Row
      BY <2>3, <3>2, <1>0 DEF ListingTypeOK
    <3>4. r.at \in Int /\ s.at \in Int
      BY <3>3 DEF Row
    <3>5. s.at >= r.at
      BY ONLY <3>1, <3>4 DEF Newer
    <3>6. s.by # p
      BY ONLY <3>2, <3>4, <3>5
    <3>7. QED
      BY <2>1, <3>2, <3>5, <3>6
  <2>4. QED
    BY <2>1, <2>2, <2>3 DEF Missed, Below
<1>3. ASSUME NEW asked \in Limits, NEW wanted \in Action \cup {NoRow}, FirstPage(asked, wanted)
      PROVE  OnlyOverlapMisses'
  <2>1. /\ Page(asked, wanted, NoRow, <<>>) /\ rows' = rows /\ filter' = wanted
    BY <1>3 DEF FirstPage
  <2>2. ASSUME NEW r \in Missed' PROVE FALSE
    <3>1. RowsOf(<<>>) = {}
      BY DEF RowsOf
    <3>2. NoRow \in Row \cup {NoRow} /\ <<>> \in Seq(SUBSET Row)
      OBVIOUS
    <3>3. QED
      BY <1>0, <2>1, <2>2, <3>1, <3>2, PageMissesNothing
  <2>3. QED
    BY <2>2 DEF OnlyOverlapMisses
<1>4. ASSUME NEW asked \in Limits, NextPage(asked) PROVE OnlyOverlapMisses'
  <2> SUFFICES ASSUME NEW r \in Missed'
               PROVE  \E s \in Shown' : s.by # r.by /\ s.at >= r.at
    BY DEF OnlyOverlapMisses
  <2>1. /\ Page(asked, filter, cursor, pages) /\ rows' = rows /\ filter' = filter
        /\ walk = "paging" /\ cursor \in Row
    BY <1>0, <1>4 DEF NextPage, WalkState
  <2>2. /\ Newer(r, cursor) /\ r \in Below(filter, NoRow) \ Shown
        /\ \E s \in Shown : Newer(s, r)
        /\ Shown \subseteq Shown'
    <3>1. Shown = RowsOf(pages)
      BY DEF Shown, RowsOf
    <3>2. Shown \subseteq rows /\ cursor \in Shown
      BY <1>0, <2>1 DEF Stamps
    <3>3. pages \in Seq(SUBSET Row) /\ cursor \in Row \cup {NoRow}
      BY <1>0 DEF ListingTypeOK
    <3>4. QED
      BY <1>0, <2>1, <3>1, <3>2, <3>3, PageMissesNothing
  <2>3. r \in Missed
    BY <2>2 DEF Missed
  <2>4. QED
    BY <1>0, <2>2, <2>3 DEF OnlyOverlapMisses
<1>5. CASE Refused
  <2>1. Shown' = {}
    BY <1>5 DEF Refused, Shown
  <2>2. QED
    BY <2>1 DEF OnlyOverlapMisses, Missed
<1>6. QED
  BY <1>0, <1>1, <1>2, <1>3, <1>4, <1>5
     DEF ListingNext, Clock, Insert, Abort, ChangeMembership

\* A walk passes a row by only if another process's transaction, begun no earlier,
\* committed before it: with one process none, however many rows are written.
THEOREM OnlyOverlappingProcessesHideRows == WebSpec => []OnlyOverlapMisses
<1>1. WebInit => Stamps /\ OnlyOverlapMisses
  <2>1. ListingInit => Shown = {} /\ Stamps
    BY DEF ListingInit, NoWalk, Shown, Stamps
  <2>2. QED
    BY <2>1 DEF WebInit, OnlyOverlapMisses, Missed
<1>2. ListingInv /\ Stamps /\ OnlyOverlapMisses /\ [WebNext]_webVars
        => (Stamps /\ OnlyOverlapMisses)'
  <2>1. Stamps /\ OnlyOverlapMisses /\ UNCHANGED auditVars => (Stamps /\ OnlyOverlapMisses)'
    BY DEF Stamps, OnlyOverlapMisses, Missed, Shown, Below, Newer, auditVars, readerVars
  <2>2. QED
    BY <2>1, PageSteps, StampsStep, MissStep DEF MissInv
<1>3. QED
  BY <1>1, <1>2, ListingInvariant, PTL DEF WebSpec

-----------------------------------------------------------------------------
(* The comparison of versions *)

\* The versions that are selected, asked for and held exist.
Exist ==
    /\ history \in Seq(Text)
    /\ listed \in 1..Len(history)
    /\ left \in 1..listed /\ right \in 1..listed
    /\ sent \in (1..listed) \X (1..listed) \cup {NoPair}
    /\ DOMAIN values \subseteq 1..listed
    /\ visible \in BOOLEAN

CompareInv == Exist /\ NumberStandsOverItsText

\* What a render draws is the text of the version selected, or nothing.
LEMMA DrawsItsText ==
  ASSUME NEW held, \A v \in DOMAIN held : held[v] = history[v],
         NEW x, NEW y, NEW shown \in BOOLEAN, Draw(x, y, held, shown), shown
  PROVE  a' \in {history[x], Blank} /\ b' \in {history[y], Blank}
  BY DEF Draw, TextOf, Load

LEMMA CompareStep ==
  ASSUME CompareInv, CompareNext
  PROVE  CompareInv'
<1> USE DEF CompareInv, Exist
<1>1. ASSUME NEW text \in Text, AddVersion(text) PROVE CompareInv'
  <2>1. /\ history' = Append(history, text)
        /\ UNCHANGED <<listed, left, right, sent, values, visible, a, b>>
    BY <1>1 DEF AddVersion, loopVars
  <2>2. /\ history' \in Seq(Text) /\ Len(history') = Len(history) + 1
        /\ \A v \in 1..Len(history) : history'[v] = history[v]
    BY <2>1
  <2>3. Exist'
    BY <2>1, <2>2
  <2>4. NumberStandsOverItsText'
    BY <2>1, <2>2 DEF NumberStandsOverItsText
  <2>5. QED
    BY <2>3, <2>4
<1>2. ASSUME NEW x \in 1..listed, NEW y \in 1..listed, Select(x, y) PROVE CompareInv'
  <2>1. /\ left' = x /\ right' = y /\ Draw(x, y, values, visible)
        /\ UNCHANGED <<history, listed, sent, values, visible>>
    BY <1>2 DEF Select
  <2>2. Exist'
    BY <2>1
  <2>3. visible => a' \in {history[x], Blank} /\ b' \in {history[y], Blank}
    BY <2>1 DEF NumberStandsOverItsText, Draw, TextOf, Load
  <2>4. NumberStandsOverItsText'
    BY <2>1, <2>3 DEF NumberStandsOverItsText
  <2>5. QED
    BY <2>2, <2>4
<1>3. CASE Rerender
  <2>1. /\ listed' = Len(history) /\ Draw(left, right, values, visible)
        /\ UNCHANGED <<history, left, right, sent, values, visible>>
    BY <1>3 DEF Rerender
  <2>2. Exist'
    BY <2>1
  <2>3. visible => a' \in {history[left], Blank} /\ b' \in {history[right], Blank}
    BY <2>1 DEF NumberStandsOverItsText, Draw, TextOf, Load
  <2>4. NumberStandsOverItsText'
    BY <2>1, <2>3 DEF NumberStandsOverItsText
  <2>5. QED
    BY <2>2, <2>4
<1>4. CASE Compare
  <2>1. /\ sent' = <<left, right>>
        /\ UNCHANGED <<history, listed, left, right, values, visible, a, b>>
    BY <1>4 DEF Compare, loopVars
  <2>2. QED
    BY <2>1 DEF NumberStandsOverItsText
<1>5. CASE Compared
  <2>1. /\ sent # NoPair /\ sent' = NoPair /\ visible' = TRUE
        /\ values' = [v \in {sent[1], sent[2]} |-> history[v]]
        /\ Draw(left, right, values', TRUE)
        /\ UNCHANGED <<history, listed, left, right>>
    BY <1>5 DEF Compared
  <2>2. sent[1] \in 1..Len(history) /\ sent[2] \in 1..Len(history)
    BY <2>1
  <2>3. DOMAIN values' = {sent[1], sent[2]} /\ \A v \in DOMAIN values' : values'[v] = history[v]
    BY <2>1
  <2>4. Exist'
    BY <2>1, <2>2, <2>3
  <2>5. a' \in {history[left], Blank} /\ b' \in {history[right], Blank}
    BY <2>1, <2>3 DEF Draw, TextOf, Load
  <2>6. NumberStandsOverItsText'
    BY <2>1, <2>3, <2>5 DEF NumberStandsOverItsText
  <2>7. QED
    BY <2>4, <2>6
<1>6. CASE CompareFailed
  <2>1. sent' = NoPair /\ UNCHANGED <<history, listed, left, right, values, visible, a, b>>
    BY <1>6 DEF CompareFailed, loopVars
  <2>2. QED
    BY <2>1 DEF NumberStandsOverItsText
<1>7. CASE HideValues
  <2>1. /\ values' = <<>> /\ visible' = FALSE
        /\ UNCHANGED <<history, listed, left, right, sent>>
    BY <1>7 DEF HideValues
  <2>2. DOMAIN values' = {}
    BY <2>1
  <2>3. QED
    BY <2>1, <2>2 DEF NumberStandsOverItsText
<1>8. CASE DrawLine
  <2>1. UNCHANGED <<history, listed, left, right, sent, values, visible, a, b>>
    BY <1>8 DEF DrawLine, LoopStep, SameLine, RemovedLine, AddedLine
  <2>2. QED
    BY <2>1 DEF NumberStandsOverItsText
<1>9. QED
  BY <1>1, <1>2, <1>3, <1>4, <1>5, <1>6, <1>7, <1>8 DEF CompareNext

THEOREM CompareInvariant == WebSpec => []CompareInv
<1>1. WebInit => CompareInv
  <2> SUFFICES ASSUME CompareInit PROVE CompareInv
    BY DEF WebInit
  <2>1. PICK n \in 1..2 : history \in [1..n -> Text]
    BY DEF CompareInit
  <2>2. history \in Seq(Text) /\ Len(history) = n
    BY <2>1
  <2>3. listed = n /\ right = n /\ left \in 1..n /\ sent = NoPair
    BY <2>2 DEF CompareInit
  <2>4. DOMAIN values = {} /\ visible = FALSE
    BY DEF CompareInit
  <2>5. Exist
    <3>1. n \in 1..n /\ DOMAIN values \subseteq 1..listed
      BY <2>4
    <3>2. QED
      BY <2>2, <2>3, <2>4, <3>1 DEF Exist
  <2>6. NumberStandsOverItsText
    BY <2>4 DEF NumberStandsOverItsText
  <2>7. QED
    BY <2>5, <2>6 DEF CompareInv
<1>2. CompareInv /\ [WebNext]_webVars => CompareInv'
  <2>1. CompareInv /\ UNCHANGED compareVars => CompareInv'
    BY DEF CompareInv, Exist, NumberStandsOverItsText, compareVars, loopVars
  <2>2. QED
    BY <2>1, CompareStep, PageSteps
<1>3. QED
  BY <1>1, <1>2, PTL DEF WebSpec

\* A number never stands over another version's text, for any texts and any
\* number of versions, whatever is selected while an answer is on its way.
THEOREM NumbersStandOverTheirTexts == WebSpec => []NumberStandsOverItsText
<1>1. CompareInv => NumberStandsOverItsText
  BY DEF CompareInv
<1>2. QED
  BY <1>1, CompareInvariant, PTL

-----------------------------------------------------------------------------
(***************************************************************************)
(* The line diff, for any two texts.                                       *)
(*                                                                         *)
(* The table is defined by recursion from its far corner.  That it has the *)
(* entries the loops compute, and that an entry is as large as any set of  *)
(* common lines from its cell on, goes by induction on the turns that are  *)
(* left, with a set in the place of the statement.                         *)
(***************************************************************************)

\* Induction on the naturals for a set, which stands for the statement: among the
\* segments 0..m up to a number m that is missing, one contains no other.
LEMMA CountingUp ==
  ASSUME NEW G, 0 \in G, \A n \in Nat : n \in G => n + 1 \in G
  PROVE  Nat \subseteq G
<1> DEFINE segments == {0..m : m \in Nat \ G}
<1> SUFFICES ASSUME Nat \ G # {} PROVE FALSE
  OBVIOUS
<1>1. segments # {} /\ segments \subseteq FiniteSubsetsOf(Nat)
  <2>1. \A m \in Nat : IsFiniteSet(0..m) /\ 0..m \subseteq Nat
    BY FS_Interval
  <2>2. QED
    BY <2>1 DEF FiniteSubsetsOf
<1>2. PICK s \in segments : \A u \in segments : <<u, s>> \notin StrictSubsetOrdering(Nat)
  <2> HIDE DEF segments
  <2>1. IsWellFoundedOn(StrictSubsetOrdering(Nat), FiniteSubsetsOf(Nat))
    BY FS_StrictSubsetOrderingWellFounded
  <2>2. QED
    BY <1>1, <2>1, WFMin
<1>3. PICK m \in Nat \ G : s = 0..m
  OBVIOUS
<1>4. m - 1 \in Nat \ G
  OBVIOUS
<1>5. 0..(m - 1) \subseteq 0..m /\ m \notin 0..(m - 1) /\ m \in 0..m /\ 0..m \subseteq Nat
  BY <1>4
<1>6. 0..(m - 1) \in segments /\ <<0..(m - 1), s>> \in StrictSubsetOrdering(Nat)
  BY <1>3, <1>4, <1>5 DEF StrictSubsetOrdering
<1>7. QED
  BY <1>2, <1>6

\* The cells of the table, and its entry at p as the loops of the code compute it
\* from the entries of `table` after p.
Cells(s, t) == (1..Len(s) + 1) \X (1..Len(t) + 1)

CellEntry(s, t, table, p) ==
    IF p[1] > Len(s) \/ p[2] > Len(t) THEN 0
    ELSE IF s[p[1]] = t[p[2]] THEN table[<<p[1] + 1, p[2] + 1>>] + 1
    ELSE Larger(table[<<p[1] + 1, p[2]>>], table[<<p[1], p[2] + 1>>])

\* Turns of the loops that are left at a cell, at most.
Ahead(s, t, p) == (Len(s) + 1 - p[1]) + (Len(t) + 1 - p[2])

AtBorder(s, t, p) == p[1] > Len(s) \/ p[2] > Len(t)

\* The entries a turn at p looks at.
After(p) == {<<p[1] + 1, p[2] + 1>>, <<p[1] + 1, p[2]>>, <<p[1], p[2] + 1>>}

\* They are nearer to the end.
LEMMA CellsAhead ==
  ASSUME NEW s \in Seq(Line), NEW t \in Seq(Line), NEW p \in Cells(s, t)
  PROVE  /\ Ahead(s, t, p) \in Nat
         /\ Ahead(s, t, p) <= Len(s) + Len(t)
         /\ ~AtBorder(s, t, p) =>
              \A q \in After(p) : q \in Cells(s, t) /\ Ahead(s, t, q) < Ahead(s, t, p)
<1>1. ASSUME NEW m \in Nat, NEW n \in Nat, NEW x \in 1..m + 1, NEW y \in 1..n + 1
      PROVE  /\ (m + 1 - x) + (n + 1 - y) \in Nat
             /\ (m + 1 - x) + (n + 1 - y) <= m + n
             /\ ~(x > m \/ y > n) =>
                  /\ x + 1 \in 1..m + 1 /\ y + 1 \in 1..n + 1
                  /\ (m + 1 - (x + 1)) + (n + 1 - y) < (m + 1 - x) + (n + 1 - y)
                  /\ (m + 1 - x) + (n + 1 - (y + 1)) < (m + 1 - x) + (n + 1 - y)
                  /\ (m + 1 - (x + 1)) + (n + 1 - (y + 1)) < (m + 1 - x) + (n + 1 - y)
  OBVIOUS
<1>2. PICK x \in 1..Len(s) + 1, y \in 1..Len(t) + 1 : p = <<x, y>>
  BY DEF Cells
<1>3. Len(s) \in Nat /\ Len(t) \in Nat
  OBVIOUS
<1>4. \A u \in 1..Len(s) + 1, v \in 1..Len(t) + 1 :
        /\ <<u, v>> \in Cells(s, t)
        /\ Ahead(s, t, <<u, v>>) = (Len(s) + 1 - u) + (Len(t) + 1 - v)
  BY DEF Cells, Ahead
<1>5. Ahead(s, t, p) \in Nat /\ Ahead(s, t, p) <= Len(s) + Len(t)
  BY ONLY <1>1, <1>2, <1>3, <1>4
<1>6. ASSUME ~AtBorder(s, t, p), NEW q \in After(p)
      PROVE  q \in Cells(s, t) /\ Ahead(s, t, q) < Ahead(s, t, p)
  <2>1. ~(x > Len(s) \/ y > Len(t))
    BY <1>2, <1>6 DEF AtBorder
  <2>2. q \in {<<x + 1, y + 1>>, <<x + 1, y>>, <<x, y + 1>>}
    BY <1>2, <1>6 DEF After
  <2>3. x + 1 \in 1..Len(s) + 1 /\ y + 1 \in 1..Len(t) + 1
    BY ONLY <1>1, <1>2, <1>3, <2>1
  <2>4. /\ Ahead(s, t, p) = (Len(s) + 1 - x) + (Len(t) + 1 - y)
        /\ Ahead(s, t, <<x + 1, y + 1>>) = (Len(s) + 1 - (x + 1)) + (Len(t) + 1 - (y + 1))
        /\ Ahead(s, t, <<x + 1, y>>) = (Len(s) + 1 - (x + 1)) + (Len(t) + 1 - y)
        /\ Ahead(s, t, <<x, y + 1>>) = (Len(s) + 1 - x) + (Len(t) + 1 - (y + 1))
        /\ \A r \in {<<x + 1, y + 1>>, <<x + 1, y>>, <<x, y + 1>>} : r \in Cells(s, t)
    BY ONLY <1>2, <1>4, <2>3
  <2>5. /\ (Len(s) + 1 - (x + 1)) + (Len(t) + 1 - y) < (Len(s) + 1 - x) + (Len(t) + 1 - y)
        /\ (Len(s) + 1 - x) + (Len(t) + 1 - (y + 1)) < (Len(s) + 1 - x) + (Len(t) + 1 - y)
        /\ (Len(s) + 1 - (x + 1)) + (Len(t) + 1 - (y + 1))
             < (Len(s) + 1 - x) + (Len(t) + 1 - y)
    BY ONLY <1>1, <1>3, <2>1
  <2>6. QED
    BY ONLY <2>2, <2>4, <2>5
<1>7. QED
  BY <1>5, <1>6

\* Two tables that agree on the later entries have the same entry.
LEMMA EntryFromLater ==
  ASSUME NEW s \in Seq(Line), NEW t \in Seq(Line), NEW p \in Cells(s, t), NEW f, NEW g,
         \A q \in Cells(s, t) : Ahead(s, t, q) < Ahead(s, t, p) => f[q] = g[q]
  PROVE  CellEntry(s, t, f, p) = CellEntry(s, t, g, p)
<1>1. CASE AtBorder(s, t, p)
  BY <1>1 DEF CellEntry, AtBorder
<1>2. CASE ~AtBorder(s, t, p)
  <2>1. \A q \in After(p) : f[q] = g[q]
    BY <1>2, CellsAhead
  <2>2. QED
    BY <2>1 DEF CellEntry, After
<1>3. QED
  BY <1>1, <1>2

\* There is a table all of whose entries are as the loops compute them: one whose
\* last entries are right can be improved by one turn of the loops.
LEMMA TableExists ==
  ASSUME NEW s \in Seq(Line), NEW t \in Seq(Line)
  PROVE  \E f : f = [p \in Cells(s, t) |-> CellEntry(s, t, f, p)]
<1> DEFINE RightUpTo(f, n) == \A p \in Cells(s, t) :
               Ahead(s, t, p) < n => f[p] = CellEntry(s, t, f, p)
           G == {n \in Nat : \E f : RightUpTo(f, n)}
<1>1. 0 \in G
  <2>1. \A p \in Cells(s, t) : Ahead(s, t, p) \in Nat
    BY CellsAhead
  <2>2. \A n \in Nat : ~(n < 0)
    OBVIOUS
  <2>3. \A f : RightUpTo(f, 0)
    BY <2>1, <2>2
  <2>4. \E f : RightUpTo(f, 0)
    <3> HIDE DEF RightUpTo
    <3>1. RightUpTo(<<>>, 0)
      BY <2>3
    <3>2. QED
      BY <3>1
  <2>5. QED
    BY <2>4
<1>2. ASSUME NEW n \in Nat, n \in G PROVE n + 1 \in G
  <2>1. PICK f : RightUpTo(f, n)
    BY <1>2
  <2> DEFINE g == [p \in Cells(s, t) |-> CellEntry(s, t, f, p)]
  <2>2. ASSUME NEW p \in Cells(s, t), Ahead(s, t, p) < n + 1
        PROVE  g[p] = CellEntry(s, t, g, p)
    <3>1. ASSUME NEW q \in Cells(s, t), Ahead(s, t, q) < Ahead(s, t, p) PROVE f[q] = g[q]
      <4>1. Ahead(s, t, p) \in Nat /\ Ahead(s, t, q) \in Nat
        BY CellsAhead
      <4>2. Ahead(s, t, q) < n
        BY <2>2, <3>1, <4>1
      <4>3. f[q] = CellEntry(s, t, f, q)
        BY <2>1, <4>2
      <4>4. QED
        BY <4>3
    <3>2. CellEntry(s, t, f, p) = CellEntry(s, t, g, p)
      <4> HIDE DEF g
      <4>1. QED
        BY <3>1, EntryFromLater
    <3>3. QED
      BY <3>2
  <2>3. RightUpTo(g, n + 1)
    BY <2>2
  <2>4. \E h : RightUpTo(h, n + 1)
    <3> HIDE DEF RightUpTo, g
    <3>1. QED
      BY <2>3
  <2>5. QED
    BY <2>4
<1>3. Len(s) + Len(t) + 1 \in G
  <2> HIDE DEF G
  <2>1. Len(s) + Len(t) + 1 \in Nat
    OBVIOUS
  <2>2. QED
    BY <1>1, <1>2, <2>1, CountingUp
<1>4. PICK f : RightUpTo(f, Len(s) + Len(t) + 1)
  BY <1>3
<1>5. ASSUME NEW p \in Cells(s, t) PROVE f[p] = CellEntry(s, t, f, p)
  <2>1. Ahead(s, t, p) \in Nat /\ Ahead(s, t, p) <= Len(s) + Len(t)
    BY CellsAhead
  <2>2. Ahead(s, t, p) < Len(s) + Len(t) + 1
    BY <2>1
  <2>3. QED
    BY <1>4, <2>2
<1> DEFINE g == [p \in Cells(s, t) |-> CellEntry(s, t, f, p)]
<1>6. ASSUME NEW p \in Cells(s, t) PROVE CellEntry(s, t, f, p) = CellEntry(s, t, g, p)
  <2>1. \A q \in Cells(s, t) : f[q] = g[q]
    BY <1>5
  <2> HIDE DEF g
  <2>2. QED
    BY <2>1, EntryFromLater
<1>7. g = [p \in Cells(s, t) |-> CellEntry(s, t, g, p)]
  BY <1>6
<1>8. QED
  BY <1>7

\* So the table of the code has them.
LEMMA TableIsRight ==
  ASSUME NEW s \in Seq(Line), NEW t \in Seq(Line), NEW p \in Cells(s, t)
  PROVE  Lengths(s, t)[p] = CellEntry(s, t, Lengths(s, t), p)
<1>1. Lengths(s, t) = CHOOSE f : f = [q \in Cells(s, t) |-> CellEntry(s, t, f, q)]
  BY DEF Lengths, Cells, CellEntry
<1>2. Lengths(s, t) = [q \in Cells(s, t) |-> CellEntry(s, t, Lengths(s, t), q)]
  BY <1>1, TableExists
<1>3. QED
  BY <1>2

\* What is true of an entry whenever it is true of those it looks at is true of
\* the table.
LEMMA DownTheTable ==
  ASSUME NEW s \in Seq(Line), NEW t \in Seq(Line), NEW Good,
         \A p \in Cells(s, t) : (AtBorder(s, t, p) \/ After(p) \subseteq Good) => p \in Good
  PROVE  Cells(s, t) \subseteq Good
<1> DEFINE G == {n \in Nat : \A p \in Cells(s, t) : Ahead(s, t, p) < n => p \in Good}
<1>1. 0 \in G
  <2>1. \A p \in Cells(s, t) : ~(Ahead(s, t, p) < 0)
    BY CellsAhead
  <2>2. QED
    BY <2>1
<1>2. ASSUME NEW n \in Nat, n \in G PROVE n + 1 \in G
  <2>1. ASSUME NEW p \in Cells(s, t), Ahead(s, t, p) < n + 1 PROVE p \in Good
    <3>1. ASSUME ~AtBorder(s, t, p), NEW q \in After(p) PROVE q \in Good
      <4>1. q \in Cells(s, t) /\ Ahead(s, t, q) < Ahead(s, t, p)
        BY <3>1, CellsAhead
      <4>2. Ahead(s, t, p) \in Nat /\ Ahead(s, t, q) \in Nat
        BY <4>1, CellsAhead
      <4>3. Ahead(s, t, q) < n
        BY ONLY <2>1, <4>1, <4>2
      <4>4. QED
        BY <1>2, <4>1, <4>3
    <3>2. QED
      BY <3>1
  <2>2. QED
    BY <2>1
<1>3. Len(s) + Len(t) + 1 \in G
  <2> HIDE DEF G
  <2>1. Len(s) + Len(t) + 1 \in Nat
    OBVIOUS
  <2>2. QED
    BY <1>1, <1>2, <2>1, CountingUp
<1>4. \A p \in Cells(s, t) : Ahead(s, t, p) < Len(s) + Len(t) + 1
  BY CellsAhead
<1>5. QED
  BY <1>3, <1>4

LEMMA TableIsNat ==
  ASSUME NEW s \in Seq(Line), NEW t \in Seq(Line)
  PROVE  \A p \in Cells(s, t) : Lengths(s, t)[p] \in Nat
<1> DEFINE Good == {p \in Cells(s, t) : Lengths(s, t)[p] \in Nat}
<1>1. ASSUME NEW p \in Cells(s, t), AtBorder(s, t, p) \/ After(p) \subseteq Good
      PROVE  p \in Good
  <2>1. Lengths(s, t)[p] = CellEntry(s, t, Lengths(s, t), p)
    BY TableIsRight
  <2>2. CASE AtBorder(s, t, p)
    BY <2>1, <2>2 DEF CellEntry, AtBorder
  <2>3. CASE ~AtBorder(s, t, p)
    <3>1. \A q \in After(p) : Lengths(s, t)[q] \in Nat
      BY <1>1, <2>3
    <3>2. QED
      BY <2>1, <3>1 DEF CellEntry, After, Larger
  <2>4. QED
    BY <2>2, <2>3
<1>2. Cells(s, t) \subseteq Good
  <2> HIDE DEF Good
  <2>1. QED
    BY <1>1, DownTheTable
<1>3. QED
  BY <1>2

-----------------------------------------------------------------------------

\* Common lines from the cell p on.
CommonFrom(s, t, p) ==
    {C \in Common(s, t) : \A q \in C : q[1] >= p[1] /\ q[2] >= p[2]}

LEMMA CommonIsFinite ==
  ASSUME NEW s \in Seq(Line), NEW t \in Seq(Line), NEW C \in Common(s, t)
  PROVE  /\ IsFiniteSet(C)
         /\ C \subseteq (1..Len(s)) \X (1..Len(t))
         /\ \A D \in SUBSET C : D \in Common(s, t)
<1>1. C \subseteq (1..Len(s)) \X (1..Len(t))
  BY DEF Common
<1>2. IsFiniteSet((1..Len(s)) \X (1..Len(t)))
  <2>1. Len(s) \in Int /\ Len(t) \in Int /\ 1 \in Int
    OBVIOUS
  <2>2. IsFiniteSet(1..Len(s)) /\ IsFiniteSet(1..Len(t))
    BY ONLY <2>1, FS_Interval
  <2>3. QED
    BY <2>2, FS_Product
<1>3. QED
  BY <1>1, <1>2, FS_Subset DEF Common

\* A table entry is as large as any set of common lines from its cell on.
LEMMA TableBounds ==
  ASSUME NEW s \in Seq(Line), NEW t \in Seq(Line)
  PROVE  \A p \in Cells(s, t) : \A C \in CommonFrom(s, t, p) :
            Cardinality(C) <= Lengths(s, t)[p]
<1> DEFINE T == Lengths(s, t)
           Good == {p \in Cells(s, t) : \A C \in CommonFrom(s, t, p) : Cardinality(C) <= T[p]}
<1> HIDE DEF T
<1>0. \A p \in Cells(s, t) : T[p] \in Nat /\ T[p] = CellEntry(s, t, T, p)
  BY TableIsNat, TableIsRight DEF T
<1>1. ASSUME NEW p \in Cells(s, t), AtBorder(s, t, p) \/ After(p) \subseteq Good,
             NEW C \in CommonFrom(s, t, p)
      PROVE  Cardinality(C) <= T[p]
  <2>1. /\ C \in Common(s, t)
        /\ IsFiniteSet(C) /\ Cardinality(C) \in Nat
        /\ C \subseteq (1..Len(s)) \X (1..Len(t))
        /\ \A q \in C : q[1] >= p[1] /\ q[2] >= p[2]
    BY CommonIsFinite, FS_CardinalityType DEF CommonFrom
  <2>2. PICK x \in 1..Len(s) + 1, y \in 1..Len(t) + 1 : p = <<x, y>>
    BY DEF Cells
  <2>3. \A q \in C : q[1] \in 1..Len(s) /\ q[2] \in 1..Len(t) /\ q = <<q[1], q[2]>>
                     /\ q[1] >= x /\ q[2] >= y
    BY <2>1, <2>2
  <2>c. \A q, r \in C : q # r => (q[1] < r[1] /\ q[2] < r[2]) \/ (r[1] < q[1] /\ r[2] < q[2])
    BY <2>1 DEF Common
  <2>n. Len(s) \in Nat /\ Len(t) \in Nat /\ x \in Nat /\ y \in Nat
    OBVIOUS
  <2>4. CASE AtBorder(s, t, p)
    <3>1. x > Len(s) \/ y > Len(t)
      BY <2>2, <2>4 DEF AtBorder
    <3>2. \A q \in C : FALSE
      BY ONLY <2>3, <2>n, <3>1
    <3>3. C = {}
      BY <3>2
    <3>4. T[p] = 0
      BY <1>0, <2>4 DEF CellEntry, AtBorder
    <3>5. QED
      BY <3>3, <3>4, FS_EmptySet
  <2>5. CASE ~AtBorder(s, t, p) /\ s[x] = t[y]
    <3> DEFINE D == {q \in C : q[1] >= x + 1 /\ q[2] >= y + 1}
    <3>1. <<x + 1, y + 1>> \in Cells(s, t) /\ <<x + 1, y + 1>> \in Good
      BY <1>1, <2>2, <2>5, CellsAhead DEF After
    <3>2. D \in CommonFrom(s, t, <<x + 1, y + 1>>)
      BY <2>1, CommonIsFinite DEF CommonFrom
    <3>3. Cardinality(D) <= T[<<x + 1, y + 1>>]
      BY <3>1, <3>2
    <3>4. \A q, r \in C \ D : q = r
      <4> SUFFICES ASSUME NEW q \in C \ D, NEW r \in C \ D, q # r PROVE FALSE
        OBVIOUS
      <4>1. (q[1] < r[1] /\ q[2] < r[2]) \/ (r[1] < q[1] /\ r[2] < q[2])
        BY <2>c
      <4>2. \A u \in C : u[1] \in Int /\ u[2] \in Int /\ u[1] >= x /\ u[2] >= y
        BY ONLY <2>3
      <4>3. ~(q[1] >= x + 1 /\ q[2] >= y + 1) /\ ~(r[1] >= x + 1 /\ r[2] >= y + 1)
        OBVIOUS
      <4>4. q \in C /\ r \in C
        OBVIOUS
      <4>5. ASSUME NEW u \in C, NEW v \in C, u[1] < v[1], u[2] < v[2]
            PROVE  v[1] >= x + 1 /\ v[2] >= y + 1
        <5>1. /\ u[1] \in Int /\ u[2] \in Int /\ u[1] >= x /\ u[2] >= y
              /\ v[1] \in Int /\ v[2] \in Int
          BY ONLY <4>2
        <5>2. QED
          BY ONLY <2>n, <4>5, <5>1
      <4>6. QED
        BY ONLY <4>1, <4>3, <4>4, <4>5
    <3>5. IsFiniteSet(D) /\ Cardinality(D) \in Nat
      BY <2>1, FS_Subset, FS_CardinalityType
    <3>6. Cardinality(C) <= Cardinality(D) + 1
      <4>1. CASE C \ D = {}
        <5>1. C = D
          BY <4>1
        <5> HIDE DEF D
        <5>2. QED
          BY <3>5, <5>1
      <4>2. CASE C \ D # {}
        <5>1. PICK q \in C \ D : TRUE
          BY <4>2
        <5>2. C = D \cup {q} /\ q \notin D
          BY <3>4, <5>1
        <5> HIDE DEF D
        <5>3. Cardinality(C) = Cardinality(D) + 1
          BY <3>5, <5>2, FS_AddElement
        <5>4. QED
          BY <3>5, <5>3
      <4>3. QED
        BY <4>1, <4>2
    <3> HIDE DEF D
    <3>7. T[p] = T[<<x + 1, y + 1>>] + 1
      BY <1>0, <2>2, <2>5 DEF CellEntry, AtBorder
    <3>8. T[<<x + 1, y + 1>>] \in Nat
      BY <1>0, <3>1
    <3>9. QED
      BY ONLY <2>1, <3>3, <3>5, <3>6, <3>7, <3>8
  <2>6. CASE ~AtBorder(s, t, p) /\ s[x] # t[y]
    <3>1. /\ <<x + 1, y>> \in Cells(s, t) /\ <<x + 1, y>> \in Good
          /\ <<x, y + 1>> \in Cells(s, t) /\ <<x, y + 1>> \in Good
      BY <1>1, <2>2, <2>6, CellsAhead DEF After
    <3>2. T[p] = Larger(T[<<x + 1, y>>], T[<<x, y + 1>>])
      BY <1>0, <2>2, <2>6 DEF CellEntry, AtBorder
    <3>3. T[<<x + 1, y>>] \in Nat /\ T[<<x, y + 1>>] \in Nat
      BY <1>0, <3>1
    <3>4. T[<<x + 1, y>>] <= T[p] /\ T[<<x, y + 1>>] <= T[p]
      BY ONLY <3>2, <3>3 DEF Larger
    <3>5. T[p] \in Nat
      BY <1>0
    <3>6. CASE \A q \in C : q[1] # x
      <4>1. \A q \in C : q[1] >= x + 1 /\ q[2] >= y
        BY <2>3, <3>6
      <4>2. C \in CommonFrom(s, t, <<x + 1, y>>)
        BY <2>1, <4>1 DEF CommonFrom
      <4>3. Cardinality(C) <= T[<<x + 1, y>>]
        BY <3>1, <4>2
      <4>4. QED
        BY ONLY <2>1, <3>3, <3>4, <3>5, <4>3
    <3>7. CASE \E q \in C : q[1] = x
      <4>1. PICK q \in C : q[1] = x
        BY <3>7
      <4>2. s[q[1]] = t[q[2]]
        BY <2>1 DEF Common
      <4>3. q[2] # y
        BY <2>6, <4>1, <4>2
      <4>4. ASSUME NEW r \in C PROVE r[1] >= x /\ r[2] >= y + 1
        <5>1. r = q \/ (q[1] < r[1] /\ q[2] < r[2]) \/ (r[1] < q[1] /\ r[2] < q[2])
          BY <2>c
        <5>2. /\ q[1] \in Int /\ q[2] \in Int /\ r[1] \in Int /\ r[2] \in Int
              /\ q[2] >= y /\ r[1] >= x /\ r[2] >= y
          BY <2>3
        <5>3. QED
          BY ONLY <2>n, <4>1, <4>3, <5>1, <5>2
      <4>5. C \in CommonFrom(s, t, <<x, y + 1>>)
        BY <2>1, <4>4 DEF CommonFrom
      <4>6. Cardinality(C) <= T[<<x, y + 1>>]
        BY <3>1, <4>5
      <4>7. QED
        BY ONLY <2>1, <3>3, <3>4, <3>5, <4>6
    <3>8. QED
      BY <3>6, <3>7
  <2>7. QED
    BY <2>4, <2>5, <2>6
<1>2. Cells(s, t) \subseteq Good
  <2>1. \A p \in Cells(s, t) : (AtBorder(s, t, p) \/ After(p) \subseteq Good) => p \in Good
    BY <1>1
  <2> HIDE DEF Good
  <2>2. QED
    BY <2>1, DownTheTable
<1>3. QED
  BY <1>2 DEF T

-----------------------------------------------------------------------------

SameEntries == {n \in Entries : result[n].kind = "same"}

\* Where the loops are: what they kept and what the table still promises add up to
\* what it promised at the start.
DiffInv ==
    /\ a \in Seq(Line) /\ b \in Seq(Line)
    /\ i \in 1..Len(a) + 1 /\ j \in 1..Len(b) + 1
    /\ result \in Seq(DiffLine)
    /\ DiffReconstructs
    /\ Cardinality(SameEntries) + Lengths(a, b)[<<i, j>>] = Lengths(a, b)[<<1, 1>>]

\* A turn of the loops, by the entry it adds.
Turn(kind, from, to) ==
    /\ UNCHANGED <<a, b>>
    /\ Push(kind, from, to)
    /\ \/ kind = "same" /\ from = i /\ to = j /\ a[i] = b[j]
       \/ kind = "removed" /\ from = i /\ to = 0
       \/ kind = "added" /\ from = 0 /\ to = j
    /\ from # 0 => from <= Len(a) /\ i' = i + 1
    /\ to # 0 => to <= Len(b) /\ j' = j + 1
    /\ from = 0 => i' = i
    /\ to = 0 => j' = j

LEMMA StepsAreTurns ==
  ASSUME DiffInv, LoopStep
  PROVE  \/ SameLine /\ Turn("same", i, j)
         \/ RemovedLine /\ Turn("removed", i, 0)
         \/ AddedLine /\ Turn("added", 0, j)
<1>1. i \in Nat \ {0} /\ j \in Nat \ {0}
  BY DEF DiffInv
<1>2. CASE SameLine
  BY <1>1, <1>2 DEF SameLine, BothLeft, Turn
<1>3. CASE RemovedLine
  BY <1>1, <1>3 DEF RemovedLine, Turn
<1>4. CASE AddedLine
  BY <1>1, <1>4 DEF AddedLine, Turn
<1>5. QED
  BY <1>2, <1>3, <1>4 DEF LoopStep

\* The entries after a turn.
LEMMA EntriesGrow ==
  ASSUME DiffInv, NEW kind, NEW from, NEW to, Turn(kind, from, to)
  PROVE  /\ i' \in 1..Len(a) + 1 /\ j' \in 1..Len(b) + 1
         /\ from \in Nat /\ to \in Nat
         /\ result' \in Seq(DiffLine)
         /\ Len(result) \in Nat /\ Entries' = Entries \cup {Len(result) + 1}
         /\ \A n \in Entries : result'[n] = result[n] /\ n < Len(result) + 1
         /\ result'[Len(result) + 1] = [kind |-> kind, from |-> from, to |-> to]
<1>1. /\ i \in 1..Len(a) + 1 /\ j \in 1..Len(b) + 1 /\ Len(a) \in Nat /\ Len(b) \in Nat
      /\ result \in Seq(DiffLine)
  BY DEF DiffInv
<1>2. from \in Nat /\ to \in Nat /\ kind \in {"same", "removed", "added"}
  BY <1>1 DEF Turn
<1>3. from \in {0, i} /\ to \in {0, j}
  BY DEF Turn
<1>4. i' \in 1..Len(a) + 1
  BY <1>1, <1>3 DEF Turn
<1>5. j' \in 1..Len(b) + 1
  BY <1>1, <1>3 DEF Turn
<1>6. [kind |-> kind, from |-> from, to |-> to] \in DiffLine
  BY <1>2 DEF DiffLine
<1>7. result' = Append(result, [kind |-> kind, from |-> from, to |-> to])
  BY DEF Turn, Push
<1>8. QED
  BY <1>1, <1>2, <1>4, <1>5, <1>6, <1>7 DEF Entries

LEMMA TurnReconstructs ==
  ASSUME DiffInv, NEW kind, NEW from, NEW to, Turn(kind, from, to)
  PROVE  DiffReconstructs'
<1> DEFINE m == Len(result) + 1
<1>1. /\ i \in Nat \ {0} /\ j \in Nat \ {0}
      /\ from \in Nat /\ to \in Nat
      /\ Entries' = Entries \cup {m} /\ m \notin Entries
      /\ \A n \in Entries : result'[n] = result[n] /\ n < m /\ n \in Nat
      /\ result'[m] = [kind |-> kind, from |-> from, to |-> to]
      /\ m \in Nat
  <2>1. /\ Len(result) \in Nat /\ Entries' = Entries \cup {m}
        /\ from \in Nat /\ to \in Nat
        /\ \A n \in Entries : result'[n] = result[n] /\ n < m
        /\ result'[m] = [kind |-> kind, from |-> from, to |-> to]
    BY EntriesGrow
  <2>2. i \in Nat \ {0} /\ j \in Nat \ {0}
    BY DEF DiffInv
  <2>3. \A n \in Entries : n \in Nat
    BY DEF Entries
  <2>4. m \in Nat /\ m \notin Entries
    BY <2>1
  <2>5. QED
    BY <2>1, <2>2, <2>3, <2>4
<1>2. /\ a' = a /\ b' = b
      /\ \/ kind = "same" /\ from = i /\ to = j /\ a[i] = b[j]
         \/ kind = "removed" /\ from = i /\ to = 0
         \/ kind = "added" /\ from = 0 /\ to = j
      /\ i' = (IF from # 0 THEN i + 1 ELSE i)
      /\ j' = (IF to # 0 THEN j + 1 ELSE j)
  BY DEF Turn
<1> HIDE DEF m
<1>3. \A x \in 1..i' - 1 : \E n \in Entries' : result'[n].from = x
  <2> SUFFICES ASSUME NEW x \in 1..i' - 1 PROVE \E n \in Entries' : result'[n].from = x
    OBVIOUS
  <2>1. CASE x \in 1..i - 1
    <3>1. PICK n \in Entries : result[n].from = x
      BY <2>1 DEF DiffInv, DiffReconstructs
    <3>2. QED
      BY <1>1, <3>1
  <2>2. CASE x \notin 1..i - 1
    <3>1. from = x
      BY <1>1, <1>2, <2>2
    <3>2. QED
      BY <1>1, <3>1
  <2>3. QED
    BY <2>1, <2>2
<1>4. \A y \in 1..j' - 1 : \E n \in Entries' : result'[n].to = y
  <2> SUFFICES ASSUME NEW y \in 1..j' - 1 PROVE \E n \in Entries' : result'[n].to = y
    OBVIOUS
  <2>1. CASE y \in 1..j - 1
    <3>1. PICK n \in Entries : result[n].to = y
      BY <2>1 DEF DiffInv, DiffReconstructs
    <3>2. QED
      BY <1>1, <3>1
  <2>2. CASE y \notin 1..j - 1
    <3>1. to = y
      BY <1>1, <1>2, <2>2
    <3>2. QED
      BY <1>1, <3>1
  <2>3. QED
    BY <2>1, <2>2
<1>5. ASSUME NEW k \in Entries', NEW n \in Entries', k < n
      PROVE  /\ result'[k].from # 0 /\ result'[n].from # 0 => result'[k].from < result'[n].from
             /\ result'[k].to # 0 /\ result'[n].to # 0 => result'[k].to < result'[n].to
  <2>1. CASE n \in Entries
    <3>1. k \in Entries
      BY <1>1, <1>5, <2>1
    <3>2. QED
      BY <1>1, <1>5, <2>1, <3>1 DEF DiffInv, DiffReconstructs
  <2>2. CASE n = m
    <3>1. k \in Entries /\ result'[k] = result[k]
      BY <1>1, <1>5, <2>2
    <3>2. result[k].from \in 0..i - 1 /\ result[k].to \in 0..j - 1
      BY <3>1 DEF DiffInv, DiffReconstructs
    <3>3. result'[n].from = from /\ result'[n].to = to
      BY <1>1, <2>2
    <3>4. QED
      BY <1>1, <1>2, <3>1, <3>2, <3>3
  <2>3. QED
    BY <1>1, <2>1, <2>2
<1>6. ASSUME NEW n \in Entries'
      PROVE  /\ result'[n].from \in 0..i' - 1 /\ result'[n].to \in 0..j' - 1
             /\ result'[n].kind = "same" <=> result'[n].from # 0 /\ result'[n].to # 0
             /\ result'[n].kind = "same" => a'[result'[n].from] = b'[result'[n].to]
  <2>1. CASE n \in Entries
    <3>1. /\ result[n].from \in 0..i - 1 /\ result[n].to \in 0..j - 1
          /\ result[n].kind = "same" <=> result[n].from # 0 /\ result[n].to # 0
          /\ result[n].kind = "same" => a[result[n].from] = b[result[n].to]
      BY <2>1 DEF DiffInv, DiffReconstructs
    <3>2. 0..i - 1 \subseteq 0..i' - 1 /\ 0..j - 1 \subseteq 0..j' - 1
      BY <1>1, <1>2
    <3>3. QED
      BY <1>1, <1>2, <2>1, <3>1, <3>2
  <2>2. CASE n = m
    BY <1>1, <1>2, <2>2
  <2>3. QED
    BY <1>1, <2>1, <2>2
<1>7. QED
  BY <1>3, <1>4, <1>5, <1>6 DEF DiffReconstructs

\* A turn keeps a line exactly if it is in both texts.
LEMMA TurnKeeps ==
  ASSUME DiffInv, NEW kind, NEW from, NEW to, Turn(kind, from, to)
  PROVE  /\ Cardinality(SameEntries) \in Nat
         /\ Cardinality(SameEntries)' =
              IF kind = "same" THEN Cardinality(SameEntries) + 1 ELSE Cardinality(SameEntries)
<1> DEFINE m == Len(result) + 1
<1>1. /\ Entries' = Entries \cup {m} /\ m \notin Entries
      /\ \A n \in Entries : result'[n] = result[n]
      /\ result'[m].kind = kind
  <2>1. /\ Entries' = Entries \cup {m} /\ Len(result) \in Nat
        /\ \A n \in Entries : result'[n] = result[n] /\ n < m
        /\ result'[m] = [kind |-> kind, from |-> from, to |-> to]
    BY EntriesGrow
  <2>2. m \notin Entries
    BY <2>1
  <2>3. QED
    BY <2>1, <2>2
<1>2. IsFiniteSet(SameEntries)
  <2>1. IsFiniteSet(Entries)
    <3>1. 1 \in Int /\ Len(result) \in Int
      BY DEF DiffInv
    <3>2. QED
      BY <3>1, FS_Interval DEF Entries
  <2>2. QED
    BY <2>1, FS_Subset DEF SameEntries
<1> HIDE DEF m
<1>3. SameEntries' = (IF kind = "same" THEN SameEntries \cup {m} ELSE SameEntries)
  BY <1>1 DEF SameEntries
<1>4. m \notin SameEntries
  BY <1>1 DEF SameEntries
<1>5. Cardinality(SameEntries)' = Cardinality(SameEntries')
  OBVIOUS
<1>6. QED
  BY <1>2, <1>3, <1>4, <1>5, FS_AddElement, FS_CardinalityType

LEMMA LoopStepKeepsDiffInv ==
  ASSUME DiffInv, LoopStep
  PROVE  DiffInv'
<1> DEFINE T == Lengths(a, b)
<1> HIDE DEF T
<1>1. /\ a \in Seq(Line) /\ b \in Seq(Line) /\ Len(a) \in Nat /\ Len(b) \in Nat
      /\ i \in 1..Len(a) + 1 /\ j \in 1..Len(b) + 1
      /\ Cardinality(SameEntries) + T[<<i, j>>] = T[<<1, 1>>]
  BY DEF DiffInv, T
<1>2. \A x \in 1..Len(a) + 1, y \in 1..Len(b) + 1 :
        /\ T[<<x, y>>] \in Nat
        /\ T[<<x, y>>] = IF x > Len(a) \/ y > Len(b) THEN 0
                         ELSE IF a[x] = b[y] THEN T[<<x + 1, y + 1>>] + 1
                         ELSE Larger(T[<<x + 1, y>>], T[<<x, y + 1>>])
  <2> SUFFICES ASSUME NEW x \in 1..Len(a) + 1, NEW y \in 1..Len(b) + 1
               PROVE  /\ T[<<x, y>>] \in Nat
                      /\ T[<<x, y>>] = IF x > Len(a) \/ y > Len(b) THEN 0
                                       ELSE IF a[x] = b[y] THEN T[<<x + 1, y + 1>>] + 1
                                       ELSE Larger(T[<<x + 1, y>>], T[<<x, y + 1>>])
    OBVIOUS
  <2>1. <<x, y>> \in Cells(a, b)
    BY DEF Cells
  <2>2. T[<<x, y>>] \in Nat /\ T[<<x, y>>] = CellEntry(a, b, T, <<x, y>>)
    BY <1>1, <2>1, TableIsNat, TableIsRight DEF T
  <2>3. QED
    BY <2>2 DEF CellEntry
<1>a. T[<<i, j>>] = IF i > Len(a) \/ j > Len(b) THEN 0
                      ELSE IF a[i] = b[j] THEN T[<<i + 1, j + 1>>] + 1
                      ELSE Larger(T[<<i + 1, j>>], T[<<i, j + 1>>])
  BY <1>1, <1>2
<1>b. \A m, n \in Nat : ~(m <= n /\ m > n)
  OBVIOUS
<1>c. i \in Nat /\ j \in Nat
  BY <1>1
<1>3. PICK kind, from, to :
        /\ Turn(kind, from, to)
        /\ \/ kind = "same" /\ SameLine
           \/ kind = "removed" /\ RemovedLine
           \/ kind = "added" /\ AddedLine
  BY StepsAreTurns
<1>4. /\ i' \in 1..Len(a) + 1 /\ j' \in 1..Len(b) + 1 /\ result' \in Seq(DiffLine)
      /\ a' = a /\ b' = b
  BY <1>3, EntriesGrow DEF Turn
<1>5. DiffReconstructs'
  BY <1>3, TurnReconstructs
<1>6. T[<<i, j>>] = IF kind = "same" THEN T[<<i', j'>>] + 1 ELSE T[<<i', j'>>]
  <2>1. CASE kind = "same" /\ SameLine
    <3>1. i <= Len(a) /\ j <= Len(b) /\ a[i] = b[j] /\ i' = i + 1 /\ j' = j + 1
      BY <2>1 DEF SameLine, BothLeft
    <3>2. T[<<i, j>>] = T[<<i + 1, j + 1>>] + 1
      BY ONLY <1>1, <1>a, <1>b, <1>c, <3>1
    <3>3. QED
      BY <2>1, <3>1, <3>2
  <2>2. CASE kind = "removed" /\ RemovedLine
    <3>1. i <= Len(a) /\ i' = i + 1 /\ j' = j
      BY <2>2 DEF RemovedLine
    <3>2. CASE j <= Len(b)
      <4>1. a[i] # b[j] /\ T[<<i + 1, j>>] >= T[<<i, j + 1>>]
        BY <2>2, <3>1, <3>2 DEF RemovedLine, BothLeft, T
      <4>2. T[<<i, j>>] = Larger(T[<<i + 1, j>>], T[<<i, j + 1>>])
        BY ONLY <1>1, <1>a, <1>b, <1>c, <3>1, <3>2, <4>1
      <4>3. QED
        BY <2>2, <3>1, <4>1, <4>2 DEF Larger
    <3>3. CASE j > Len(b)
      <4>1. T[<<i, j>>] = 0
        BY <1>1, <1>2, <3>3
      <4>2. T[<<i', j'>>] = 0
        BY <1>2, <1>4, <3>1, <3>3
      <4>3. QED
        BY <2>2, <4>1, <4>2
    <3>4. QED
      BY <1>1, <3>2, <3>3
  <2>3. CASE kind = "added" /\ AddedLine
    <3>1. j <= Len(b) /\ i' = i /\ j' = j + 1
      BY <2>3 DEF AddedLine
    <3>2. CASE i <= Len(a)
      <4>1. a[i] # b[j] /\ T[<<i + 1, j>>] < T[<<i, j + 1>>]
        BY <2>3, <3>1, <3>2 DEF AddedLine, BothLeft, T
      <4>2. T[<<i, j>>] = Larger(T[<<i + 1, j>>], T[<<i, j + 1>>])
        BY ONLY <1>1, <1>a, <1>b, <1>c, <3>1, <3>2, <4>1
      <4>3. i + 1 \in 1..Len(a) + 1 /\ j + 1 \in 1..Len(b) + 1
        BY ONLY <1>1, <1>c, <3>1, <3>2
      <4>4. T[<<i + 1, j>>] \in Nat /\ T[<<i, j + 1>>] \in Nat
        BY <1>1, <1>2, <4>3
      <4>5. QED
        BY <2>3, <3>1, <4>1, <4>2, <4>4 DEF Larger
    <3>3. CASE i > Len(a)
      <4>1. T[<<i, j>>] = 0
        BY <1>1, <1>2, <3>3
      <4>2. T[<<i', j'>>] = 0
        BY <1>2, <1>4, <3>1, <3>3
      <4>3. QED
        BY <2>3, <4>1, <4>2
    <3>4. QED
      BY <1>1, <3>2, <3>3
  <2>4. QED
    BY <1>3, <2>1, <2>2, <2>3
<1>7. Cardinality(SameEntries') + T[<<i', j'>>] = T[<<1, 1>>]
  <2>1. /\ Cardinality(SameEntries) \in Nat
        /\ Cardinality(SameEntries') =
             IF kind = "same" THEN Cardinality(SameEntries) + 1 ELSE Cardinality(SameEntries)
    BY <1>3, TurnKeeps
  <2>2. T[<<i, j>>] \in Nat /\ T[<<i', j'>>] \in Nat
    BY <1>1, <1>2, <1>4
  <2>3. QED
    BY ONLY <1>1, <1>6, <2>1, <2>2
<1>8. Lengths(a, b)' = T
  BY <1>4 DEF T
<1>9. QED
  BY <1>1, <1>4, <1>5, <1>7, <1>8 DEF DiffInv

LEMMA LoadStartsOver ==
  ASSUME NEW s \in Seq(Line), NEW t \in Seq(Line), Load(s, t)
  PROVE  DiffInv'
<1>1. /\ a' = s /\ b' = t /\ i' = 1 /\ j' = 1 /\ result' = <<>>
  BY DEF Load
<1>2. Entries' = {} /\ SameEntries' = {}
  BY <1>1 DEF Entries, SameEntries
<1>3. DiffReconstructs'
  BY <1>1, <1>2 DEF DiffReconstructs
<1>4. Lengths(a, b)' = Lengths(s, t)
  BY <1>1
<1>5. Lengths(s, t)[<<1, 1>>] \in Nat
  BY TableIsNat DEF Cells
<1>6. Cardinality(SameEntries') + Lengths(s, t)[<<1, 1>>] = Lengths(s, t)[<<1, 1>>]
  <2>1. Cardinality(SameEntries') = 0
    BY <1>2, FS_EmptySet
  <2>2. QED
    BY ONLY <2>1, <1>5
<1>7. a' \in Seq(Line) /\ b' \in Seq(Line) /\ i' \in 1..Len(a') + 1 /\ j' \in 1..Len(b') + 1
  BY <1>1
<1>8. QED
  BY <1>1, <1>3, <1>4, <1>6, <1>7 DEF DiffInv

\* When the loops end nothing is left that the table promised.
LEMMA DoneIsShortest ==
  ASSUME DiffInv
  PROVE  DiffIsShortest
<1> SUFFICES ASSUME DiffDone, NEW C \in Common(a, b)
             PROVE  Cardinality(C) <= Cardinality(SameEntries)
  BY DEF DiffIsShortest, DiffInv, SameEntries
<1>1. /\ a \in Seq(Line) /\ b \in Seq(Line) /\ Len(a) \in Nat /\ Len(b) \in Nat
      /\ <<i, j>> \in Cells(a, b) /\ <<1, 1>> \in Cells(a, b)
  BY DEF DiffInv, Cells
<1>2. Lengths(a, b)[<<i, j>>] = 0
  <2>1. AtBorder(a, b, <<i, j>>)
    BY DEF DiffDone, AtBorder
  <2>2. QED
    BY <1>1, <2>1, TableIsRight DEF CellEntry, AtBorder
<1>3. Cardinality(SameEntries) = Lengths(a, b)[<<1, 1>>]
  <2>1. Cardinality(SameEntries) \in Nat
    <3>1. 1 \in Int /\ Len(result) \in Int
      BY DEF DiffInv
    <3>2. IsFiniteSet(1..Len(result))
      BY <3>1, FS_Interval
    <3>3. QED
      BY <3>2, FS_Subset, FS_CardinalityType DEF SameEntries, Entries
  <2>2. QED
    BY <1>2, <2>1 DEF DiffInv
<1>4. C \in CommonFrom(a, b, <<1, 1>>)
  BY <1>1, CommonIsFinite DEF CommonFrom
<1>5. QED
  BY <1>1, <1>3, <1>4, TableBounds

-----------------------------------------------------------------------------

\* A render loads texts of versions, or the empty text.
LEMMA DrawsLines ==
  ASSUME CompareInv, NEW held, DOMAIN held \subseteq 1..Len(history),
         \A v \in DOMAIN held : held[v] = history[v],
         NEW x, NEW y, NEW shown, Draw(x, y, held, shown)
  PROVE  DiffInv'
<1>1. \A v \in 1..Len(history) : history[v] \in Seq(Line)
  BY LineDiffAssumption DEF CompareInv, Exist, LineDiffAssumption
<1>2. Blank \in Seq(Line) /\ <<>> \in Seq(Line)
  BY LineDiffAssumption, VersionDiffAssumption DEF LineDiffAssumption, VersionDiffAssumption
<1>3. TextOf(x, held) \in Seq(Line) /\ TextOf(y, held) \in Seq(Line)
  BY <1>1, <1>2 DEF TextOf
<1>4. QED
  BY <1>2, <1>3, LoadStartsOver DEF Draw

LEMMA CompareKeepsDiffInv ==
  ASSUME CompareInv, DiffInv, CompareNext
  PROVE  DiffInv'
<1>1. UNCHANGED loopVars => DiffInv'
  BY DEF DiffInv, DiffReconstructs, SameEntries, Entries, loopVars
<1>2. /\ DOMAIN values \subseteq 1..Len(history)
      /\ \A v \in DOMAIN values : values[v] = history[v]
  BY DEF CompareInv, Exist, NumberStandsOverItsText
<1>3. CASE (\E text \in Text : AddVersion(text)) \/ Compare \/ CompareFailed
  BY <1>1, <1>3 DEF AddVersion, Compare, CompareFailed
<1>4. CASE Rerender \/ \E x, y \in 1..listed : Select(x, y)
  BY <1>2, <1>4, DrawsLines DEF Rerender, Select
<1>5. CASE Compared
  <2>1. sent[1] \in 1..Len(history) /\ sent[2] \in 1..Len(history)
    BY <1>5 DEF Compared, CompareInv, Exist
  <2>2. /\ DOMAIN values' = {sent[1], sent[2]}
        /\ \A v \in DOMAIN values' : values'[v] = history[v]
        /\ Draw(left, right, values', TRUE)
    BY <1>5 DEF Compared
  <2>3. QED
    BY <2>1, <2>2, DrawsLines
<1>6. CASE HideValues
  <2>1. Draw(left, right, <<>>, FALSE)
    BY <1>6 DEF HideValues
  <2>2. DOMAIN <<>> = {}
    OBVIOUS
  <2>3. QED
    BY <2>1, <2>2, DrawsLines
<1>7. CASE DrawLine
  BY <1>7, LoopStepKeepsDiffInv DEF DrawLine
<1>8. QED
  BY <1>3, <1>4, <1>5, <1>6, <1>7 DEF CompareNext

THEOREM DiffInvariant == WebSpec => []DiffInv
<1>1. WebInit => DiffInv
  <2> SUFFICES ASSUME NothingCompared PROVE DiffInv
    BY DEF WebInit, CompareInit
  <2>1. a = <<>> /\ b = <<>> /\ i = 1 /\ j = 1 /\ result = <<>>
    BY DEF NothingCompared
  <2>2. Entries = {} /\ SameEntries = {} /\ DiffReconstructs
    BY <2>1 DEF Entries, SameEntries, DiffReconstructs
  <2>3. Cardinality(SameEntries) = 0
    BY <2>2, FS_EmptySet
  <2>4. a \in Seq(Line) /\ b \in Seq(Line) /\ Len(a) = 0 /\ Len(b) = 0
    BY <2>1
  <2>5. <<1, 1>> \in Cells(a, b)
    BY <2>4 DEF Cells
  <2>6. Lengths(a, b)[<<1, 1>>] \in Nat
    BY <2>4, <2>5, TableIsNat
  <2>7. result \in Seq(DiffLine)
    BY <2>1
  <2>8. QED
    BY <2>1, <2>2, <2>3, <2>4, <2>6, <2>7 DEF DiffInv
<1>2. CompareInv /\ DiffInv /\ [WebNext]_webVars => DiffInv'
  <2>1. DiffInv /\ UNCHANGED compareVars => DiffInv'
    BY DEF DiffInv, DiffReconstructs, SameEntries, Entries, compareVars, loopVars
  <2>2. QED
    BY <2>1, CompareKeepsDiffInv, PageSteps
<1>3. QED
  BY <1>1, <1>2, CompareInvariant, PTL DEF WebSpec

\* The diff on the screen is one of the texts above it and, when it is complete,
\* no diff of them keeps more lines, for any texts of any length.
THEOREM DiffsAreShortest == WebSpec => []DiffIsShortest
  BY DiffInvariant, DoneIsShortest, PTL

-----------------------------------------------------------------------------

\* The components of the project page, the comparison and the reader of the log
\* keep their types.
THEOREM PagesTypeCorrect ==
  WebSpec => [](MaskTypeOK /\ FormTypeOK /\ CompareTypeOK /\ ListingTypeOK)
<1>1. MaskInv => MaskTypeOK
  BY DEF MaskInv, Numbers, Switches, MaskTypeOK
<1>2. FormInv => FormTypeOK
  BY DEF FormInv, FormTypes
<1>3. ListingInv => ListingTypeOK
  BY DEF ListingInv
<1>4. CompareInv /\ DiffInv => CompareTypeOK
  <2> SUFFICES ASSUME CompareInv, DiffInv PROVE CompareTypeOK
    OBVIOUS
  <2>1. \A v \in DOMAIN values : values[v] \in Text
    BY DEF CompareInv, Exist, NumberStandsOverItsText
  <2>2. QED
    BY <2>1 DEF CompareInv, Exist, DiffInv, CompareTypeOK
<1>5. QED
  BY <1>1, <1>2, <1>3, <1>4, MaskInvariant, FormInvariant, ListingInvariant,
     CompareInvariant, DiffInvariant, PTL
=============================================================================
