---------------------------- MODULE SecretService ----------------------------
(***************************************************************************)
(* SecretService (internal/service/secret.go): creating, editing, rolling  *)
(* back, deleting and revealing secrets.                                   *)
(*                                                                         *)
(* Each request runs one method in its own goroutine, so requests          *)
(* interleave between any two of its queries.  What a method read before   *)
(* its transaction stays in `call`, `sealed` and `seen` while the tables   *)
(* move on.  pc[r] names the next statement of request r.                  *)
(*                                                                         *)
(* The role of a user does not change here, so the authorisation query and *)
(* the getSecret query that follows it are one step: the second repeats    *)
(* the only check of the first whose answer can change.                    *)
(***************************************************************************)
EXTENDS SecretDB, AccessRoles

CONSTANTS
    User,       \* callers
    Role        \* Role[u]: the caller's role in the workspace

VARIABLES
    pc,         \* next statement of each request
    call,       \* the request's arguments
    cur,        \* id of the secret the transaction is writing
    sealed,     \* what the method encrypted, or read to copy or decrypt
    seen,       \* current_version in the row getSecret returned
    newVersion, \* version number the transaction was given
    outcome,    \* the answer to the caller
    view,       \* per user, the last secret revealed: the form being edited
    audited     \* events handed to the audit recorder

callVars == <<pc, call, cur, sealed, seen, newVersion, outcome>>
vars == <<dbVars, callVars, view, audited>>

Ops == {"create", "update", "describe", "rollback", "delete", "reveal",
        "revealVersion", "promote"}

\* expected is ExpectedVersion (0: unchecked), target the version to roll back
\* to or to reveal, basis the value its caller was looking at when it sent a
\* checked update, source the environment a promotion copies from.
Call == [op : Ops, user : User, env : Env, key : Key \cup {None},
         expected : Nat, target : Nat, basis : Value \cup {None},
         source : Env \cup {None}]

View == [secret : Secret \cup {None}, version : Nat,
         value : Value \cup {None}]

Event == [action : {"created", "updated", "rolled_back", "deleted", "read",
                    "promoted"},
          secret : Secret \cup {None}, version : Nat]

Outcomes == {"none", "ok", "forbidden", "not_found", "validation", "conflict",
             "version_mismatch", "error"}

ASSUME SecretServiceAssumption ==
    /\ Role \in [User -> Roles]
    /\ None \notin Secret
    /\ None \notin Sealed
    /\ None \notin Call
    /\ None \notin Value
    /\ None \notin Key
    /\ None \notin Env

\* The statements of the methods, in the order their names suggest.
InTx == {"bump", "insertVersion", "commit"}
PCs == {"new", "insertSecret", "getVersion", "getCurrent", "describe",
        "softDelete", "record", "readSource", "readTarget", "done"} \cup InTx

TypeOK ==
    /\ DBTypeOK
    /\ pc \in [Request -> PCs]
    /\ call \in [Request -> Call \cup {None}]
    /\ cur \in [Request -> Secret \cup {None}]
    /\ sealed \in [Request -> Sealed \cup {None}]
    /\ seen \in [Request -> Nat]
    /\ newVersion \in [Request -> Nat]
    /\ outcome \in [Request -> Outcomes]
    /\ view \in [User -> View]
    /\ audited \subseteq Event

ServiceInit ==
    /\ pc = [r \in Request |-> "new"]
    /\ call = [r \in Request |-> None]
    /\ cur = [r \in Request |-> None]
    /\ sealed = [r \in Request |-> None]
    /\ seen = [r \in Request |-> 0]
    /\ newVersion = [r \in Request |-> 0]
    /\ outcome = [r \in Request |-> "none"]
    /\ view = [u \in User |-> [secret |-> None, version |-> 0, value |-> None]]
    /\ audited = {}

Init == DBInit /\ ServiceInit

-----------------------------------------------------------------------------
(* Steps every method is made of *)

RequireRole(u, minimum) == AtLeast(Role[u], minimum)

Goto(r, label) == pc' = [pc EXCEPT ![r] = label]

\* Return to the caller: the method's locals go out of scope.
Answer(r, result) ==
    /\ Goto(r, "done")
    /\ outcome' = [outcome EXCEPT ![r] = result]
    /\ call' = [call EXCEPT ![r] = None]
    /\ cur' = [cur EXCEPT ![r] = None]
    /\ sealed' = [sealed EXCEPT ![r] = None]
    /\ seen' = [seen EXCEPT ![r] = 0]
    /\ newVersion' = [newVersion EXCEPT ![r] = 0]

Args(op, u, e, k) == [op |-> op, user |-> u, env |-> e, key |-> k,
                      expected |-> 0, target |-> 0, basis |-> None,
                      source |-> None]

\* A method that returns without having written.
Refuse(r, result) ==
    /\ Answer(r, result)
    /\ UNCHANGED <<dbVars, view, audited>>

\* An error from a statement of the transaction: InTx rolls everything back.
AbortTx(r, result) ==
    /\ RollbackTx(r)
    /\ Answer(r, result)
    /\ UNCHANGED <<view, audited>>

-----------------------------------------------------------------------------
(* Create *)

CreateStart(r, u, e, k, value) ==
    /\ pc[r] = "new"
    /\ \/ ~RequireRole(u, "member") /\ Refuse(r, "forbidden")
       \/ /\ RequireRole(u, "member")
          /\ \/ SecretKeyExists(e, k) /\ Refuse(r, "validation")
             \/ /\ ~SecretKeyExists(e, k)
                /\ call' = [call EXCEPT ![r] = Args("create", u, e, k)]
                /\ sealed' = [sealed EXCEPT ![r] = Encrypt(value, SecretAAD(e, k))]
                /\ Goto(r, "insertSecret")
                /\ UNCHANGED <<dbVars, cur, seen, newVersion, outcome, view, audited>>

\* CreateSecret: the unique index decides, whatever was read before.
InsertSecret(r) ==
    /\ IndexSettled(r, call[r].env, call[r].key)
    /\ \/ /\ IndexEntries(call[r].env, call[r].key) # {}
          /\ AbortTx(r, "conflict")
       \/ /\ IndexEntries(call[r].env, call[r].key) = {}
          /\ \E s \in Secret :
                /\ CreateSecret(r, s, call[r].env, call[r].key)
                /\ cur' = [cur EXCEPT ![r] = s]
          /\ newVersion' = [newVersion EXCEPT ![r] = 1]
          /\ Goto(r, IF call[r].op = "create" THEN "insertVersion" ELSE "bump")
          /\ UNCHANGED <<call, sealed, seen, outcome, view, audited>>

CreateInsertSecret(r) ==
    pc[r] = "insertSecret" /\ call[r].op = "create" /\ InsertSecret(r)

-----------------------------------------------------------------------------
(* Update, UpdateDescription, Rollback, Delete: all look for a live secret *)

\* RequireSecretRole and getSecret, for a method that goes on to `label`.
GetSecret(r, op, u, s, expected, target, basis, label) ==
    /\ pc[r] = "new"
    /\ RequireRole(u, "member")
    /\ Live(s)
    /\ call' = [call EXCEPT ![r] =
                  [Args(op, u, secrets[s].env, secrets[s].key) EXCEPT
                     !.expected = expected, !.target = target, !.basis = basis]]
    /\ cur' = [cur EXCEPT ![r] = s]
    /\ seen' = [seen EXCEPT ![r] = secrets[s].current_version]
    /\ Goto(r, label)
    /\ UNCHANGED <<dbVars, newVersion, outcome, view, audited>>

\* The same queries when they turn the caller away.
SecretRefused(r, u, s) ==
    /\ pc[r] = "new"
    /\ secrets[s] # None
    /\ \/ ~Live(s) /\ Refuse(r, "not_found")
       \/ Live(s) /\ ~RequireRole(u, "member") /\ Refuse(r, "forbidden")

\* The edit form sends the version it was loaded with; API clients may omit it.
UpdateStart(r, u, s, value) ==
    \E expected \in {0} \cup (IF view[u].secret = s THEN {view[u].version} ELSE {}) :
        /\ GetSecret(r, "update", u, s, expected, 0,
                     IF expected > 0 THEN view[u].value ELSE None, "bump")
        /\ sealed' = [sealed EXCEPT ![r] =
                        Encrypt(value, SecretAAD(secrets[s].env, secrets[s].key))]

\* RequireSecretRole alone: the row is not read.
DescribeStart(r, u, s) ==
    /\ GetSecret(r, "describe", u, s, 0, 0, None, "describe")
    /\ UNCHANGED sealed

\* Waits for the row's lock; a row deleted meanwhile is no error.  The column
\* is read by nobody's decision and left out, and no event is recorded.
DescribeRow(r) ==
    /\ pc[r] = "describe"
    /\ Live(cur[r]) => LockFree(r, cur[r])
    /\ Refuse(r, "ok")

RollbackStart(r, u, s, target) ==
    \/ /\ target # secrets[s].current_version
       /\ GetSecret(r, "rollback", u, s, 0, target, None, "getVersion")
       /\ UNCHANGED sealed
    \/ /\ pc[r] = "new" /\ RequireRole(u, "member") /\ Live(s)
       /\ target = secrets[s].current_version
       /\ Refuse(r, "validation")

\* Mutant: copies whatever is current.
RollbackReadCurrent(r) ==
    /\ pc[r] = "getVersion" /\ call[r].op = "rollback"
    /\ \E row \in GetCurrentSecretVersion(cur[r]) :
          sealed' = [sealed EXCEPT ![r] = row.sealed]
    /\ Goto(r, "bump")
    /\ UNCHANGED <<dbVars, call, cur, seen, newVersion, outcome, view, audited>>

\* GetSecretVersion: the row to copy is read before the transaction begins.
RollbackReadTarget(r) ==
    /\ pc[r] = "getVersion" /\ call[r].op = "rollback"
    /\ LET rows == GetSecretVersion(cur[r], call[r].target) IN
       \/ rows = {} /\ Refuse(r, "not_found")
       \/ \E row \in rows :
             /\ sealed' = [sealed EXCEPT ![r] = row.sealed]
             /\ Goto(r, "bump")
             /\ UNCHANGED <<dbVars, call, cur, seen, newVersion, outcome, view, audited>>

DeleteStart(r, u, s) ==
    /\ GetSecret(r, "delete", u, s, 0, 0, None, "softDelete")
    /\ UNCHANGED sealed

\* No error when another request deleted the row meanwhile.
DeleteRow(r) ==
    /\ pc[r] = "softDelete"
    /\ SoftDeleteSecret(r, cur[r])
    /\ Goto(r, "record")
    /\ UNCHANGED <<call, cur, sealed, seen, newVersion, outcome, view, audited>>

-----------------------------------------------------------------------------
(* The transaction of Create, Update and Rollback *)

\* What the method will hand to audit.Record.
EventOf(r) ==
    [action |-> CASE call[r].op = "create"   -> "created"
                  [] call[r].op = "update"   -> "updated"
                  [] call[r].op = "rollback" -> "rolled_back"
                  [] call[r].op = "delete"   -> "deleted"
                  [] call[r].op = "promote"  -> "promoted"
                  [] OTHER                   -> "read",
     secret |-> cur[r],
     version |-> IF call[r].op = "delete" THEN 0 ELSE newVersion[r]]

\* BumpSecretVersion when a version was expected, else ...Unchecked.  Create
\* bumps last, the others first.
Bump(r) ==
    /\ pc[r] = "bump"
    /\ \/ /\ ~BumpMatches(r, cur[r], call[r].expected)
          /\ AbortTx(r, IF call[r].expected > 0 THEN "version_mismatch"
                                                ELSE "not_found")
       \/ /\ BumpMatches(r, cur[r], call[r].expected)
          /\ BumpSecretVersion(r, cur[r])
          /\ newVersion' = [newVersion EXCEPT ![r] =
                              Image(r, cur[r]).current_version + 1]
          /\ Goto(r, IF call[r].op = "create" THEN "commit" ELSE "insertVersion")
          /\ UNCHANGED <<call, cur, sealed, seen, outcome, view, audited>>

CommentFor(c) ==
    CASE c.op = "create"   -> [kind |-> "created"]
      [] c.op = "rollback" -> [kind |-> "rolled back", version |-> c.target]
      [] c.op = "promote"  -> [kind |-> "promoted", from |-> c.source]
      [] OTHER             -> [kind |-> "updated"]

NewRow(r) == [secret |-> cur[r], version |-> newVersion[r],
              sealed |-> sealed[r], comment |-> CommentFor(call[r])]

\* Waits for, or fails on, a duplicate (secret_id, version).
VersionSettled(r) ==
    \A q \in Request \ {r} : ~VersionTaken(pending[q], cur[r], newVersion[r])

VersionDuplicate(r) ==
    VersionTaken(versions \cup pending[r], cur[r], newVersion[r])

\* Mutant: Create forgets to set current_version.
InsertVersionThenCommit(r) ==
    /\ pc[r] = "insertVersion" /\ call[r].op # "promote"
    /\ CreateSecretVersion(r, NewRow(r))
    /\ Goto(r, "commit")
    /\ UNCHANGED <<call, cur, sealed, seen, newVersion, outcome, view, audited>>

\* Mutant: the event is recorded inside the transaction's closure.
InsertVersionAudited(r) ==
    /\ pc[r] = "insertVersion" /\ call[r].op # "promote"
    /\ CreateSecretVersion(r, NewRow(r))
    /\ audited' = audited \cup {EventOf(r)}
    /\ Goto(r, IF call[r].op = "create" THEN "bump" ELSE "commit")
    /\ UNCHANGED <<call, cur, sealed, seen, newVersion, outcome, view>>

InsertVersion(r) ==
    /\ pc[r] = "insertVersion" /\ call[r].op # "promote"
    /\ VersionSettled(r)
    /\ IF VersionDuplicate(r) THEN AbortTx(r, "conflict")
       ELSE /\ CreateSecretVersion(r, NewRow(r))
            /\ Goto(r, IF call[r].op = "create" THEN "bump" ELSE "commit")
            /\ UNCHANGED <<call, cur, sealed, seen, newVersion, outcome, view, audited>>

Commit(r) ==
    /\ pc[r] = "commit"
    /\ CommitTx(r)
    /\ Goto(r, "record")
    /\ UNCHANGED <<call, cur, sealed, seen, newVersion, outcome, view, audited>>

-----------------------------------------------------------------------------
(* Reveal and RevealVersion *)

\* decrypt under the identity getSecret returned; a mismatch is a server error.
DecryptRow(r, row) ==
    IF CanDecrypt(row.sealed, SecretAAD(call[r].env, call[r].key))
    THEN /\ sealed' = [sealed EXCEPT ![r] = row.sealed]
         /\ newVersion' = [newVersion EXCEPT ![r] = row.version]
         /\ Goto(r, "record")
         /\ UNCHANGED <<dbVars, call, cur, seen, outcome, view, audited>>
    ELSE Refuse(r, "error")

RevealStart(r, u, s) ==
    /\ GetSecret(r, "reveal", u, s, 0, 0, None, "getCurrent")
    /\ UNCHANGED sealed

\* GetCurrentSecretVersion, after the row was read: it may be newer.
RevealRead(r) ==
    /\ pc[r] = "getCurrent"
    /\ LET rows == GetCurrentSecretVersion(cur[r]) IN
       IF rows = {} THEN Refuse(r, "not_found")
       ELSE \E row \in rows : DecryptRow(r, row)

RevealVersionStart(r, u, s, target) ==
    /\ GetSecret(r, "revealVersion", u, s, 0, target, None, "getVersion")
    /\ UNCHANGED sealed

RevealVersionRead(r) ==
    /\ pc[r] = "getVersion" /\ call[r].op = "revealVersion"
    /\ LET rows == GetSecretVersion(cur[r], call[r].target) IN
       \/ rows = {} /\ Refuse(r, "not_found")
       \/ \E row \in rows : DecryptRow(r, row)

-----------------------------------------------------------------------------
(* The end of every method: audit.Record, then the answer *)

\* Mutant: the metadata is read after the value.
RevealedViewLate(r) == [secret |-> cur[r],
                        version |-> secrets[cur[r]].current_version,
                        value |-> sealed[r].value]

\* Reveal answers with the row getSecret returned and the value read after it.
RevealedView(r) == [secret |-> cur[r], version |-> seen[r],
                    value |-> sealed[r].value]

RecordAndAnswer(r) ==
    /\ pc[r] = "record" /\ call[r].op # "promote"
    /\ audited' = audited \cup {EventOf(r)}
    /\ view' = IF call[r].op = "reveal"
               THEN [view EXCEPT ![call[r].user] = RevealedView(r)] ELSE view
    /\ Answer(r, "ok")
    /\ UNCHANGED dbVars

\* The caller goes away, the connection breaks or the process dies: an open
\* transaction is rolled back, the rest of the method does not run.  At
\* "record" the write is already durable (the commit's reply was lost).
Fail(r) ==
    /\ pc[r] \notin {"new", "done"}
    /\ AbortTx(r, "error")

-----------------------------------------------------------------------------

\* Versions a caller may name: any that may exist, and one that does not yet.
Nameable(s) == {v.version : v \in VersionsOf(s)} \cup {secrets[s].current_version + 1}

Start(r) ==
    \E u \in User :
      \/ \E e \in Env, k \in Key, value \in Value : CreateStart(r, u, e, k, value)
      \/ \E s \in {t \in Secret : secrets[t] # None} :
           \/ SecretRefused(r, u, s)
           \/ \E value \in Value : UpdateStart(r, u, s, value)
           \/ DescribeStart(r, u, s)
           \/ \E target \in Nameable(s) : RollbackStart(r, u, s, target)
           \/ DeleteStart(r, u, s)
           \/ RevealStart(r, u, s)
           \/ \E target \in Nameable(s) : RevealVersionStart(r, u, s, target)

Step(r) ==
    \/ CreateInsertSecret(r)
    \/ RollbackReadTarget(r)
    \/ DescribeRow(r)
    \/ DeleteRow(r)
    \/ Bump(r)
    \/ InsertVersion(r)
    \/ Commit(r)
    \/ RevealRead(r)
    \/ RevealVersionRead(r)
    \/ RecordAndAnswer(r)

\* Every request was answered.
Quiet == (\A r \in Request : pc[r] = "done") /\ UNCHANGED vars

Next ==
    \/ \E r \in Request : Start(r) \/ Step(r) \/ Fail(r)
    \/ Quiet

\* The server and the database keep running an admitted request.
Fairness == \A r \in Request : WF_vars(Step(r))

Spec == Init /\ [][Next]_vars
FairSpec == Spec /\ Fairness
-----------------------------------------------------------------------------
(* What the secret store promises *)

\* The history of every committed secret is exactly versions 1, 2, ...,
\* current_version, each once, whatever requests raced and whichever of them
\* died between two statements: a rollback can name any of them, and the
\* pointer never names a version that is not there.
VersionsContiguous ==
    /\ \A v, w \in versions :
          v.secret = w.secret /\ v.version = w.version => v = w
    /\ \A s \in Secret :
          {v.version : v \in VersionsOf(s)} =
              IF secrets[s] = None THEN {} ELSE 1..secrets[s].current_version

\* No two live secrets of an environment have the same key, although Create
\* and Promote look for the key before the transaction that inserts it.
OneLiveSecretPerKey ==
    \A s, t \in Secret :
        /\ Live(s) /\ Live(t)
        /\ secrets[s].env = secrets[t].env /\ secrets[s].key = secrets[t].key
        => s = t

\* Every stored version opens under the identity of its own secret: the
\* ciphertext a rollback copies, or a promotion seals, was made for the secret
\* it is stored with.
EveryVersionDecrypts ==
    \A v \in versions :
        /\ secrets[v.secret] # None
        /\ CanDecrypt(v.sealed, SecretAAD(secrets[v.secret].env, secrets[v.secret].key))

\* "Two people editing the same secret cannot silently overwrite each other":
\* when an edit made with the version its form was loaded with is about to
\* land, the value it replaces is the value its author was shown.
NoBlindOverwrite ==
    \A r \in Request :
        /\ pc[r] \in {"insertVersion", "commit"}
        /\ call[r].op = "update" /\ call[r].expected > 0
        => \A v \in GetCurrentSecretVersion(cur[r]) :
              v.sealed.value = call[r].basis

\* A version written by a rollback holds the ciphertext of the earlier version
\* its comment names, although that version was read before the transaction.
RollbackRestores ==
    \A v \in versions : v.comment.kind = "rolled back" =>
        \E w \in versions : /\ w.secret = v.secret
                            /\ w.version = v.comment.version
                            /\ w.version < v.version
                            /\ w.sealed = v.sealed

\* The audit trail reports only what happened: an event about a version names
\* a committed one, written by the kind of request the event says, and a
\* deletion event a secret that is deleted.
KindOf == [created |-> "created", updated |-> "updated",
           rolled_back |-> "rolled back"]

AuditTruthful ==
    \A e \in audited :
        CASE e.action = "deleted" -> secrets[e.secret].deleted
          [] e.action = "read" -> GetSecretVersion(e.secret, e.version) # {}
          [] e.action \in DOMAIN KindOf ->
               \E v \in GetSecretVersion(e.secret, e.version) :
                   v.comment.kind = KindOf[e.action]
          [] OTHER -> TRUE

\* History is append-only: no step removes or rewrites a stored version, moves
\* a version pointer back, renames a secret or brings a deleted one back, and a
\* deleted secret gets no further version.
AppendOnlyStep ==
    /\ versions \subseteq versions'
    /\ \A s \in Secret : secrets[s] # None =>
         /\ secrets'[s] # None
         /\ secrets'[s].env = secrets[s].env
         /\ secrets'[s].key = secrets[s].key
         /\ secrets'[s].current_version >= secrets[s].current_version
         /\ secrets[s].deleted =>
              secrets'[s] = secrets[s] /\ VersionsOf(s)' = VersionsOf(s)

\* The same as a property of behaviours.
HistoryAppendOnly == [][AppendOnlyStep]_vars

\* Every request that was admitted is answered: whoever waits for a row lock
\* or for the unique index gets its turn, because every transaction ends.
EveryRequestAnswered ==
    \A r \in Request : pc[r] # "new" ~> pc[r] = "done"
=============================================================================
