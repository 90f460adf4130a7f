------------------------------ MODULE SecretDB ------------------------------
(***************************************************************************)
(* The two tables the secret store keeps in PostgreSQL, `secrets` and      *)
(* `secret_versions`, and the statements the services run on them          *)
(* (internal/db/sqlcgen/secrets.sql.go over migration 000001), under READ  *)
(* COMMITTED, the isolation Store.InTx gets from pool.Begin:               *)
(*                                                                         *)
(*  - an UPDATE takes the row's lock and keeps it until its transaction    *)
(*    ends; an UPDATE that finds the row locked waits, then evaluates its  *)
(*    WHERE clause again on what was committed;                            *)
(*  - an INSERT that would duplicate a key of a unique index waits for the *)
(*    transaction that holds the duplicate, and fails if it is committed;  *)
(*  - a commit publishes all of a transaction's rows at once, a rollback   *)
(*    none of them.                                                        *)
(*                                                                         *)
(* One project is modelled; a secret's identity is its environment and key.*)
(***************************************************************************)
EXTENDS Integers

CONSTANTS
    Secret,     \* ids of secret rows (uuids)
    Env,        \* environments of the project
    Key,        \* secret keys
    Value,      \* plaintext values
    Request,    \* requests served by the API, each at most one transaction
    None        \* no row, no owner of a lock, no value

VARIABLES
    secrets,    \* committed rows of table secrets, by id
    versions,   \* committed rows of table secret_versions
    lock,       \* which request's transaction holds a row of secrets
    dirty,      \* the uncommitted image of a locked row
    pending     \* rows of secret_versions a transaction inserted so far

dbVars == <<secrets, versions, lock, dirty, pending>>

SecretRow == [env : Env, key : Key, current_version : Nat, deleted : BOOLEAN]

\* Associated data binds a ciphertext to one secret of one environment.
SecretAAD(e, k) == <<e, k>>

Sealed == [aad : Env \X Key, value : Value]

\* What Create, Update, Rollback and Promote write in the comment column.
Comment == [kind : {"created", "updated"}]
             \cup [kind : {"rolled back"}, version : Nat]
             \cup [kind : {"promoted"}, from : Env]

VersionRow ==
    [secret : Secret, version : Nat, sealed : Sealed, comment : Comment]

ASSUME SecretDBAssumption ==
    /\ None \notin SecretRow
    /\ None \notin Request

DBTypeOK ==
    /\ secrets \in [Secret -> SecretRow \cup {None}]
    /\ versions \subseteq VersionRow
    /\ lock \in [Secret -> Request \cup {None}]
    /\ dirty \in [Secret -> SecretRow \cup {None}]
    /\ pending \in [Request -> SUBSET VersionRow]

-----------------------------------------------------------------------------
(* Encryption, as far as the services can tell *)

Encrypt(value, aad) == [aad |-> aad, value |-> value]

\* Decrypt fails unless the associated data is the one used to seal.
CanDecrypt(sealed, aad) == sealed.aad = aad

-----------------------------------------------------------------------------
(* Queries: they see committed rows only *)

IsLive(row) == row # None /\ ~row.deleted

Live(s) == IsLive(secrets[s])

VersionsOf(s) == {v \in versions : v.secret = s}

SecretKeyExists(e, k) ==
    \E s \in Secret : Live(s) /\ secrets[s].env = e /\ secrets[s].key = k

\* Mutant: the query forgets the secret id.
GetAnySecretVersion(s, n) == {v \in versions : v.version = n}

GetSecretVersion(s, n) == {v \in versions : v.secret = s /\ v.version = n}

\* ORDER BY version DESC LIMIT 1, with no look at the secrets row.
GetCurrentSecretVersion(s) ==
    {v \in VersionsOf(s) : \A w \in VersionsOf(s) : w.version <= v.version}

\* One statement, hence one snapshot of every live secret of an environment.
ListCurrentSecretValues(e) ==
    UNION {GetCurrentSecretVersion(s) :
             s \in {t \in Secret : Live(t) /\ secrets[t].env = e}}

-----------------------------------------------------------------------------
(* Statements inside a transaction of request r *)

\* The row as r's statements see it: its own uncommitted image first.
Image(r, s) == IF lock[s] = r THEN dirty[s] ELSE secrets[s]

LockFree(r, s) == lock[s] \in {r, None}

\* Mutant: the WHERE clause forgets deleted_at IS NULL.
BumpMatchesDeleted(r, s, expected) ==
    /\ Image(r, s) # None
    /\ expected > 0 => Image(r, s).current_version = expected

\* WHERE id = $1 AND deleted_at IS NULL [AND current_version = $2].
BumpMatches(r, s, expected) ==
    /\ IsLive(Image(r, s))
    /\ expected > 0 => Image(r, s).current_version = expected

\* SET current_version = current_version + 1: takes the row lock.
BumpSecretVersion(r, s) ==
    /\ LockFree(r, s)
    /\ lock' = [lock EXCEPT ![s] = r]
    /\ dirty' = [dirty EXCEPT ![s] =
                   [Image(r, s) EXCEPT !.current_version = @ + 1]]
    /\ UNCHANGED <<secrets, versions, pending>>

\* Entries of the unique index on (environment_id, key) WHERE deleted_at IS
\* NULL, whether committed or written by a transaction that is still open.
Occupies(row, e, k) == IsLive(row) /\ row.env = e /\ row.key = k

\* Mutant: no unique index, so only SecretKeyExists guards the key.
NoIndexEntries(e, k) == {}

IndexEntries(e, k) ==
    {s \in Secret : Occupies(secrets[s], e, k) \/ Occupies(dirty[s], e, k)}

\* The index waits while another open transaction holds a duplicate.
IndexSettled(r, e, k) == \A s \in IndexEntries(e, k) : LockFree(r, s)

CreateSecret(r, s, e, k) ==
    /\ secrets[s] = None /\ lock[s] = None        \* a fresh uuid
    /\ lock' = [lock EXCEPT ![s] = r]
    /\ dirty' = [dirty EXCEPT ![s] = [env |-> e, key |-> k,
                                      current_version |-> 0,
                                      deleted |-> FALSE]]
    /\ UNCHANGED <<secrets, versions, pending>>

\* UNIQUE (secret_id, version)
VersionTaken(rows, s, n) == \E v \in rows : v.secret = s /\ v.version = n

CreateSecretVersion(r, row) ==
    /\ pending' = [pending EXCEPT ![r] = @ \cup {row}]
    /\ UNCHANGED <<secrets, versions, lock, dirty>>

-----------------------------------------------------------------------------
(* The end of Store.InTx, and the one statement run outside a transaction *)

ReleasedLocks(r) == [s \in Secret |-> IF lock[s] = r THEN None ELSE lock[s]]
ReleasedImages(r) == [s \in Secret |-> IF lock[s] = r THEN None ELSE dirty[s]]

CommitTx(r) ==
    /\ secrets' = [s \in Secret |-> IF lock[s] = r THEN dirty[s] ELSE secrets[s]]
    /\ versions' = versions \cup pending[r]
    /\ lock' = ReleasedLocks(r)
    /\ dirty' = ReleasedImages(r)
    /\ pending' = [pending EXCEPT ![r] = {}]

\* Mutant: an error path that returns without rolling back.
LeakTx(r) == UNCHANGED <<secrets, versions, lock, dirty, pending>>

RollbackTx(r) ==
    /\ lock' = ReleasedLocks(r)
    /\ dirty' = ReleasedImages(r)
    /\ pending' = [pending EXCEPT ![r] = {}]
    /\ UNCHANGED <<secrets, versions>>

\* An UPDATE in its own transaction: waits for the row lock if the row
\* matches, changes no row if it does not.
SoftDeleteSecret(r, s) ==
    /\ Live(s) => LockFree(r, s)
    /\ secrets' = IF Live(s) THEN [secrets EXCEPT ![s].deleted = TRUE] ELSE secrets
    /\ UNCHANGED <<versions, lock, dirty, pending>>

-----------------------------------------------------------------------------
(* Start: the secrets created before the observation begins *)

CONSTANT Seeded      \* ids of the secrets that exist at the start

ASSUME SeededAssumption == Seeded \subseteq Secret

\* Each seeded secret was created with Create and never updated; no two share
\* an environment and key.
DBInit ==
    \E at \in [Seeded -> Env \X Key], value \in [Seeded -> Value] :
        /\ \A s, t \in Seeded : at[s] = at[t] => s = t
        /\ secrets = [s \in Secret |->
              IF s \in Seeded
              THEN [env |-> at[s][1], key |-> at[s][2],
                    current_version |-> 1, deleted |-> FALSE]
              ELSE None]
        /\ versions = {[secret |-> s, version |-> 1,
                        sealed |-> Encrypt(value[s], SecretAAD(at[s][1], at[s][2])),
                        comment |-> [kind |-> "created"]] :
                         s \in Seeded}
        /\ lock = [s \in Secret |-> None]
        /\ dirty = [s \in Secret |-> None]
        /\ pending = [r \in Request |-> {}]
=============================================================================
