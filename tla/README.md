# Vaultly: TLA+ models, checks and proofs

Vaultly keeps a team's secrets: encrypted, versioned, per environment, shared
by the members of a workspace. This directory holds TLA+ models of the parts of
it whose correctness depends on order (requests that interleave on the
database, a goroutine that batches events, a command that walks a table another
process writes to, cookies and tokens that cross on the wire, components of a
web page whose answers come late), the configurations with which
TLC checks them, and proofs checked by TLAPS. `PROJECT.json` lists components, runs, mutants, the source lines behind every
definition, findings, hazards and theorems.

All paths below are relative to `src/backend` unless they start with `frontend`.

## 1. The system

| Component | State | Operations | Hard part |
|---|---|---|---|
| Secret store, `internal/service/secret.go` over `internal/db` | tables `secrets`, `secret_versions` | Create, Update, UpdateDescription, Rollback, Delete, Reveal, RevealVersion, (Get, List, ListVersions) | requests interleave between queries; what is read before the transaction is stale inside it; a request can die between two statements |
| Promotion, `internal/service/promotion.go` | the same tables | Promote, dry run | two reads outside the transaction, many row locks inside it |
| Envelope encryption, `internal/crypto` | none (a master key) | Encrypt, Decrypt, Rewrap | a ciphertext is bound to a secret's identity by associated data |
| Workspace membership, `internal/service/workspace.go`, `authz.go` | table `workspace_members` | AddMember, UpdateMemberRole, RemoveMember | the last-owner rule is checked in one statement and acted on in another |
| Sessions, `internal/service/auth.go`, `internal/http/auth_handler.go`, `frontend/src/middleware.ts`, `frontend/src/lib/actions.ts` | table `refresh_tokens`, the browser's cookies | Login, Refresh, Logout, page load | page loads in parallel, replies lost or out of order |
| Audit recorder, `internal/service/audit.go`, and shutdown, `cmd/api/main.go` | a channel, a batch, table `audit_logs` | Record, flush, Close, shutdown | full queue, failed batch, handlers that outlive the shutdown timeout |
| Master-key rotation, `cmd/rotate-key/main.go` | table `secret_versions`, a cursor | run, dry run, interrupt, rerun | the API writes behind the cursor |
| Machine access tokens, `internal/service/token.go`, `RequireToken` in `internal/http/middleware.go` | table `access_tokens` | Create, Authenticate, Revoke, PullSecrets, Touch | revocation or project deletion between authentication and reading |
| Rate limiter, `internal/ratelimit` | a map of token buckets | Reserve (bucketFor), the janitor's reclaim | a bucket reclaimed while a request is about to use it, two first requests of a key, refusals that overlap |
| Audit listing, `internal/service/audit.go` List, the activity page | a cursor in the link to the next page | List, "Load older activity" | rows are committed between two pages, in another order than their timestamps, by several processes |
| Projects and environments, `internal/service/project.go` | tables `projects`, `environments` | Create, Update, Delete, CreateEnvironment, (Get, List) | a creation that dies in the middle, slugs checked before the transaction, soft deletion |
| Accounts and workspaces, Register in `internal/service/auth.go`, Create in `workspace.go` | tables `users`, `workspaces`, `workspace_members` | Register, Create | three inserts that must come together; a free slug is searched before the transaction |
| Web pages, `frontend/src/components`, `frontend/src/lib/actions.ts` | React state: a revealed value, a draft, a comparison | reveal and hide, edit and save, compare versions | answers that come late or not at all, renders that change the props under an open form, a tab that is left |
| Password hashing, JWTs, configuration, migrations, router, forms that only post | little or none | | sequential, or wiring |

How they interact. An HTTP handler runs one service method per request in a
goroutine of its own; methods share nothing but PostgreSQL (READ COMMITTED,
`Store.InTx`) and the recorder's channel. Promotion and the secret store share
the two secret tables. `rotate-key` is another process on the same
`secret_versions`. A CI job's pull passes the token service, the rate limiter and
the secret tables in turn. The Next.js server sits between the browser and the API,
renews expired sessions in its middleware, and passes cookies on; the components
in the page call server actions, which call the API, and are rendered again when
an action of their page succeeds.

What would make each part wrong is listed under `hazards` in `PROJECT.json`,
each at the line where it bites, with the properties that would catch it.

## 2. Modules

| Module | Models | Built on |
|---|---|---|
| `AccessRoles` | roles and their order | |
| `SecretDB` | the two tables, row locks, the unique indexes, commit and rollback, and each SQL statement as an operator | |
| `SecretService` | one action per statement of each method of `SecretService`, per request | `SecretDB`, `AccessRoles` |
| `Promotion` | `PromotionService.Promote` beside all of the above | `SecretService` |
| `SecretServiceProofs` | inductive invariants and proofs for `SecretService` and `Promotion` | `Promotion` |
| `Membership` | the three methods that change members, query by query | `AccessRoles` |
| `MembershipProofs` | inductive invariant and proofs | `Membership` |
| `RefreshSession` | one browser, the session handlers and the refresh tokens | |
| `RefreshSessionProofs` | inductive invariant and proofs | `RefreshSession` |
| `AuditTrail` | abstract specification of the audit log | |
| `AuditRecorder` | the channel, the goroutine `run`, `Close`, and the exits of `main` | refines `AuditTrail` |
| `AuditRecorderProofs` | inductive invariant, and the refinement step by step | `AuditRecorder` |
| `KeyRotation` | runs of `rotate-key`, the API that writes meanwhile, the operator | |
| `KeyRotationProofs` | loop invariant of the cursor and proofs | `KeyRotation` |
| `ProjectService` | creation and deletion of projects, new environments | `AccessRoles` |
| `TokenService` | a machine token's life and the four steps of a pull, beside all of the above | `ProjectService` |
| `TokenServiceProofs` | inductive invariant and proofs for both | `TokenService` |
| `RateLimiter` | the limiter between its locks, its janitor, and time | |
| `RateLimiterProofs` | inductive invariant and proofs | `RateLimiter` |
| `Accounts` | registrations and new workspaces, statement by statement | |
| `AuditListing` | the keyset query, the pages a reader goes through, and the recorders that commit meanwhile | |
| `MaskedSecret` | the component that shows a revealed value | |
| `UpdateForm` | the form that writes a new version, its page's queue of actions, the API's version check | |
| `LineDiff` | the longest-common-subsequence diff, loop turn by loop turn | |
| `VersionDiff` | the comparison of two versions on the history page | `LineDiff` |
| `WebPages` | a browser on one of the pages | the five above and `Accounts` |
| `WebPagesProofs` | inductive invariants and proofs for `Accounts` and for the pages | `WebPages` |
| `MC...` | constants and symmetry for TLC | |

Definitions introduced by a comment `Mutant:` are deliberate bugs: no
specification uses them; each shows, when it is put in the place of the
definition it varies, that some property notices.

### Secret store (`SecretDB`, `SecretService`)

`secrets` and `versions` are what is committed. A transaction keeps its row
locks in `lock`, the images of the rows it wrote in `dirty`, and the versions
it inserted in `pending`; `CommitTx` publishes all of it, `RollbackTx` none.
`BumpSecretVersion` waits for the row lock and evaluates its WHERE clause on
the committed row, as an UPDATE does under READ COMMITTED. The partial unique
index on `(environment_id, key)` makes an INSERT wait for, then fail on, a
duplicate (`IndexSettled`, `IndexEntries`).

`pc[r]` is the next statement of request `r`; `call`, `cur`, `sealed`, `seen`
and `newVersion` are the locals of its method. `Fail(r)` can happen at any
statement: the client goes away, the connection breaks or the process dies, and
the open transaction is rolled back. Encryption is `Encrypt` and `CanDecrypt`:
a value sealed for `(environment, key)` opens only for the same pair. `view` is
what a user was last shown; it supplies the expected version of an edit.

One project is modelled, and roles do not change during a run (changing them is
`Membership`'s subject). UpdateDescription is a statement that locks the row and
waits for it like the others, on a column no property reads; Get, List and
ListVersions only read.

### Promotion

The source and target reads are two steps outside the transaction, as in the
code. `PlanFor` is `toApply`; `NextEntry` is the loop over entries sorted by
key; a nonempty filter is any subset of keys. The masked preview is left out.
`found`, `plan` and `todo` are the locals of the method; `published` is a history
variable, the versions that a step of a promotion made visible to others
(`Publishes`), and the plan of a promotion that published something stays on
record beside it (`ForgetPlan`). `PromoteFail` is the promotion dying at any
statement, or losing the answer to its COMMIT.

### Membership

Every query is a step. `scope` is the role a request was authorised with,
`stale[r]` is a history variable: another request wrote since `r` was
authorised. A refused request changes nothing and is no step.

### Sessions

`cookie` and `access` are the browser's cookies, `token` and `parent` the token
table and which token was exchanged for which. Several page loads may be in
flight with the same cookie. `signedOut` and `lost` are history variables:
`signedOut` is set by a logout unless a request is under way that the logout does
not stop (`Spared`), which is a renewal that had looked its token up before the
logout revoked it, or one with a token the logout did not present.
Token values, hashing and JWTs are abstracted away; LogoutAll and
DeleteExpiredRefreshTokens have no caller.

### Audit recorder

Each request records one event. `stop` remembers how main came to close the
recorder: after an orderly drain, after the shutdown timeout, or because the
listener failed. `Kill` is the process dying. `AuditTrail` is what readers of
the log may rely on: accepted events are written oldest first, at most once, a
run at a time, or given up as a run.

`conns` are the requests that have a connection out of the database pool: during
their handler, after their event is recorded (a registration opens its session
then, `auth.go:144`), and in the goroutine that notes a token's last use and
outlives its handler (`middleware.go:245`). `ClosePool` is the deferred
`pool.Close()` of main (`main.go:67`), which runs when the recorder has stopped,
refuses new connections and waits for those that are out; `Exit` is its return.
A request that waits for a connection because the pool is at its limit has not
taken one yet (`Acquire` has not happened); a flush that waits runs into its
timeout, which is `FlushFails`.

### Key rotation

A row is the data key its ciphertext was sealed with and the wrapped key beside
it. Ids are positions in uuid order, and a new row may take any free one. `dry`
runs write nothing. `planned` says whether the operator stops the API first.

### Projects and machine tokens

An environment is the pair of its project and its name, and is never deleted.
Creating a project is one transaction whose rows are in `pending`; its slug is
checked before it. Deleting a project marks the row. A pull is authentication,
the limiter's decision, the reading of the values, and the note of the last
use, each a step, so that a revocation, an expiry or a deletion can come between
any two. `cut` is a history variable: the token was already out of reach when
the pull came in. The limiter's decision is free here; the audit events, the
digest of a token and the parsing of an allowlist are abstracted away, except
that a revocation remembers which requests reported it (`RevocationReportedOnce`).
Update is its authorisation and its statement; what it writes, the name and the
description, is left out, as List and Get are.

### Rate limiter

Every critical section of `Reserve` and of the janitor is a step; the time a
request read on entry ages with it (`age`). One tick is the time in which a
bucket gains a token, and all times are relative to now. The buckets themselves
are `golang.org/x/time/rate`, modelled from how the limiter uses it (a
reservation, its delay, its cancellation). `ideal` is the history of a bucket
that is charged for every request let through, wherever its charge went;
`disturbed` and `crowded` mark the windows in which the real bucket may differ: a
bucket was reclaimed while a request held it, or a slow request put `lastSeen`
back so far that the bucket may go before it is full (`Stale`); and two
reservations of a key overlapped.
A token's rate is fixed when it is created, so the branch that rebuilds a bucket
at another rate cannot be reached; `Allow` and `Len` have no caller; `Close` ends
the janitor at exit.

### Accounts

`step[c]` is the next statement of request `c`, `args[c]` its arguments and what
it has read. Rows of open transactions are read off `args` (`PendingUsers`,
`PendingSlugs`): an insert of the same email or slug waits for their end, then
fails or goes on, as the unique indexes do. A workspace is its slug and its
owner. `UniqueWorkspaceSlug` is one turn of the loop over candidates; slugs and
emails are values, and what the slug of a name looks like is in the constants
`Candidates`, `Fallback` and `Personal`. `taken` is a history variable: the slugs
in use when a free one was found. `Fail` can come at every statement.

### Audit listing

`created_at` is the time a transaction began (`now()` in PostgreSQL), the same
for every row of a batch, and the id that breaks ties is random. So `Insert`
stamps a batch when its transaction opens and `Commit` publishes it later; one
process commits in order, several do not. `Page` is the query with its one extra
row, `cursor` the last row shown. `present` and `pages` are history: what the
filter matched at the start of the walk, and what each page showed.

### The pages

A browser is on one page at a time (`page`), so `WebPages` runs the masked value
and the edit form together, and each of the other pages by itself.

- `MaskedSecret`: `revealed`, `loading`, `requestRef` and `remaining` are the
  component's state, `inFlight` the requests whose answer may still come, `armed`
  whether React has run the effects of the render that showed the value: the
  interval and the listeners exist only from then on. `Unmount` is a reload of the
  page; the request numbers are not started again so that an answer to the old
  component is told from one to the new.
- `UpdateForm`: `currentVersion` is the prop of the latest render, which is what the
  hidden field holds; `queue` are the submissions of the page, which Next.js runs
  one at a time; `saved` are the versions with the save that wrote them. An answer
  may be lost after the write (`Put(TRUE)`); a page that is reloaded leaves its
  submission behind (`orphans`). `base` and `rerendered` are history.
- `VersionDiff`: `left`, `right`, `values`, `visible` are the component's state,
  `sent` the pair whose two reveals are on their way. Every render redraws the diff
  of what is held for the selected numbers, an unloaded one as the empty text.
- `LineDiff`: the table is a recursive function, the loops one action per turn;
  JavaScript finishes them before anything else happens (`DiffDone` guards the
  other actions of `VersionDiff`).

## 3. Runs

Every run ends within two to three minutes. Between them the passing runs take every
action of every next-state relation.

| Run | Instance | Shows |
|---|---|---|
| `secret_service` | 3 requests, 3 secret ids (1 seeded), 2 keys, 2 values, an editor and a viewer | contiguous and append-only history, unique keys, ciphertexts bound to their secret, no blind overwrite of a checked edit, rollbacks restore what they name, audit events are true |
| `promotion` | 2 requests of any kind, 2 environments, 2 keys, 2 values, 5 secret ids (3 seeded) | the store's invariants with promotions; what others see of a promotion is at every moment nothing or its whole plan, also of one that dies or is turned away half way; it is directional, requests never wait in a circle, and every admitted one is answered |
| `membership` | 3 users, 2 requests in flight | the last owner is lost only by a race or a re-invitation; a role change never revives a removed member; lost ownership is final |
| `membership_race` | 2 users | violation: see below |
| `refresh_session` | 5 tokens, 2 requests in flight, lost replies, failing queries | a browser at rest holds no token or a live one, replay is limited to overlapping requests, a logout holds although older page loads reach the API after it |
| `refresh_twice` | 3 tokens, 2 page loads | violation: see below |
| `audit_recorder` | queue 2, batch 2 | the recorder implements the trail, an exit leaves nothing unflushed and an orderly one loses no event, queued events get flushed, a shutdown ends with the pool closed once the queries in flight have ended |
| `key_rotation` | 3 ids, batch 2, 2 overlapping runs, API running or stopped | data keys survive, a successful run covers all it started with, a planned rotation leaves all readable (that nothing is rotated back is proved, section 5) |
| `key_rotation_running` | 3 ids, 1 run, API running | violation: see below |
| `token_service` | 2 projects, 2 slugs, 2 default environments and another, 1 token of 3 kinds, an owner and a member, 2 requests | a pull that comes in after a revocation, expiry or deletion gets nothing; projects start complete and a slug names one project; of several revocations of a token one is reported |
| `web_pages` | values shown for 2 s, 3 reveals; 4 versions, 2 drafts; 4 texts of up to 3 lines, 3 versions to compare; 2 recorders, 3 rows, pages of 1 and 2; 2 emails, 3 user ids, 2 requests | a draft replaces the version it was made from; a revealed value goes, and is on a left tab only if it was left early; a number stands over its own text and the diff is a shortest one; paging shows what was there once and in order; accounts come whole and are refused with reason |
| `rate_limiter` | 1 key, 2 requests in the limiter, 3 buckets, burst 2, idle after 3 ticks, 2 tokens promised ahead at most | no more is let through than an undisturbed bucket allows, refusals that do not overlap are free, unused buckets go |

### Why the bounds are enough

- Three requests on one secret: a writer, a second writer or deleter that
  commits between the first one's reads and writes, and a reader between them.
  Races of this code involve two writers and one observer. What does not depend
  on the number of requests is proved for any number (section 5).
- Two environments and two keys with five ids let a promotion add one key and
  change another, and let two promotions take their locks in conflict.
- Two membership requests suffice for a stale check; three users leave a third
  one to act on the result.
- Five tokens are a login, two exchanges of the same token, and a renewal of
  each result. When they are used up no further session is issued, so these
  runs may end: deadlock is not checked there. The same holds for membership
  (a workspace without admins takes no request) and rotation (ids run out).
- Queue and batch of two meet a full queue, a full batch, a partial batch and an
  event left in the channel when it is closed.
- One token against two projects is enough for a token that could point into the
  wrong one; two requests are a pull and what cuts it off, or two creations.
- Three buckets are the one in the map and one orphan per request, so an address
  is always free. Burst 2 and idle time 3 keep the relation of the defaults
  (10 tokens refill well within 10 minutes) with one tick to spare, so a request
  can be slow enough to matter. That a slow request shortens the life of a bucket
  somebody else has just used takes three requests and an idle time of twice the
  burst, too many states to explore; the proof of `LimitsHold` covers it. `MaxDebt` bounds what refusals
  that overlap can leave promised: a reservation that would promise a third token
  ahead is not explored before a tick.
- Batch two of three rows needs a second batch, with rows on both sides of the
  cursor.
- Three rows of the audit log make two pages of one, or one of two and a rest,
  and a batch of two across a page boundary; two recorders are needed for a
  transaction that commits after a later one. Limit 0 is the default limit, and a
  clock of two ticks tells older from newer; ties come from batches.
- Two drafts of four versions: a draft saved twice after a lost answer, with
  somebody else's version in between. Three reveals: one shown, one abandoned, one
  whose answer comes late.
- The texts have a line twice and pairs of common lines that cross, where a greedy
  diff is not a shortest one.
- Of three user ids two begin with the same eight digits, and a workspace's name
  gives the slug those two ids give, so that registrations and creations meet.

Type invariants are in no run: each variable's type is stated once per module (a
`...TypeOK` or `TypeOK`) and proved. The exception is the type of `log` in
`AuditRecorder`, which rests on what `SelectSeq` returns (section 5); `HeldTypeOK` is
what is proved of the other variables.

### Fairness

- `promotion`: weak fairness of each admitted request's next statement.
  The goroutine is scheduled and PostgreSQL answers or fails; a wait ends
  because the lock's holder is fair too. Strong fairness is not needed: in this
  instance a request that waits for a lock cannot lose it for ever to others,
  since each request is served once.
- `audit_recorder`: weak fairness of the goroutine's receive, its ticker and
  its flush (which has a timeout of 10 s, `audit.go:180`), of Shutdown's return (it
  has a deadline), of `pool.Close` being called and returning, and of each
  connection's release. The last one says that a query or transaction in flight
  ends: the touch of a token has a timeout of 5 s, waits for row locks end
  (`EveryRequestAnswered`), and a request whose client leaves is cancelled. It is
  an assumption about PostgreSQL all the same: no statement timeout is set
  (`internal/db/pool.go`), so a database that never answers would hold up
  `pool.Close`, and with it the exit, for ever. Nothing makes requests arrive,
  handlers return or record, a signal come, or a batch commit rather than fail.
- `rate_limiter`: weak fairness of time and of the janitor, whose ticker keeps
  firing. Nothing makes requests come or leave.
- `web_pages`: weak fairness of React's effects and of the interval: the browser
  runs both, in a background tab too, if later. Nothing makes users act, answers
  come or other people write.

### Disagreements between code and its own words

1. `membership_race`: two owners demoted or removed at the same time; both
   requests count two owners (`workspace.go:236`, `:308`).
2. `refresh_twice`: two requests that present the same refresh token both get a
   session, since the lookup is outside the transaction and the row count of
   the revocation is not looked at (`auth.go:207`, `:238` against `:202`).
3. `key_rotation_running`: in TLC's trace the run has listed row 2 and moved its
   cursor there; the API then stores row 1, behind the cursor; the next query of
   the run finds nothing more, so the run ends with success although row 1 is under
   the old key (`cmd/rotate-key/main.go:124`). "Re-encrypts every stored data key"
   (`cmd/rotate-key/main.go:1`) fails of a row that is stored when that query runs,
   whether it was written afresh or copied by a rollback (`RotatesEveryStoredKey`).
   With the API stopped first, `PlannedRestartReadsAll` holds.

Met while modelling, without a run of their own:

- AddMember upserts without `ensureNotLastOwner`; inviting the only owner as a
  viewer leaves none (`workspace.go:183` against `:313`).
  `OnlyRaceOrReinviteOrphans` shows that this and the race are the only ways.
- The 401 of the slower of two page loads deletes the cookie the faster one just
  renewed (`frontend/src/middleware.ts:50`), and the refresh handler clears
  cookies on a database error too (`auth_handler.go:115`).
- A renewal that looked its token up before a logout revoked it signs the browser
  in again when its reply comes last (`auth.go:207`, `auth_handler.go:132`):
  `LogoutSticks` excepts it. Page loads that come to the API after the revocation
  do not undo a logout, which the property does promise.
- A promotion whose plan is stale may write a version equal to the current one
  (`promotion.go:109`), or overwrite a value that was set in the target after the
  plan was made; the bump is unchecked. `PromotionAllOrNothing` says that what was
  planned is applied as a whole or not at all, not that it is still up to date.
- A shutdown whose drain timed out goes on to `pool.Close()` (`main.go:67`), which
  nothing bounds: the exit waits for the queries of the handlers that the drain
  gave up on. `ShutdownEnds` therefore assumes that they end.
- "Always audited" (`secret.go:72`) is up to a full queue.
- Refusals that overlap can lose a token, although the reservation is cancelled
  to "give the token back" (`limiter.go:116`): a cancellation restores nothing
  that a later reservation counts on. `RefusalIsFree` excepts them by `crowded`.
- Reserve reads the time before it waits for the lock and writes it to `lastSeen`
  afterwards (`limiter.go:140`, `:148`), so a slow request sets a bucket's last use
  back behind a faster one's. The janitor then reclaims a bucket that is not yet
  full, and its key starts again with a full burst. The first attempt to prove
  `RateHolds` ended in this case, which the instance of the run is too small to
  show; `disturbed` now covers it.
- The slug check looks at live projects, the unique constraint at all of them:
  the slug of a deleted project passes the check and then conflicts
  (`project.go:114`, `000001_init.up.sql:81`).
- A revocation that dies between its statement and the recording is never
  recorded: the retry finds the token revoked and succeeds without an event
  (`token.go:202`). Two concurrent deletions of a project both record one, and
  UpdateDescription and the update of a project record none.
- "No row is ever seen twice or missed" (`internal/db/sqlcgen/audit.sql.go:139`) holds
  for one API process. With several, a transaction that began earlier and commits
  later puts a row behind a cursor that has passed it; `OnlyOverlapMisses` shows
  that this is the only way. Rows of one batch have one `created_at` and are
  ordered by a random id.
- A batch whose COMMIT succeeded and whose answer was lost is logged as failed
  though it was written (`audit.go`, flush).
- "The only unique constraint a registration can hit is the email" (`auth.go:127`):
  two user ids that begin with the same eight digits, or a workspace called "WS ..."
  by somebody else, give the slug of the personal workspace, and the registration is
  told that the email is taken. The refusal of Create is likewise a conflict about a
  slug nobody chose. `RefusalsAreDue` says what such an answer can mean at most.
- A registration whose session cannot be made answers an error though the account
  exists (`auth.go:144`); its retry is told that the email is registered.
- The edit form is said to detect concurrent edits by "the version this form was
  built from" (`frontend/src/components/SecretForms.tsx:129`). The field is the
  prop of the latest render: any other action of the page that succeeds renders it
  anew, and the open form then overwrites a version its author has not seen, or
  saves the same draft twice after a lost answer. `DraftReplacesItsBase` is therefore
  about forms whose page was not rendered meanwhile. The message of a past success
  is also still there when the form is opened again.
- A value whose answer arrives after the user has left the tab is shown there until
  the countdown ends, since the listeners come with the value
  (`frontend/src/components/MaskedSecret.tsx:69`); `AwayOnlyIfLeftEarly` bounds it.
- After the selects change, the comparison draws a version it does not hold as
  empty: half a comparison, or "identical" for two that were not loaded
  (`frontend/src/components/VersionDiff.tsx:90`).
- The promotion panel applies whatever pair is selected, which after a change of a
  select is not the pair that was previewed (`frontend/src/components`,
  PromotionPanel; not modelled, since the API's plan is made anew either way).

## 4. The properties that carry most

- `VersionsContiguous`: history is `1..current_version`, each once. Breaking it
  takes two writers, or one that dies in the middle.
- `EveryVersionDecrypts`: relates rows written by Create, Update, Rollback and
  Promote to the identity used on reading.
- `NoBlindOverwrite`: the value an edit replaces is the one its author saw. It
  holds because Reveal reads the version number before the value; the mutant
  that reads it after breaks it.
- `PromotionAllOrNothing`: what others can read of a promotion is nothing or the
  whole plan, in every state, so that a promotion that commits entry by entry and
  dies or meets a conflict between two of them breaks it; the mutant does that.
- `NoWaitCycle`: rests on the sorted order of keys.
- `LogoutSticks`: a logout and page loads under way with its token or the one
  before, in any order; the mutant that forgets to revoke the token breaks it.
- `ShutdownEnds`: the recorder, the pool and the connections of handlers that go
  on; the mutant that leaks the connection of a failed handler breaks it.
- `ImplementsTrail`: refinement of `AuditTrail` under `inbox <- batch \o queue`.
- `CutOffHolds`: reading an environment looks at neither the token nor the project,
  so everything rests on the lookup's join and on a token's environment being the
  project's own; the mutant that accepts another project's environment breaks it.
- `RateHolds`: relates the buckets a key has had, orphans included, to one that
  was never reclaimed.
- `RunCoversItsStart`: keyset pagination under concurrent inserts.
- `PagingIsExact` and `OnlyOverlapMisses`: the same for the audit log, where the
  order of the keys is not that of the commits; a page boundary inside a batch is
  what the mutant without the id in the comparison gets wrong.
- `DraftReplacesItsBase`: relates a version to what its author saw, through a form
  that is submitted again after lost answers.
- `DiffIsShortest`: the loops against the definition of a longest common
  subsequence.
- `AccountHasHome`: three tables, written by requests that may die at any statement.

## 5. Proofs

Eight modules hold proofs, checked by TLAPS. Each theorem is for all values of
the constants that meet the named assumptions: any number of requests, recorders,
users, rows or keys. Only one set is taken to be finite, the page loads a browser
has in flight (`Load`).

Every safety invariant and every action property of the passing runs is stated by
a theorem, and so is the refinement; what is left to TLC alone is at the end of
this section.

| Module | Theorem | States |
|---|---|---|
| `SecretServiceProofs` | `TypeCorrect` | `Spec => []TypeOK` |
| | `HistoryIsContiguous` | `Spec => []VersionsContiguous` |
| | `StoredVersionsDecrypt` | `Spec => []EveryVersionDecrypts` |
| | `KeysAreUnique` | `Spec => []OneLiveSecretPerKey` |
| | `HistoryOnlyGrows` | `Spec => HistoryAppendOnly` |
| | `EditsAreNotBlind` | `Spec => []NoBlindOverwrite` |
| | `RollbacksRestore` | `Spec => []RollbackRestores` |
| | `AuditIsTruthful` | `Spec => []AuditTruthful` |
| | `PromotionTypeCorrect` | `PromotionSpec => []PromotionTypeOK` |
| | `StoreKeepsItsPromises` | `PromotionSpec => []StoreInvariants` |
| | `PromotionIsWhole` | `PromotionSpec => []PromotionAllOrNothing` |
| | `PromotionsCopyTheSource` | `PromotionSpec => []PromotedFromSource` |
| | `NobodyWaitsInACircle` | `PromotionSpec => []NoWaitCycle` |
| | `PromotionsOnlyAppend` | `PromotionSpec => HistoryAppendOnly` |
| | `EditsAreNotBlindToPromotions` | `PromotionSpec => []NoBlindOverwrite` |
| | `RollbacksRestoreAmongPromotions` | `PromotionSpec => []RollbackRestores` |
| | `AuditIsTruthfulOfPromotions` | `PromotionSpec => []AuditTruthful` |
| `MembershipProofs` | `MembershipTypeCorrect` | `Spec => []TypeOK` |
| | `LastOwnerIsProtected` | `Spec => OnlyRaceOrReinviteOrphans` |
| | `RemovedStayRemoved` | `Spec => NoResurrection` |
| | `OwnershipStaysLost` | `Spec => LostOwnershipIsFinal` |
| `RefreshSessionProofs` | `SessionTypeCorrect` | `Spec => []TypeOK` |
| | `QuietBrowsersWork` | `Spec => []QuietBrowserHoldsLiveToken` |
| | `ReplaysAreBounded` | `Spec => []ReplayWindowCloses` |
| | `LogoutsStick` | `Spec => []LogoutSticks` |
| `AuditRecorderProofs` | `OrderlyStopFlushes` | `Spec => []StopFlushes` |
| | `RecorderImplementsTrail` | `Spec => ImplementsTrail` |
| `KeyRotationProofs` | `RotationTypeCorrect` | `Spec => []TypeOK` |
| | `DataKeysSurvive` | `Spec => []DataKeyPreserved` |
| | `SuccessCoversTheStart` | `Spec => []RunCoversItsStart` |
| | `PlannedRestartIsSafe` | `Spec => []PlannedRestartReadsAll` |
| | `RotatedStaysRotated` | `Spec => NeverUnrotated` |
| `TokenServiceProofs` | `TokenServiceTypeCorrect` | `Spec => []TypeOK` |
| | `ProjectsAppearWhole` | `Spec => []ProjectsAreWhole` |
| | `CutOffIsFinal` | `Spec => []CutOffHolds` |
| | `OneEventPerRevocation` | `Spec => []RevocationReportedOnce` |
| `RateLimiterProofs` | `LimiterTypeCorrect` | `Spec => []TypeOK` |
| | `LimitsHold` | `Spec => []RateHolds` |
| | `RefusalsCostNothing` | `Spec => []RefusalIsFree` |
| `WebPagesProofs` | `AccountsTypeCorrect` | `AccountsSpec => []AccountsTypeOK` |
| | `AccountsHaveHomes` | `AccountsSpec => []AccountHasHome` |
| | `RefusalsHaveReasons` | `AccountsSpec => []RefusalsAreDue` |
| | `NamesAreUnique` | `AccountsSpec => []EmailsAndSlugsAreUnique` |
| | `PagesRunAccounts` | `WebSpec => AccountsSpec` |
| | `PagesTypeCorrect` | `WebSpec => [](MaskTypeOK /\ FormTypeOK /\ CompareTypeOK /\ ListingTypeOK)` |
| | `AbandonedTabsShowNothing` | `WebSpec => []AwayOnlyIfLeftEarly` |
| | `EditsReplaceWhatWasSeen` | `WebSpec => []DraftReplacesItsBase` |
| | `WalksAreExact` | `WebSpec => []PagingIsExact` |
| | `OnlyOverlappingProcessesHideRows` | `WebSpec => []OnlyOverlapMisses` |
| | `NumbersStandOverTheirTexts` | `WebSpec => []NumberStandsOverItsText` |
| | `DiffsAreShortest` | `WebSpec => []DiffIsShortest` |

Every module argues the same way: an inductive invariant (`IInv`, or one per page)
that says what each request, run or component still knows at each of its steps;
one lemma per action that the invariant survives it; one lemma that a step of one
actor leaves what the others know true.

### `SecretServiceProofs`: the methods

Assumptions: `None` is none of the values it is compared with, every user has a
role, the seeded ids are ids (`SecretDBAssumption`, `SecretServiceAssumption`,
`SeededAssumption`).

None of the promises is inductive: that a commit keeps history
contiguous depends on what its transaction locked, wrote and computed before.
`IInv` therefore adds:

- `CallOK(r)`: which locals are set at each statement, and that a ciphertext
  about to be stored is sealed for the identity in `call[r]`;
- `Bound(r)`: the secret a method read exists and still has that identity;
- `TxOK(r)`: before its first write a transaction holds nothing; afterwards it
  has exactly one locked row, whose image is live and carries the identity, is
  one version ahead of the committed row once bumped, and has in `pending` the
  one version with that number (`HasRow`);
- `LockOK` and `Uniq`: images exist only for locked rows, and no two rows,
  committed or not, are in the unique index under one key.

`OthersKeepTheirState` is the interleaving argument, stated once: a step of one
request leaves the others' locals alone (`Frame`), and everything they have
locked and the identity of every row (`Respects`). Each action then has a lemma
that checks its own request (`Local`, `StepOK`) and the tables; `InitEstablishes`
and `NextPreserves` close the induction. What an insert, a bump and a commit do to
the tables is stated for any transaction (`CreateSecretTables`, `BumpTables`,
`CommitTables`, `TablesStay`), so that promotions can use it too. `HistoryOnlyGrows`
follows from `IInv`: only Commit and DeleteRow change committed rows
(`OnlyTwoStatementsStore`).

What the last three theorems say is about the meaning of values, and rests on a
second invariant, `KInv`, proved relative to `IInv`. `Knows(r)` is what a request
knows of the tables at each statement: its statements belong to its method
(`OnItsPath`), the value a checked edit is based on belongs to a version no older
than the one it expects (`BasisOK`), a rollback is about to write what its target
holds (`CopyOK`), what it inserted is what its locals say (`InsertOK`), the value
Reveal reads is no older than the row it read before (`ReadOK`), and what it is
about to record has happened (`DoneOK`). All of these are stable because history
only grows (`KnowledgeLasts`). `RecordsOK` (`ViewsOK`, `EventOK`, `RollbackRestores`)
says the same of what users were shown, of the events written and of the versions
rollbacks wrote. `NoBlindOverwrite` then follows where the
two meet: the version a bump matched under the row lock is the latest one, so the
value the author saw, which was no older, is that version's.

### `SecretServiceProofs`: promotions beside the methods

Assumption, in addition: environments and keys are ordered, and no two keys have
the same place (`PromotionAssumption`), which is what sorting the plan relies on.

A promotion's transaction holds many rows, so `TxOK` cannot be said of it. `PInv`
says of each request either `RequestOK`, as above, or `PromoteOK`:

- `FoundOK`: the values it read are in the source's history, one for each key,
  because the source has one live secret for a key and one current version of it
  (`OneValuePerKey`);
- `EntriesOK`: what is still to be applied is part of that, and an entry for a secret
  names one of the target with that key (`PlanIsGood`);
- `Between`, `Within`: what it read is stored, in `pending`, in hand or still planned;
  every locked row is finished (`Finished`) except the one in hand; and locked rows
  have keys before the key in hand, which comes before the planned ones.

That others see nothing of a promotion or all of it is a third invariant, `WInv`,
relative to `PInv`. `PlanOK(r)`: while a promotion applies its plan, what it has
inserted (`Inserted`), what is left (`Left`) and what is in hand (`InHand`) make
up the plan, and nothing is published; at the commit all of the plan is inserted;
whoever has published anything has published its plan and is past the commit.
`PlansStayTheirOwn` is the interleaving argument, `CommitPublishesThePlan` the
one step that publishes. That a committed promotion's source values are in the
target's history follows from `PInv`, since nothing is planned or in hand then.
`PInv` needs the types of a promotion's locals only (`PTypeOK`); those of `plan`
and `published` are in `WInv`.

`PromotedFromSource` is inductive beside `PInv`, since histories only grow.

`NoWaitCycle`: who waits has locked nothing, or is a promotion whose locked rows have
keys before the one it waits for (`WaitingKnows`). In a circle of waiting requests
whoever is waited for holds a row, so all of them would be promotions, and the one
with the highest key in hand would wait for a row of one with a higher key in hand.
That there is a highest one (`HighestRank`) needs finitely many: there may be
infinitely many requests, but those served so far are finitely many in every state
(`Served`, in `PInv`).

The other promises of the methods carry over to `PromotionSpec`. A promotion changes
none of a method's locals and adds only versions with a promotion's comment
(`PromotionsKeepToThemselves`), and its steps append (`PromotionStepsAppend`); `PKInv`
keeps `Knows` for the methods and `RecordsOK`. So `NoBlindOverwrite`,
`RollbackRestores`, `AuditTruthful` and `HistoryAppendOnly` hold beside promotions,
which the runs check of the methods alone.

### `MembershipProofs`

Assumption (`MembershipAssumption`): `None` is neither a role nor a call.

`IInv` adds to the types `Granted(r)`, that a request that can make an owner was
sent by one, and `Counted(r)`, that a request about to take an owner's role away
has counted a second owner unless somebody wrote since. `AnotherOwner` is the fact
about cardinalities that makes the check do what it is for.

### `RefreshSessionProofs`

Assumption (`RefreshSessionAssumption`): `None` is neither a token nor a request,
and `Load` is finite.

- `RequestOK(l)`: a token in a reply is live, is in no other reply, and nobody has
  presented it.
- `CookieOK`, `RenewalComes`: a cookie that no longer works is about to be
  replaced by a reply under way, as long as none was lost.
- `SignedOutOK`: after such a logout there is no cookie, and every request in
  flight is `Harmless`: refused already, or about to present a token that is
  `Dead`. That what a logout spares is harmless (`SparedAreHarmless`) takes
  `LogoutOK`, that a served logout's token is dead, and `WindowOK`, that a token
  that was exchanged is.
- `WindowOK(t)`: the loads that can still exchange `t` and the exchanges of it
  already made are together no more than the loads there can be at a time, because
  an exchange uses one of them up and no load joins them once `t` has been
  exchanged. The count needs the finite set.

### `AuditRecorderProofs`

Assumption (`AuditRecorderAssumption`): queue and batch have room for an event.

`StopFlushes` is about the last state of a shutdown, so `IInv` says what each phase
has settled: what the batch can be while the writer selects, flushes, flushes last
or is gone (`WriterOK`), what main knows of handlers and queue when it drains,
closes, closes the pool and exits (`MainOK`), and that the counter of dropped events keeps up
(`DroppedOK`). `RecorderImplementsTrail` shows, action by action, that a step is a
step of `AuditTrail` or a stutter under `inbox <- batch \o queue`: receiving an
event moves it inside the inbox, a flush takes the batch off its front.

### `KeyRotationProofs`

Assumption (`KeyRotationAssumption`): a batch holds at least one row, and `None` is
not a row. The rows are numbered `1..N`, for any `N`.

`Covered(x)` is the loop invariant of a run: whatever was there when it began and
lies up to its cursor is on the next key. `UpdatesOK(x)` says that what a run is
about to write belongs to the rows it will write to, `CopyOK` the same for the
API's copies, and `PlanOK` what each phase of a planned rotation has settled.
`RowsKept` is the interleaving argument: nobody, another run or the API, takes a
row off the next key or changes a data key. `BatchTakes` is the fact about the
keyset query: a batch has all rows up to its last one, and is empty only when none
is left. It needs a least and a greatest element of a set of ids (`Smallest`,
`Largest`), for which the well-foundedness of the naturals stands in for the
induction theorems.

### `TokenServiceProofs`

Assumptions: new projects have an environment, every user a role, every kind of
token a scope, and `None` is none of the rows (`ProjectServiceAssumption`,
`TokenServiceAssumption`).

- `CallTyped`, `PendingTyped`, `RequestOK(r)`: the arguments a request has, and what
  it still knows, at each statement. `RequestOK` stays true because the tables only
  grow (`Grows`): rows are not deleted, and a deletion, a revocation and an expiry
  are final.
- `TokenOK(t)`: a token's environment is one of its project's, which is why the
  join at authentication settles what the reading of the values does not look at.
- `Uniq`: rows of open transactions collide with nothing, so a commit keeps slugs
  unique.
- `Reports(t)`: one request at most has revoked `t`, is about to report it or has
  reported it.

### `RateLimiterProofs`

Assumption (`RateLimiterAssumption`): a bucket has room for a token, and the idle
time is enough to fill it, as with the limiter's defaults.

The promise compares a real bucket, which is created, shared, put back and
reclaimed, with one that is none of this. `IInv` adds:

- `HeldOK`: a bucket in the map is held for its own key, and the requests of an
  undisturbed key hold the bucket that is in the map;
- `WaitOK`: open reservations of one bucket are for different promised tokens, so a
  tick serves one of them at most (`OneComesDue`), and each of them is a token the
  bucket owes;
- `AheadOK(k)`, for undisturbed keys: the ideal bucket has at least what the real
  one has, is full when there is none, and will be full by the time an unused one
  can be reclaimed, which is what its `lastSeen` tells;
- `EvenOK(k)`, for keys whose reservations did not overlap either: the two are
  equal but for the one token that an undecided request is promised.

### `WebPagesProofs`: accounts

Assumption (`AccountsAssumption`): every name has at least one candidate slug and
a set of drawn ones, every user id a personal one; two ids may have the same one,
and "" is no user's id.

`AccountsInv` adds to the promises `RequestOK(c)`, the arguments a request has at
each of its statements (a creation about to insert has a drawn slug or one that
was not taken when it looked), and `AccountsUniq`: rows of different transactions,
committed or not, share no id, email or slug. That is why the inserts that
waited and then went on keep emails and slugs unique at commit. `TablesGrow` says
that tables only grow, which keeps the reason of an earlier refusal true.

### `WebPagesProofs`: the pages

Assumptions: the bounds are numbers that let something happen
(`MaskedSecretAssumption`, `UpdateFormAssumption`, `AuditListingAssumption`), row
ids are integers, and the text of an unloaded version is a text.

`PageSteps` says that a step of the browser is, for the variables of each page's
component, a step of that component or a stutter; every page then has an invariant
of its own, and what is proved of `AccountsSpec` holds of the whole
(`PagesRunAccounts`).

- `MaskInv`: a request number in flight is not ahead of `requestRef`, and what is
  visible or can become so, through an answer that still counts, is on a
  tab that was not left, or was left early.
- `FormInv`: `Origin`, that all submissions of one draft carry the version it was
  made from, and only a render can make the expected version differ from it; and
  `InOrder`, that of one draft those sent after a render are saved after those sent
  before, because the queue keeps order and a reload leaves only one submission
  behind. Without `InOrder` a late submission could spoil a saved draft's reason.
- `ListingInv`: `WalkState`, the loop invariant of the walk: all that was shown is
  down to the cursor, and all that was there at the start is shown or below it.
  `PageTakes` is the one fact about the query with its extra row: it takes
  everything below the cursor, or a part that lies above the rest.
- `MissInv` adds `Stamps`: a process commits its batches in the order of their
  times, so a row that slips behind the cursor is another process's.
- `CompareInv`: the versions selected, asked for and held exist. Numbers of new
  versions are added at the end, so a text fetched once stays the text of its
  number.
- `DiffInv` is the loop invariant of the diff: the entries reconstruct what the loops
  have consumed, and the lines kept so far together with the table's entry at
  `<<i, j>>` are the table's entry at `<<1, 1>>`. That the table has the entries its
  recursion says (`TableExists`, `TableIsRight`), and that each is as large as any set
  of common lines from its cell on (`TableBounds`), goes by induction on the turns
  that are left, with a set in the place of the statement (`CountingUp`,
  `DownTheTable`).

### Only model-checked

- Liveness under fairness (`EveryRequestAnswered`, `EventsAreFlushed`,
  `ShutdownEnds`, `RevealEnds` and the limiter's): beyond the prover.
- The type of the recorder's `log`: the prover knows `SelectSeq`, which leaves out
  events that cannot be encoded, by its name only.

## 6. Not modelled, and the plan

Out of scope:

- Argon2, JWT signatures, token digests and AES-GCM itself: sequential
  cryptography, nothing a model tells apart.
- Configuration, connection pool, migrations, router: wiring, without state after
  the start. Rendering and the API client: no state.
- Forms that only post and show the answer (invitations, projects, tokens), and the
  promotion panel: the server decides again what they ask for, which is modelled in
  `Membership`, `ProjectService`, `TokenService` and `Promotion`.
- Reads that return what is there (Get, List, ListVersions, ListMembers, Actions).
- `LogoutAll`, `DeleteExpiredRefreshTokens` and `Allow`: nothing calls them.

Order of work:

1. Done: the modules of section 2 and the proofs of section 5.
2. Left: an abstract store in which every method and every promotion is one step,
   with the proof that `PromotionSpec` implements it. It would say as one refinement
   what the theorems on `PromotionSpec` say one by one.
