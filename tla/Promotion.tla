------------------------------ MODULE Promotion ------------------------------
(***************************************************************************)
(* PromotionService.Promote (internal/service/promotion.go) running beside *)
(* the methods of SecretService on the same tables.                        *)
(*                                                                         *)
(* A promotion reads the source environment, then the target environment,  *)
(* each with one query and neither in the transaction; it plans from what  *)
(* it read, encrypts for the target, and applies the plan in one           *)
(* transaction, key by key in sorted order.                                *)
(***************************************************************************)
EXTENDS SecretService

CONSTANTS
    EnvRank,    \* environments.rank
    KeyRank     \* position of a key in string order

VARIABLES
    found,      \* the source values a promotion read
    plan,       \* the entries it planned to apply
    todo,       \* those of them that are still to be applied
    published   \* history: the versions a promotion made visible to others

promotionVars == <<found, plan, todo>>
allVars == <<vars, promotionVars, published>>

Resolved == [key : Key, value : Value]
Entry == [key : Key, value : Value, secret : Secret \cup {None}]

ASSUME PromotionAssumption ==
    /\ EnvRank \in [Env -> Nat]
    /\ KeyRank \in [Key -> Nat]
    /\ \A k, l \in Key : KeyRank[k] = KeyRank[l] => k = l

PromotionTypeOK ==
    /\ TypeOK
    /\ found \in [Request -> SUBSET Resolved]
    /\ plan \in [Request -> SUBSET Entry]
    /\ todo \in [Request -> SUBSET Entry]
    /\ published \in [Request -> SUBSET VersionRow]

PromotionInit ==
    /\ Init
    /\ found = [r \in Request |-> {}]
    /\ plan = [r \in Request |-> {}]
    /\ todo = [r \in Request |-> {}]
    /\ published = [r \in Request |-> {}]

InPromotion(r) == call[r] # None /\ call[r].op = "promote"

\* What a step of r makes visible is its promotion's.
Publishes(r) ==
    published' = [published EXCEPT ![r] =
                    IF InPromotion(r) THEN @ \cup (versions' \ versions) ELSE @]

-----------------------------------------------------------------------------
(* Planning *)

\* The locals go out of scope; what was planned stays on record beside what of
\* it was published.
ForgetPlan(r) ==
    /\ found' = [found EXCEPT ![r] = {}]
    /\ plan' = [plan EXCEPT ![r] = IF published[r] = {} THEN {} ELSE @]
    /\ todo' = [todo EXCEPT ![r] = {}]

\* resolveEnvironmentValues: one bad row fails the whole environment.
Resolvable(e) ==
    \A v \in ListCurrentSecretValues(e) :
        CanDecrypt(v.sealed, SecretAAD(e, secrets[v.secret].key))

\* Mutant: the direction of the promotion path is not enforced.
PromoteStartAnyDirection(r, u, source, target) ==
    /\ pc[r] = "new"
    /\ RequireRole(u, "member")
    /\ source # target
    /\ call' = [call EXCEPT ![r] =
                  [Args("promote", u, target, None) EXCEPT !.source = source]]
    /\ Goto(r, "readSource")
    /\ UNCHANGED <<dbVars, cur, sealed, seen, newVersion, outcome, view, audited>>
    /\ UNCHANGED promotionVars

\* RequireProjectRole, both environments, and the direction of the path.
PromoteStart(r, u, source, target) ==
    /\ pc[r] = "new"
    /\ \/ ~RequireRole(u, "member") /\ Refuse(r, "forbidden")
       \/ /\ RequireRole(u, "member")
          /\ source = target \/ EnvRank[target] <= EnvRank[source]
          /\ Refuse(r, "validation")
       \/ /\ RequireRole(u, "member")
          /\ source # target /\ EnvRank[target] > EnvRank[source]
          /\ call' = [call EXCEPT ![r] =
                        [Args("promote", u, target, None) EXCEPT !.source = source]]
          /\ Goto(r, "readSource")
          /\ UNCHANGED <<dbVars, cur, sealed, seen, newVersion, outcome, view, audited>>
    /\ UNCHANGED promotionVars

\* keySet: an empty filter promotes every key.
Wanted(filter, k) == filter = {} \/ k \in filter

PromoteReadSource(r, filter) ==
    /\ pc[r] = "readSource"
    /\ IF Resolvable(call[r].source)
       THEN /\ found' = [found EXCEPT ![r] =
                 {x \in {[key |-> secrets[v.secret].key, value |-> v.sealed.value] :
                           v \in ListCurrentSecretValues(call[r].source)} :
                    Wanted(filter, x.key)}]
            /\ Goto(r, "readTarget")
            /\ UNCHANGED <<dbVars, call, cur, sealed, seen, newVersion, outcome,
                           view, audited, plan, todo>>
       ELSE Refuse(r, "error") /\ ForgetPlan(r)

\* The target secret a source key is matched with, by what is committed now.
Existing(e, k) ==
    {v \in ListCurrentSecretValues(e) : secrets[v.secret].key = k}

Added(e, x) == Existing(e, x.key) = {}
Changed(e, x) == \E v \in Existing(e, x.key) : v.sealed.value # x.value

\* toApply: the entries that change something.
PlanFor(e, resolved) ==
    {[key |-> x.key, value |-> x.value, secret |-> None] :
        x \in {y \in resolved : Added(e, y)}}
    \cup UNION {{[key |-> x.key, value |-> x.value, secret |-> v.secret] :
                   v \in Existing(e, x.key)} :
                   x \in {y \in resolved : Changed(e, y)}}

\* Mutant: map order instead of key order.
AnyNext(entry, entries) == entry \in entries

\* The loop of the transaction visits entries in the order of their keys.
IsNext(entry, entries) ==
    \A other \in entries : KeyRank[entry.key] <= KeyRank[other.key]

\* Mutant: the value is sealed for the environment it was read from.
NextEntryCopied(r, entries) ==
    \/ /\ entries = {}
       /\ Goto(r, "commit")
       /\ UNCHANGED <<call, cur, sealed>>
       /\ todo' = [todo EXCEPT ![r] = {}]
    \/ \E entry \in entries :
       /\ IsNext(entry, entries)
       /\ cur' = [cur EXCEPT ![r] = entry.secret]
       /\ call' = [call EXCEPT ![r].key = entry.key]
       /\ sealed' = [sealed EXCEPT ![r] =
                       Encrypt(entry.value, SecretAAD(call[r].source, entry.key))]
       /\ todo' = [todo EXCEPT ![r] = entries \ {entry}]
       /\ Goto(r, IF entry.secret = None THEN "insertSecret" ELSE "bump")

\* Load the next entry of the plan, sealed for the target, or leave the loop.
NextEntry(r, entries) ==
    \/ /\ entries = {}
       /\ Goto(r, "commit")
       /\ UNCHANGED <<call, cur, sealed>>
       /\ todo' = [todo EXCEPT ![r] = {}]
    \/ \E entry \in entries :
       /\ IsNext(entry, entries)
       /\ cur' = [cur EXCEPT ![r] = entry.secret]
       /\ call' = [call EXCEPT ![r].key = entry.key]
       /\ sealed' = [sealed EXCEPT ![r] =
                       Encrypt(entry.value, SecretAAD(call[r].env, entry.key))]
       /\ todo' = [todo EXCEPT ![r] = entries \ {entry}]
       /\ Goto(r, IF entry.secret = None THEN "insertSecret" ELSE "bump")

PromoteReadTarget(r, dryRun) ==
    /\ pc[r] = "readTarget"
    /\ IF ~Resolvable(call[r].env) \/ dryRun
       THEN /\ Refuse(r, IF Resolvable(call[r].env) THEN "ok" ELSE "error")
            /\ ForgetPlan(r)
       ELSE /\ plan' = [plan EXCEPT ![r] = PlanFor(call[r].env, found[r])]
            /\ NextEntry(r, PlanFor(call[r].env, found[r]))
            /\ UNCHANGED <<dbVars, seen, newVersion, outcome, view, audited, found>>

-----------------------------------------------------------------------------
(* Applying the plan *)

\* An added key: CreateSecret, then the same two statements as a changed one.
PromoteInsertSecret(r) ==
    /\ pc[r] = "insertSecret" /\ call[r].op = "promote"
    /\ InsertSecret(r)
    /\ IF pc'[r] = "done" THEN ForgetPlan(r) ELSE UNCHANGED promotionVars

PromoteBump(r) ==
    /\ call[r] # None /\ call[r].op = "promote"
    /\ Bump(r)
    /\ IF pc'[r] = "done" THEN ForgetPlan(r) ELSE UNCHANGED promotionVars

\* Mutant: every entry is applied in a transaction of its own.
PromoteInsertVersionEach(r) ==
    /\ pc[r] = "insertVersion" /\ call[r].op = "promote"
    /\ VersionSettled(r)
    /\ IF VersionDuplicate(r)
       THEN AbortTx(r, "conflict") /\ ForgetPlan(r)
       ELSE /\ secrets' = [s \in Secret |-> IF lock[s] = r THEN dirty[s] ELSE secrets[s]]
            /\ versions' = versions \cup {NewRow(r)}
            /\ lock' = ReleasedLocks(r)
            /\ dirty' = ReleasedImages(r)
            /\ NextEntry(r, todo[r])
            /\ UNCHANGED <<pending, seen, newVersion, outcome, view, audited, found, plan>>

PromoteInsertVersion(r) ==
    /\ pc[r] = "insertVersion" /\ call[r].op = "promote"
    /\ VersionSettled(r)
    /\ IF VersionDuplicate(r)
       THEN AbortTx(r, "conflict") /\ ForgetPlan(r)
       ELSE /\ CreateSecretVersion(r, NewRow(r))
            /\ NextEntry(r, todo[r])
            /\ UNCHANGED <<seen, newVersion, outcome, view, audited, found, plan>>

\* One event for the whole promotion, even when nothing was applied.
PromoteRecord(r) ==
    /\ pc[r] = "record" /\ call[r].op = "promote"
    /\ audited' = audited \cup {[action |-> "promoted", secret |-> None, version |-> 0]}
    /\ Answer(r, "ok")
    /\ ForgetPlan(r)
    /\ UNCHANGED <<dbVars, view>>

-----------------------------------------------------------------------------

PromoteStep(r) ==
    /\ \/ \E filter \in SUBSET Key : PromoteReadSource(r, filter)
       \/ \E dryRun \in BOOLEAN : PromoteReadTarget(r, dryRun)
       \/ PromoteInsertSecret(r)
       \/ PromoteBump(r)
       \/ PromoteInsertVersion(r)
       \/ PromoteRecord(r)
    /\ Publishes(r)

ServiceStep(r) ==
    /\ Step(r)
    /\ pc[r] = "bump" => call[r].op # "promote"
    /\ UNCHANGED promotionVars
    /\ Publishes(r)

PromoteFail(r) ==
    Fail(r) /\ ForgetPlan(r) /\ UNCHANGED published

PromotionNext ==
    \/ \E r \in Request :
         \/ Start(r) /\ UNCHANGED <<promotionVars, published>>
         \/ ServiceStep(r)
         \/ /\ \E u \in User, source, target \in Env : PromoteStart(r, u, source, target)
            /\ UNCHANGED published
         \/ PromoteStep(r)
         \/ PromoteFail(r)
    \/ Quiet /\ UNCHANGED <<promotionVars, published>>

PromotionSpec == PromotionInit /\ [][PromotionNext]_allVars

\* The server and the database keep running an admitted request.
PromotionFairness == \A r \in Request : WF_allVars(ServiceStep(r) \/ PromoteStep(r))

PromotionFairSpec == PromotionSpec /\ PromotionFairness

-----------------------------------------------------------------------------
(* What a promotion promises *)

\* The store keeps its promises with promotions beside its own methods: their
\* transactions write many secrets under one commit, and what they store was
\* sealed for another environment (applyEntry).
StoreInvariants == VersionsContiguous /\ EveryVersionDecrypts /\ OneLiveSecretPerKey

\* What a promotion set out to write, and what of it everybody can read.
Promised(r) == {[key |-> x.key, value |-> x.value] : x \in plan[r]}
Visible(r) ==
    {[key |-> secrets[v.secret].key, value |-> v.sealed.value] : v \in published[r]}

\* A promotion is all-or-nothing, "a target environment is never left
\* half-updated".  At every moment what others can read of it is nothing or its
\* whole plan, also when it died between two entries or lost the answer to its
\* commit; one that was turned away, by a conflict or a vanished secret half way
\* through, left nothing of its own.  And when it has committed, every source
\* value it read is in the target's history, although writers and deletions ran
\* between its two reads and its transaction.
PromotionAllOrNothing ==
    \A r \in Request :
        /\ Visible(r) \in {{}, Promised(r)}
        /\ pc[r] = "done" /\ outcome[r] \notin {"ok", "error"} => published[r] = {}
        /\ InPromotion(r) /\ pc[r] = "record" =>
             \A x \in found[r] : \E v \in versions :
                /\ secrets[v.secret].env = call[r].env
                /\ secrets[v.secret].key = x.key
                /\ v.sealed.value = x.value

\* Promotion is directional and copies nothing else than the source: a version
\* a promotion wrote holds a value that the same key had in an environment of
\* lower rank, the one its comment names.
PromotedFromSource ==
    \A v \in versions : v.comment.kind = "promoted" =>
        /\ EnvRank[v.comment.from] < EnvRank[secrets[v.secret].env]
        /\ \E w \in versions :
             /\ secrets[w.secret].env = v.comment.from
             /\ secrets[w.secret].key = secrets[v.secret].key
             /\ w.sealed.value = v.sealed.value

\* The requests r is waiting for: the owner of the row it wants to update, or
\* of a row that holds the index entry it wants to insert.
WaitsFor(r) ==
    CASE pc[r] = "bump" /\ BumpMatches(r, cur[r], call[r].expected)
           -> {lock[cur[r]]} \ {r, None}
      [] pc[r] \in {"softDelete", "describe"} /\ Live(cur[r])
           -> {lock[cur[r]]} \ {r, None}
      [] pc[r] = "insertSecret"
           -> {lock[s] : s \in IndexEntries(call[r].env, call[r].key)} \ {r, None}
      [] OTHER -> {}

\* Requests never wait for each other in a circle: promotions into the same
\* environment take row locks and index entries in key order, and every other
\* request holds one lock at most.
NoWaitCycle ==
    \A group \in SUBSET Request : group # {} =>
        \E r \in group : WaitsFor(r) \cap group = {}
=============================================================================
