------------------------- MODULE SecretServiceProofs -------------------------
(***************************************************************************)
(* Proofs about SecretService and about Promotion beside it, for any       *)
(* number of secrets, environments, keys, values, users and concurrent     *)
(* requests.                                                               *)
(*                                                                         *)
(* The promises are not inductive by themselves: a commit is safe only     *)
(* because of what its request did before.  IInv adds what each request    *)
(* knows (CallOK), that the identity it read at the start is for good      *)
(* (Bound), what its transaction holds (TxOK), and that an uncommitted row *)
(* has a locked id (LockOK) and occupies the unique index (Uniq).          *)
(*                                                                         *)
(* A step of one request cannot disturb what another one relies on: it     *)
(* leaves the other's locals alone (Frame) and everything the other has    *)
(* locked, and never changes the identity of a row (Respects).             *)
(*                                                                         *)
(* The promises about overwriting, rolling back and reporting need a       *)
(* second invariant on top of it, KInv: what each request and each open    *)
(* form remember of the history they read.                                 *)
(*                                                                         *)
(* With promotions a transaction writes many rows.  PInv says what such a  *)
(* transaction has done and has still to do, and keeps IInv's conjuncts    *)
(* for the methods; PKInv does the same for KInv.                          *)
(*                                                                         *)
(* That others see nothing of a promotion or all of it is about what it    *)
(* wrote and did not commit yet: WInv says that what is in its hand, what  *)
(* it inserted and what is left make up its plan.                          *)
(***************************************************************************)
EXTENDS Promotion, FiniteSetTheorems, WellFoundedInduction, TLAPS

\* The request is being served.
InCall(r) == pc[r] \notin {"new", "done"}

\* What a method knows while it runs: the locals its later statements use.
CallOK(r) == InCall(r) =>
    /\ call[r] \in Call /\ pc[r] \notin {"readSource", "readTarget"}
    /\ call[r].op # "promote" /\ call[r].key \in Key
    /\ pc[r] # "insertSecret" => cur[r] \in Secret
    /\ pc[r] \in {"insertSecret", "bump", "insertVersion"} =>
         sealed[r] \in Sealed /\ sealed[r].aad = SecretAAD(call[r].env, call[r].key)
    /\ call[r].op = "reveal" => pc[r] \in {"getCurrent", "record"}
    /\ pc[r] = "record" /\ call[r].op = "reveal" => sealed[r] \in Sealed
    /\ call[r].op = "create" => call[r].expected = 0
    /\ call[r].op = "create" =>
         pc[r] \in {"insertSecret", "insertVersion", "bump", "commit", "record"}
    /\ pc[r] = "insertSecret" => call[r].op = "create"

\* A secret the method read keeps the identity its ciphertext was sealed for.
Bound(r) == InCall(r) /\ call[r].op # "create" =>
    /\ secrets[cur[r]] # None
    /\ secrets[cur[r]].env = call[r].env
    /\ secrets[cur[r]].key = call[r].key

\* The committed version number of a secret, 0 before its creation commits.
Base(s) == IF secrets[s] = None THEN 0 ELSE secrets[s].current_version

\* The request's transaction has written.
Holding(r) ==
    \/ pc[r] \in {"insertVersion", "commit"}
    \/ pc[r] = "bump" /\ call[r].op = "create"

\* The transaction inserted one version: the next one, sealed for its secret.
HasRow(r) == \E v \in pending[r] :
    /\ pending[r] = {v}
    /\ v.secret = cur[r] /\ v.version = Base(cur[r]) + 1
    /\ v.sealed.aad = SecretAAD(call[r].env, call[r].key)
    /\ v.comment.kind # "promoted"

\* What a transaction holds at each of its statements: nothing before its first
\* write, then the lock and image of one row, and the version it inserted.
TxOK(r) ==
    /\ ~Holding(r) => pending[r] = {} /\ \A s \in Secret : lock[s] # r
    /\ Holding(r) =>
         /\ \A s \in Secret : lock[s] = r <=> s = cur[r]
         /\ dirty[cur[r]] # None
         /\ dirty[cur[r]].env = call[r].env /\ dirty[cur[r]].key = call[r].key
         /\ ~dirty[cur[r]].deleted
         /\ call[r].op = "create" => secrets[cur[r]] = None
         /\ call[r].op # "create" => ~secrets[cur[r]].deleted
    /\ pc[r] = "insertVersion" =>
         /\ pending[r] = {}
         /\ newVersion[r] = Base(cur[r]) + 1
         /\ dirty[cur[r]].current_version =
              IF call[r].op = "create" THEN 0 ELSE newVersion[r]
    /\ pc[r] = "bump" /\ call[r].op = "create" =>
         dirty[cur[r]].current_version = 0 /\ HasRow(r)
    /\ pc[r] = "commit" =>
         dirty[cur[r]].current_version = Base(cur[r]) + 1 /\ HasRow(r)

\* All that is known of one request.
RequestOK(r) == CallOK(r) /\ Bound(r) /\ TxOK(r)

\* A row has an uncommitted image exactly while it is locked.
LockOK == \A s \in Secret : lock[s] = None <=> dirty[s] = None

\* Row s is in the unique index under (e, k), by what is committed or by the
\* image of an open transaction.
Occ(s, e, k) == Occupies(secrets[s], e, k) \/ Occupies(dirty[s], e, k)

\* No two rows are in the unique index under one key, open transactions included.
Uniq == \A s, t \in Secret : \A e \in Env, k \in Key :
          Occ(s, e, k) /\ Occ(t, e, k) => s = t

\* All that is known of the tables.
Tables == LockOK /\ Uniq /\ VersionsContiguous /\ EveryVersionDecrypts

\* The inductive invariant.
IInv == TypeOK /\ (\A r \in Request : RequestOK(r)) /\ Tables

-----------------------------------------------------------------------------

\* The step of r leaves the locals of the others alone.
Frame(r) == \A q \in Request \ {r} :
    /\ pc'[q] = pc[q] /\ call'[q] = call[q] /\ cur'[q] = cur[q]
    /\ sealed'[q] = sealed[q] /\ newVersion'[q] = newVersion[q]
    /\ pending'[q] = pending[q]

\* It leaves alone what the others locked, and identities for good.
Respects(r) ==
    /\ \A s \in Secret : \A q \in Request \ {r} : lock'[s] = q <=> lock[s] = q
    /\ \A s \in Secret : \A q \in Request \ {r} : lock[s] = q =>
          dirty'[s] = dirty[s] /\ secrets'[s] = secrets[s]
    /\ \A s \in Secret : secrets[s] # None =>
          /\ secrets'[s] # None
          /\ secrets'[s].env = secrets[s].env /\ secrets'[s].key = secrets[s].key

\* What is known of a request survives the step of any other request that
\* respects the locks: no lost or half-seen state between two statements.
LEMMA OthersKeepTheirState ==
    ASSUME NEW r \in Request, Frame(r), Respects(r),
           NEW q \in Request \ {r}, RequestOK(q)
    PROVE  RequestOK(q)'
<1>1. RequestOK(q) OBVIOUS
<1>2. /\ pc'[q] = pc[q] /\ call'[q] = call[q] /\ cur'[q] = cur[q]
      /\ sealed'[q] = sealed[q] /\ newVersion'[q] = newVersion[q]
      /\ pending'[q] = pending[q]
  BY DEF Frame
<1>3. CallOK(q)' BY <1>1, <1>2 DEF RequestOK, CallOK, InCall
<1>4. Bound(q)'
  <2>1. CASE ~(InCall(q) /\ call[q].op # "create") BY <2>1, <1>2 DEF Bound, InCall
  <2>2. CASE InCall(q) /\ call[q].op # "create"
    <3>1. cur[q] \in Secret BY <1>1, <2>2 DEF RequestOK, CallOK
    <3> QED BY <3>1, <1>1, <1>2, <2>2 DEF Bound, InCall, Respects, RequestOK
  <2> QED BY <2>1, <2>2
<1>5. TxOK(q)'
  <2>1. Holding(q)' <=> Holding(q) BY <1>2 DEF Holding
  <2>2. CASE ~Holding(q)
    <3>1. pc[q] \notin {"insertVersion", "commit"} /\ ~(pc[q] = "bump" /\ call[q].op = "create")
      BY <2>2 DEF Holding
    <3> QED BY <1>1, <1>2, <2>1, <2>2, <3>1 DEF RequestOK, TxOK, Respects
  <2>3. CASE Holding(q)
    <3>1. InCall(q) /\ pc[q] # "insertSecret" BY <2>3 DEF Holding, InCall
    <3>2. cur[q] \in Secret /\ lock[cur[q]] = q
      BY <1>1, <2>3, <3>1 DEF RequestOK, CallOK, TxOK
    <3>3. dirty'[cur[q]] = dirty[cur[q]] /\ secrets'[cur[q]] = secrets[cur[q]]
      BY <3>2 DEF Respects
    <3>4. Base(cur[q])' = Base(cur[q]) BY <3>3, <1>2 DEF Base
    <3>5. HasRow(q) => HasRow(q)' BY <3>4, <3>3, <1>2 DEF HasRow, Base
    <3> QED BY <1>1, <1>2, <2>1, <2>3, <3>2, <3>3, <3>4, <3>5
       DEF RequestOK, TxOK, Respects, Base
  <2> QED BY <2>2, <2>3
<1> QED BY <1>3, <1>4, <1>5 DEF RequestOK

\* What the step of a request finds, and has to leave behind.
Local(r) == TypeOK /\ RequestOK(r) /\ Tables
StepOK(r) == Frame(r) /\ Respects(r) /\ Local(r)'

\* One request's step keeps the invariant if it does so for that request and
\* the tables.
LEMMA StepPreserves ==
    ASSUME IInv, NEW r \in Request, StepOK(r)
    PROVE  IInv'
<1>1. \A q \in Request \ {r} : RequestOK(q)' BY OthersKeepTheirState DEF IInv, StepOK
<1> QED BY <1>1 DEF IInv, StepOK, Local

\* Rows that a transaction has not published say nothing about the tables.
LEMMA TablesStay ==
    ASSUME Tables, UNCHANGED <<secrets, versions, lock, dirty>>
    PROVE  Tables'
<1>1. LockOK' /\ Uniq' BY DEF Tables, LockOK, Uniq, Occ, Occupies, IsLive
<1>2. VersionsContiguous' BY DEF Tables, VersionsContiguous, VersionsOf
<1>3. EveryVersionDecrypts' BY DEF Tables, EveryVersionDecrypts
<1> QED BY <1>1, <1>2, <1>3 DEF Tables

\* A step that leaves the tables alone, taken outside a transaction.
LEMMA ReadOnlyStep ==
    ASSUME NEW r \in Request, Local(r), Frame(r), UNCHANGED dbVars,
           ~Holding(r), ~Holding(r)', TypeOK', CallOK(r)', Bound(r)'
    PROVE  StepOK(r)
<1>1. UNCHANGED <<secrets, versions, lock, dirty, pending>> BY DEF dbVars
<1>2. Respects(r) BY <1>1 DEF Respects
<1>3. Tables' BY <1>1, TablesStay DEF Local
<1>4. TxOK(r)'
  <2>1. TxOK(r) BY DEF Local, RequestOK
  <2> QED BY <2>1, <1>1 DEF TxOK, Holding
<1> QED BY <1>2, <1>3, <1>4 DEF StepOK, Local, RequestOK

\* Return with an error before the transaction.
LEMMA RefusePreserves ==
    ASSUME NEW r \in Request, Local(r), ~Holding(r), NEW x \in Outcomes, Refuse(r, x)
    PROVE  StepOK(r)
<1> USE DEF Refuse, Answer, Goto
<1>0. TypeOK BY DEF Local
<1>1. Frame(r) BY <1>0 DEF Frame, TypeOK, dbVars
<1>2. pc'[r] = "done" BY <1>0 DEF TypeOK
<1>3. ~Holding(r)' /\ CallOK(r)' /\ Bound(r)'
  BY <1>2 DEF Holding, CallOK, Bound, InCall
<1>4. TypeOK' 
  <2>1. DBTypeOK' BY <1>0 DEF TypeOK, DBTypeOK, dbVars
  <2> QED BY <1>0, <2>1 DEF TypeOK, PCs
<1> QED BY <1>1, <1>3, <1>4, ReadOnlyStep

\* A request is answered and whatever its transaction did is undone.
LEMMA AnswerPreserves ==
    ASSUME TypeOK, Tables, NEW r \in Request, NEW x \in Outcomes,
           RollbackTx(r), Answer(r, x), view' \in [User -> View], audited' \subseteq Event
    PROVE  StepOK(r)
<1> USE DEF Answer, Goto, RollbackTx
<1>0. TypeOK /\ DBTypeOK BY DEF TypeOK
<1>1. Frame(r) BY <1>0 DEF Frame, TypeOK, DBTypeOK
<1>2. pc'[r] = "done" BY <1>0 DEF TypeOK
<1>3. ~Holding(r)' /\ CallOK(r)' /\ Bound(r)'
  BY <1>2 DEF Holding, CallOK, Bound, InCall
<1>4. TypeOK'
  <2>1. DBTypeOK' BY <1>0 DEF DBTypeOK, ReleasedLocks, ReleasedImages
  <2> QED BY <1>0, <2>1 DEF TypeOK, PCs
<1>5. \A s \in Secret : /\ lock'[s] = IF lock[s] = r THEN None ELSE lock[s]
                        /\ dirty'[s] = IF lock[s] = r THEN None ELSE dirty[s]
  BY DEF ReleasedLocks, ReleasedImages
<1>6. Respects(r) BY <1>0, <1>5, SecretDBAssumption DEF Respects
<1>7. TxOK(r)'
  <2>1. pending'[r] = {} BY <1>0 DEF DBTypeOK
  <2>2. \A s \in Secret : lock'[s] # r BY <1>5, SecretDBAssumption
  <2> QED BY <2>1, <2>2, <1>2 DEF TxOK, Holding
<1>8. Tables'
  <2>1. LockOK' BY <1>5 DEF Tables, LockOK
  <2>2. Uniq'
    <3>1. ASSUME NEW s \in Secret, NEW e \in Env, NEW k \in Key, Occ(s, e, k)' PROVE Occ(s, e, k)
      BY <1>5, <3>1 DEF Occ, Occupies, IsLive
    <3> QED BY <3>1 DEF Uniq, Tables
  <2>3. VersionsContiguous' BY DEF Tables, VersionsContiguous, VersionsOf
  <2>4. EveryVersionDecrypts' BY DEF Tables, EveryVersionDecrypts
  <2> QED BY <2>1, <2>2, <2>3, <2>4 DEF Tables
<1> QED BY <1>1, <1>3, <1>4, <1>6, <1>7, <1>8 DEF StepOK, Local, RequestOK

\* An error inside the transaction, or the death of the request anywhere.
LEMMA AbortPreserves ==
    ASSUME TypeOK, Tables, NEW r \in Request, NEW x \in Outcomes, AbortTx(r, x)
    PROVE  StepOK(r)
BY AnswerPreserves DEF AbortTx, TypeOK

\* RequireSecretRole and getSecret succeed: the locals describe a live secret.
LEMMA GetSecretPreserves ==
    ASSUME NEW r \in Request, Local(r), NEW u \in User, NEW s \in Secret,
           NEW op \in Ops \ {"create", "promote"},
           NEW expected \in Nat, NEW target \in Nat, NEW basis \in Value \cup {None},
           NEW label \in {"bump", "describe", "getVersion", "softDelete", "getCurrent"},
           GetSecret(r, op, u, s, expected, target, basis, label),
           op = "reveal" => label = "getCurrent",
           NEW x \in Sealed \cup {None}, sealed' = [sealed EXCEPT ![r] = x],
           label = "bump" => x \in Sealed /\ x.aad = SecretAAD(secrets[s].env, secrets[s].key)
    PROVE  StepOK(r)
<1> USE DEF GetSecret, Goto
<1>0. TypeOK /\ DBTypeOK BY DEF Local, TypeOK
<1>1. Frame(r) BY <1>0 DEF Frame, TypeOK, dbVars
<1>2. pc'[r] = label /\ cur'[r] = s /\ sealed'[r] = x BY <1>0 DEF TypeOK
<1>3. secrets[s] # None /\ secrets[s] \in SecretRow
  BY <1>0 DEF DBTypeOK, Live, IsLive
<1>4. /\ call'[r] \in Call /\ call'[r].op = op
      /\ call'[r].env = secrets[s].env /\ call'[r].key = secrets[s].key
      /\ call'[r].key \in Key
  BY <1>0, <1>3 DEF TypeOK, Args, Call, SecretRow
<1>5. ~Holding(r) BY DEF Holding
<1>6. ~Holding(r)' BY <1>2, <1>4 DEF Holding
<1>7. CallOK(r)' BY <1>2, <1>4 DEF CallOK
<1>8. Bound(r)' BY <1>2, <1>3, <1>4 DEF Bound, dbVars
<1>9. TypeOK'
  <2>1. DBTypeOK' BY <1>0 DEF DBTypeOK, dbVars
  <2>2. call' \in [Request -> Call \cup {None}]
    <3>1. call' = [call EXCEPT ![r] = call'[r]] BY <1>0 DEF TypeOK
    <3> QED BY <3>1, <1>4, <1>0 DEF TypeOK
  <2>3. seen' \in [Request -> Nat] BY <1>0, <1>3 DEF TypeOK, SecretRow
  <2> QED BY <1>0, <2>1, <2>2, <2>3 DEF TypeOK, PCs, InTx
<1> QED BY <1>1, <1>5, <1>6, <1>7, <1>8, <1>9, ReadOnlyStep

\* Create is admitted: the value is sealed for the requested key, nothing is
\* written yet.
LEMMA CreateStartPreserves ==
    ASSUME NEW r \in Request, Local(r), NEW u \in User, NEW e \in Env, NEW k \in Key,
           NEW value \in Value, CreateStart(r, u, e, k, value)
    PROVE  StepOK(r)
<1>0. TypeOK /\ DBTypeOK BY DEF Local, TypeOK
<1>1. ~Holding(r) BY DEF Holding, CreateStart
<1>2. CASE Refuse(r, "forbidden") \/ Refuse(r, "validation")
  BY <1>1, <1>2, RefusePreserves DEF Outcomes
<1>3. CASE /\ call' = [call EXCEPT ![r] = Args("create", u, e, k)]
           /\ sealed' = [sealed EXCEPT ![r] = Encrypt(value, SecretAAD(e, k))]
           /\ Goto(r, "insertSecret")
           /\ UNCHANGED <<dbVars, cur, seen, newVersion, outcome, view, audited>>
  <2> USE <1>3 DEF Goto
  <2>1. Frame(r) BY <1>0 DEF Frame, TypeOK, dbVars
  <2>2. pc'[r] = "insertSecret" BY <1>0 DEF TypeOK
  <2>3. /\ call'[r] = Args("create", u, e, k) /\ call'[r] \in Call /\ call'[r].op = "create"
        /\ call'[r].env = e /\ call'[r].key = k /\ call'[r].expected = 0
    BY <1>0 DEF TypeOK, Args, Call, Ops
  <2>4. /\ sealed'[r] \in Sealed /\ sealed'[r].aad = SecretAAD(e, k)
    BY <1>0 DEF TypeOK, Encrypt, SecretAAD, Sealed
  <2>5. ~Holding(r)' /\ CallOK(r)' /\ Bound(r)'
    BY <2>2, <2>3, <2>4 DEF Holding, CallOK, Bound
  <2>6. TypeOK'
    <3>1. DBTypeOK' BY <1>0 DEF DBTypeOK, dbVars
    <3>2. call' \in [Request -> Call \cup {None}] BY <1>0, <2>3 DEF TypeOK
    <3>3. sealed' \in [Request -> Sealed \cup {None}]
      <4>1. Encrypt(value, SecretAAD(e, k)) \in Sealed
        BY DEF Encrypt, SecretAAD, Sealed
      <4> QED BY <4>1, <1>0 DEF TypeOK
    <3> QED BY <1>0, <3>1, <3>2, <3>3 DEF TypeOK, PCs
  <2> QED BY <1>1, <2>1, <2>5, <2>6, ReadOnlyStep
<1> QED BY <1>2, <1>3 DEF CreateStart

\* The admission of a request of any kind.
LEMMA StartPreserves ==
    ASSUME NEW r \in Request, Local(r), Start(r)
    PROVE  StepOK(r)
<1>0. TypeOK /\ DBTypeOK BY DEF Local, TypeOK
<1>1. PICK u \in User :
      \/ \E e \in Env, k \in Key, value \in Value : CreateStart(r, u, e, k, value)
      \/ \E s \in {t \in Secret : secrets[t] # None} :
           \/ SecretRefused(r, u, s)
           \/ \E value \in Value : UpdateStart(r, u, s, value)
           \/ DescribeStart(r, u, s)
           \/ \E target \in Nameable(s) : RollbackStart(r, u, s, target)
           \/ DeleteStart(r, u, s)
           \/ RevealStart(r, u, s)
           \/ \E target \in Nameable(s) : RevealVersionStart(r, u, s, target)
  BY DEF Start
<1>2. CASE \E e \in Env, k \in Key, value \in Value : CreateStart(r, u, e, k, value)
  BY <1>2, CreateStartPreserves
<1>3. ASSUME NEW s \in Secret, secrets[s] # None,
           \/ SecretRefused(r, u, s)
           \/ \E value \in Value : UpdateStart(r, u, s, value)
           \/ DescribeStart(r, u, s)
           \/ \E target \in Nameable(s) : RollbackStart(r, u, s, target)
           \/ DeleteStart(r, u, s)
           \/ RevealStart(r, u, s)
           \/ \E target \in Nameable(s) : RevealVersionStart(r, u, s, target)
      PROVE StepOK(r)
  <2>1. secrets[s] \in SecretRow BY <1>0, <1>3 DEF DBTypeOK
  <2>2. Nameable(s) \subseteq Nat
    BY <1>0, <2>1 DEF Nameable, VersionsOf, DBTypeOK, SecretRow, VersionRow
  <2>3. sealed[r] \in Sealed \cup {None} /\ (UNCHANGED sealed => sealed' = [sealed EXCEPT ![r] = sealed[r]])
    BY <1>0 DEF TypeOK
  <2>4. CASE SecretRefused(r, u, s)
    BY <2>4, RefusePreserves DEF SecretRefused, Outcomes, Holding
  <2>5. CASE \E value \in Value : UpdateStart(r, u, s, value)
    <3>1. PICK value \in Value : UpdateStart(r, u, s, value) BY <2>5
    <3>2. PICK expected \in {0} \cup (IF view[u].secret = s THEN {view[u].version} ELSE {}) :
        /\ GetSecret(r, "update", u, s, expected, 0,
                     IF expected > 0 THEN view[u].value ELSE None, "bump")
        /\ sealed' = [sealed EXCEPT ![r] =
                        Encrypt(value, SecretAAD(secrets[s].env, secrets[s].key))]
      BY <3>1 DEF UpdateStart
    <3>3. view[u] \in View BY <1>0 DEF TypeOK
    <3>4. expected \in Nat BY <3>3 DEF View
    <3>5. (IF expected > 0 THEN view[u].value ELSE None) \in Value \cup {None}
      BY <3>3 DEF View
    <3>6. /\ Encrypt(value, SecretAAD(secrets[s].env, secrets[s].key)) \in Sealed
          /\ Encrypt(value, SecretAAD(secrets[s].env, secrets[s].key)).aad
               = SecretAAD(secrets[s].env, secrets[s].key)
      BY <2>1 DEF Encrypt, SecretAAD, Sealed, SecretRow
    <3>7. "update" \in Ops \ {"create", "promote"} /\ 0 \in Nat BY DEF Ops
    <3> HIDE DEF Ops
    <3> QED BY <3>2, <3>4, <3>5, <3>6, <3>7, GetSecretPreserves
  <2>6. CASE \E target \in Nameable(s) : RollbackStart(r, u, s, target)
    <3>1. PICK target \in Nat : RollbackStart(r, u, s, target) BY <2>2, <2>6
    <3>2. CASE Refuse(r, "validation") /\ pc[r] = "new"
      BY <3>2, RefusePreserves DEF Outcomes, Holding
    <3>3. CASE GetSecret(r, "rollback", u, s, 0, target, None, "getVersion") /\ UNCHANGED sealed
      <4>1. "rollback" \in Ops \ {"create", "promote"} BY DEF Ops
      <4> QED BY <3>3, <4>1, <2>3, GetSecretPreserves
    <3> QED BY <3>1, <3>2, <3>3 DEF RollbackStart
  <2>7. CASE DeleteStart(r, u, s)
    <3>1. "delete" \in Ops \ {"create", "promote"} BY DEF Ops
    <3> QED BY <2>7, <3>1, <2>3, GetSecretPreserves DEF DeleteStart
  <2>8. CASE RevealStart(r, u, s)
    <3>1. "reveal" \in Ops \ {"create", "promote"} BY DEF Ops
    <3> QED BY <2>8, <3>1, <2>3, GetSecretPreserves DEF RevealStart
  <2>9. CASE \E target \in Nameable(s) : RevealVersionStart(r, u, s, target)
    <3>1. PICK target \in Nat : RevealVersionStart(r, u, s, target) BY <2>2, <2>9
    <3>2. "revealVersion" \in Ops \ {"create", "promote"} BY DEF Ops
    <3> QED BY <3>1, <3>2, <2>3, GetSecretPreserves DEF RevealVersionStart
  <2>10. CASE DescribeStart(r, u, s)
    <3>1. "describe" \in Ops \ {"create", "promote"} BY DEF Ops
    <3> QED BY <2>10, <3>1, <2>3, GetSecretPreserves DEF DescribeStart
  <2> QED BY <1>3, <2>4, <2>5, <2>6, <2>7, <2>8, <2>9, <2>10
<1> QED BY <1>1, <1>2, <1>3

\* Rollback copies a ciphertext that was sealed for this very secret.
LEMMA RollbackReadTargetPreserves ==
    ASSUME NEW r \in Request, Local(r), RollbackReadTarget(r)
    PROVE  StepOK(r)
<1> USE DEF RollbackReadTarget, Goto
<1>0. TypeOK /\ DBTypeOK /\ RequestOK(r) BY DEF Local, TypeOK
<1>1. ~Holding(r) BY DEF Holding
<1>2. CASE Refuse(r, "not_found") BY <1>1, <1>2, RefusePreserves DEF Outcomes
<1>3. ASSUME NEW row \in GetSecretVersion(cur[r], call[r].target),
             sealed' = [sealed EXCEPT ![r] = row.sealed],
             pc' = [pc EXCEPT ![r] = "bump"],
             UNCHANGED <<dbVars, call, cur, seen, newVersion, outcome, view, audited>>
      PROVE StepOK(r)
  <2> USE <1>3
  <2>1. row \in versions /\ row \in VersionRow /\ row.secret = cur[r]
    BY <1>0 DEF GetSecretVersion, DBTypeOK
  <2>2. row.sealed \in Sealed BY <2>1 DEF VersionRow
  <2>3. /\ call[r] \in Call /\ call[r].key \in Key /\ cur[r] \in Secret
        /\ secrets[cur[r]].env = call[r].env /\ secrets[cur[r]].key = call[r].key
    BY <1>0 DEF RequestOK, CallOK, Bound, InCall
  <2>4. row.sealed.aad = SecretAAD(call[r].env, call[r].key)
    BY <2>1, <2>3 DEF Local, Tables, EveryVersionDecrypts, CanDecrypt
  <2>5. pc'[r] = "bump" /\ sealed'[r] = row.sealed /\ call'[r] = call[r] /\ cur'[r] = cur[r]
    BY <1>0 DEF TypeOK
  <2>6. Frame(r) BY <1>0 DEF Frame, TypeOK, dbVars
  <2>7. ~Holding(r)' BY <2>5 DEF Holding
  <2>8. CallOK(r)' BY <2>2, <2>3, <2>4, <2>5 DEF CallOK
  <2>9. Bound(r)' BY <1>0, <2>5 DEF RequestOK, Bound, InCall, dbVars
  <2>10. TypeOK'
    <3>1. DBTypeOK' BY <1>0 DEF DBTypeOK, dbVars
    <3> QED BY <1>0, <2>2, <3>1 DEF TypeOK, PCs, InTx
  <2> QED BY <1>1, <2>6, <2>7, <2>8, <2>9, <2>10, ReadOnlyStep
<1> QED BY <1>2, <1>3

\* Reveal and RevealVersion: decrypt what was read, or fail.
LEMMA DecryptRowPreserves ==
    ASSUME NEW r \in Request, Local(r), NEW row \in versions,
           pc[r] \in {"getCurrent", "getVersion"}, DecryptRow(r, row)
    PROVE  StepOK(r)
<1>0. TypeOK /\ DBTypeOK /\ RequestOK(r) BY DEF Local, TypeOK
<1>1. ~Holding(r) BY DEF Holding
<1>2. CASE Refuse(r, "error") BY <1>1, <1>2, RefusePreserves DEF Outcomes
<1>3. CASE /\ sealed' = [sealed EXCEPT ![r] = row.sealed]
           /\ newVersion' = [newVersion EXCEPT ![r] = row.version]
           /\ Goto(r, "record")
           /\ UNCHANGED <<dbVars, call, cur, seen, outcome, view, audited>>
  <2> USE <1>3 DEF Goto
  <2>1. row.sealed \in Sealed /\ row.version \in Nat
    BY <1>0 DEF DBTypeOK, VersionRow
  <2>2. pc'[r] = "record" /\ sealed'[r] = row.sealed /\ call'[r] = call[r] /\ cur'[r] = cur[r]
    BY <1>0 DEF TypeOK
  <2>3. Frame(r) BY <1>0 DEF Frame, TypeOK, dbVars
  <2>4. ~Holding(r)' BY <2>2 DEF Holding
  <2>5. CallOK(r)' BY <1>0, <2>1, <2>2 DEF RequestOK, CallOK, InCall
  <2>6. Bound(r)' BY <1>0, <2>2 DEF RequestOK, Bound, InCall, dbVars
  <2>7. TypeOK'
    <3>1. DBTypeOK' BY <1>0 DEF DBTypeOK, dbVars
    <3> QED BY <1>0, <2>1, <3>1 DEF TypeOK, PCs
  <2> QED BY <1>1, <2>3, <2>4, <2>5, <2>6, <2>7, ReadOnlyStep
<1> QED BY <1>2, <1>3 DEF DecryptRow

\* The method hands its event to the recorder and returns.
LEMMA RecordAndAnswerPreserves ==
    ASSUME NEW r \in Request, Local(r), RecordAndAnswer(r)
    PROVE  StepOK(r)
<1> USE DEF RecordAndAnswer, Answer, Goto
<1>0. TypeOK /\ DBTypeOK /\ RequestOK(r) BY DEF Local, TypeOK
<1>1. Frame(r) BY <1>0 DEF Frame, TypeOK, dbVars
<1>2. pc'[r] = "done" BY <1>0 DEF TypeOK
<1>3. ~Holding(r) /\ ~Holding(r)' /\ CallOK(r)' /\ Bound(r)'
  BY <1>2 DEF Holding, CallOK, Bound, InCall
<1>4. call[r] \in Call /\ cur[r] \in Secret /\ (call[r].op = "reveal" => sealed[r] \in Sealed)
  BY <1>0 DEF RequestOK, CallOK, InCall
<1>5. EventOf(r) \in Event
  <2>1. newVersion[r] \in Nat BY <1>0 DEF TypeOK
  <2> QED BY <1>4, <2>1 DEF EventOf, Event
<1>6. view' \in [User -> View]
  <2>1. CASE call[r].op # "reveal" BY <2>1, <1>0 DEF TypeOK
  <2>2. CASE call[r].op = "reveal"
    <3>1. RevealedView(r) \in View
      BY <2>2, <1>4, <1>0 DEF RevealedView, View, TypeOK, Sealed
    <3> QED BY <3>1, <2>2, <1>0, <1>4 DEF TypeOK, Call
  <2> QED BY <2>1, <2>2
<1>7. TypeOK'
  <2>1. DBTypeOK' BY <1>0 DEF DBTypeOK, dbVars
  <2> QED BY <1>0, <1>5, <1>6, <2>1 DEF TypeOK, PCs, Outcomes
<1> QED BY <1>1, <1>3, <1>7, ReadOnlyStep

-----------------------------------------------------------------------------
(* The statements that write *)

\* CreateSecret locks a fresh id and writes a row that is nowhere in the index.
LEMMA CreateSecretTables ==
    ASSUME TypeOK, Tables, NEW r \in Request, NEW s \in Secret,
           NEW e \in Env, NEW k \in Key, IndexEntries(e, k) = {},
           CreateSecret(r, s, e, k)
    PROVE  /\ DBTypeOK' /\ Respects(r) /\ Tables'
           /\ UNCHANGED <<secrets, versions, pending>> /\ secrets[s] = None /\ lock[s] = None
           /\ \A t \in Secret : lock'[t] = IF t = s THEN r ELSE lock[t]
           /\ \A t \in Secret : t # s => dirty'[t] = dirty[t]
           /\ dirty'[s] # None /\ dirty'[s].env = e /\ dirty'[s].key = k
           /\ dirty'[s].current_version = 0 /\ ~dirty'[s].deleted
<1> USE DEF CreateSecret
<1> DEFINE row == [env |-> e, key |-> k, current_version |-> 0, deleted |-> FALSE]
<1>0. DBTypeOK BY DEF TypeOK
<1>1. row \in SecretRow /\ row # None
  <2>1. row \in SecretRow BY DEF SecretRow
  <2> HIDE DEF row
  <2> QED BY <2>1, SecretDBAssumption
<1>2. \A t \in Secret : /\ lock'[t] = IF t = s THEN r ELSE lock[t]
                        /\ dirty'[t] = IF t = s THEN row ELSE dirty[t]
  BY <1>0 DEF DBTypeOK
<1>3. Respects(r) BY <1>2, SecretDBAssumption DEF Respects
<1>4. DBTypeOK' BY <1>0, <1>1 DEF DBTypeOK
<1>5. LockOK' BY <1>1, <1>2, SecretDBAssumption DEF LockOK, Tables
<1>6. Uniq'
  <2>1. \A t \in Secret : ~Occ(t, e, k) BY DEF IndexEntries, Occ
  <2>2. ASSUME NEW t \in Secret, NEW f \in Env, NEW l \in Key, Occ(t, f, l)'
        PROVE  Occ(t, f, l) \/ (t = s /\ f = e /\ l = k)
    BY <2>2, <1>2 DEF Occ, Occupies
  <2> QED BY <2>1, <2>2 DEF Uniq, Tables
<1>7. VersionsContiguous' /\ EveryVersionDecrypts'
  BY DEF Tables, VersionsContiguous, VersionsOf, EveryVersionDecrypts
<1> QED BY <1>1, <1>2, <1>3, <1>4, <1>5, <1>6, <1>7 DEF Tables

\* Create inserts a row under a key that nobody holds, committed or not.
LEMMA CreateInsertSecretPreserves ==
    ASSUME NEW r \in Request, Local(r), CreateInsertSecret(r)
    PROVE  StepOK(r)
<1> USE DEF CreateInsertSecret, InsertSecret, Goto
<1>0. TypeOK /\ DBTypeOK /\ RequestOK(r) /\ Tables BY DEF Local, TypeOK
<1>1. CASE AbortTx(r, "conflict") BY <1>0, <1>1, AbortPreserves DEF Outcomes
<1>2. ASSUME IndexEntries(call[r].env, call[r].key) = {},
             NEW s \in Secret, CreateSecret(r, s, call[r].env, call[r].key),
             cur' = [cur EXCEPT ![r] = s],
             newVersion' = [newVersion EXCEPT ![r] = 1],
             pc' = [pc EXCEPT ![r] = "insertVersion"],
             UNCHANGED <<call, sealed, seen, outcome, view, audited>>
      PROVE StepOK(r)
  <2> USE <1>2
  <2>1. /\ call[r] \in Call /\ call[r].env \in Env /\ call[r].key \in Key
        /\ call[r].expected = 0
        /\ sealed[r] \in Sealed /\ sealed[r].aad = SecretAAD(call[r].env, call[r].key)
        /\ pending[r] = {} /\ \A t \in Secret : lock[t] # r
    BY <1>0 DEF RequestOK, CallOK, InCall, TxOK, Holding, Call
  <2>2. /\ DBTypeOK' /\ Respects(r) /\ Tables'
        /\ UNCHANGED <<secrets, versions, pending>> /\ secrets[s] = None
        /\ \A t \in Secret : lock'[t] = IF t = s THEN r ELSE lock[t]
        /\ dirty'[s] # None /\ dirty'[s].env = call[r].env /\ dirty'[s].key = call[r].key
        /\ dirty'[s].current_version = 0 /\ ~dirty'[s].deleted
    BY <1>0, <2>1, CreateSecretTables
  <2>3. /\ pc'[r] = "insertVersion" /\ cur'[r] = s /\ newVersion'[r] = 1
        /\ UNCHANGED <<call, sealed>>
    BY <1>0 DEF TypeOK
  <2>4. Frame(r) BY <1>0, <2>2 DEF Frame, TypeOK
  <2>5. TypeOK' BY <1>0, <2>2 DEF TypeOK, PCs, InTx
  <2>6. CallOK(r)' BY <2>1, <2>3 DEF CallOK
  <2>7. Bound(r)' BY <2>3 DEF Bound
  <2>8. TxOK(r)'
    <3>1. Holding(r)' BY <2>3 DEF Holding
    <3>2. Base(s)' = 0 BY <2>2 DEF Base
    <3> QED BY <2>1, <2>2, <2>3, <3>1, <3>2 DEF TxOK
  <2> QED BY <2>2, <2>4, <2>5, <2>6, <2>7, <2>8 DEF StepOK, Local, RequestOK
<1> QED BY <1>1, <1>2

\* BumpSecretVersion locks the row and writes its image one version further; the
\* identity, and with it the place in the index, stays.
LEMMA BumpTables ==
    ASSUME TypeOK, Tables, NEW r \in Request, NEW s \in Secret, NEW n \in Nat,
           BumpMatches(r, s, n), BumpSecretVersion(r, s)
    PROVE  /\ DBTypeOK' /\ Respects(r) /\ Tables'
           /\ UNCHANGED <<secrets, versions, pending>>
           /\ Image(r, s) \in SecretRow /\ ~Image(r, s).deleted /\ lock[s] \in {r, None}
           /\ \A t \in Secret : lock'[t] = IF t = s THEN r ELSE lock[t]
           /\ \A t \in Secret : t # s => dirty'[t] = dirty[t]
           /\ dirty'[s] # None /\ ~dirty'[s].deleted
           /\ dirty'[s].env = Image(r, s).env /\ dirty'[s].key = Image(r, s).key
           /\ dirty'[s].current_version = Image(r, s).current_version + 1
<1> DEFINE old == Image(r, s)
           new == [old EXCEPT !.current_version = @ + 1]
<1>0. DBTypeOK BY DEF TypeOK
<1>1. /\ LockFree(r, s) /\ lock' = [lock EXCEPT ![s] = r]
      /\ dirty' = [dirty EXCEPT ![s] = new]
      /\ UNCHANGED <<secrets, versions, pending>>
  BY DEF BumpSecretVersion
<1>2. old # None /\ old \in SecretRow /\ ~old.deleted
  BY <1>0 DEF BumpMatches, IsLive, Image, DBTypeOK
<1>3. /\ new \in SecretRow /\ new.env = old.env /\ new.key = old.key
      /\ new.current_version = old.current_version + 1 /\ ~new.deleted
  BY <1>2 DEF SecretRow
<1>4. new # None
  <2> HIDE DEF new
  <2> QED BY <1>3, SecretDBAssumption
<1> HIDE DEF new, old
<1>5. \A t \in Secret : /\ lock'[t] = IF t = s THEN r ELSE lock[t]
                        /\ dirty'[t] = IF t = s THEN new ELSE dirty[t]
  BY <1>0, <1>1 DEF DBTypeOK
<1>6. lock[s] \in {r, None} BY <1>1 DEF LockFree
<1>7. Respects(r) BY <1>1, <1>5, <1>6, SecretDBAssumption DEF Respects
<1>8. DBTypeOK' BY <1>0, <1>1, <1>3 DEF DBTypeOK
<1>9. LockOK' BY <1>4, <1>5, SecretDBAssumption DEF LockOK, Tables
<1>10. Uniq'
  <2>1. ASSUME NEW t \in Secret, NEW e \in Env, NEW k \in Key, Occ(t, e, k)'
        PROVE  Occ(t, e, k)
    <3>1. CASE t # s BY <3>1, <2>1, <1>1, <1>5 DEF Occ, Occupies
    <3>2. CASE t = s
      <4>1. Occupies(secrets[s], e, k) \/ Occupies(new, e, k)
        BY <3>2, <2>1, <1>1, <1>5 DEF Occ
      <4>2. Occupies(new, e, k) => Occupies(old, e, k)
        BY <1>2, <1>3 DEF Occupies, IsLive
      <4>3. old = dirty[s] \/ old = secrets[s] BY DEF old, Image
      <4> QED BY <3>2, <4>1, <4>2, <4>3 DEF Occ
    <3> QED BY <3>1, <3>2
  <2> QED BY <2>1 DEF Uniq, Tables
<1>11. VersionsContiguous' /\ EveryVersionDecrypts'
  BY <1>1 DEF Tables, VersionsContiguous, VersionsOf, EveryVersionDecrypts
<1> QED BY <1>1, <1>2, <1>3, <1>4, <1>5, <1>6, <1>7, <1>8, <1>9, <1>10, <1>11 DEF Tables, old

\* The bump locks the row and writes its image one version further.
LEMMA BumpPreserves ==
    ASSUME NEW r \in Request, Local(r), Bump(r)
    PROVE  StepOK(r)
<1>0. TypeOK /\ DBTypeOK /\ RequestOK(r) /\ Tables BY DEF Local, TypeOK
<1>1. pc[r] = "bump" BY DEF Bump
<1>2. /\ call[r] \in Call /\ call[r].op # "promote" /\ call[r].key \in Key
      /\ cur[r] \in Secret /\ sealed[r] \in Sealed
      /\ sealed[r].aad = SecretAAD(call[r].env, call[r].key)
      /\ call[r].op # "reveal" /\ call[r].expected \in Nat
      /\ call[r].op = "create" => call[r].expected = 0
  BY <1>0, <1>1 DEF RequestOK, CallOK, InCall, Call
<1>3. CASE AbortTx(r, IF call[r].expected > 0 THEN "version_mismatch" ELSE "not_found")
  BY <1>0, <1>3, AbortPreserves DEF Outcomes
<1>4. CASE /\ BumpMatches(r, cur[r], call[r].expected)
           /\ BumpSecretVersion(r, cur[r])
           /\ newVersion' = [newVersion EXCEPT ![r] =
                               Image(r, cur[r]).current_version + 1]
           /\ Goto(r, IF call[r].op = "create" THEN "commit" ELSE "insertVersion")
           /\ UNCHANGED <<call, cur, sealed, seen, outcome, view, audited>>
  <2> DEFINE s == cur[r]
             old == Image(r, s)
  <2>1. /\ DBTypeOK' /\ Respects(r) /\ Tables'
        /\ UNCHANGED <<secrets, versions, pending>>
        /\ old \in SecretRow /\ ~old.deleted /\ lock[s] \in {r, None}
        /\ \A t \in Secret : lock'[t] = IF t = s THEN r ELSE lock[t]
        /\ dirty'[s] # None /\ ~dirty'[s].deleted
        /\ dirty'[s].env = old.env /\ dirty'[s].key = old.key
        /\ dirty'[s].current_version = old.current_version + 1
    BY <1>0, <1>2, <1>4, BumpTables
  <2>2. /\ old.env = call[r].env /\ old.key = call[r].key
        /\ old.current_version = Base(s)
        /\ call[r].op = "create" => lock[s] = r /\ secrets[s] = None /\ HasRow(r)
        /\ call[r].op # "create" => /\ lock[s] = None /\ old = secrets[s]
                                    /\ pending[r] = {}
        /\ \A t \in Secret : lock[t] = r => t = s
    <3>1. CASE call[r].op = "create"
      <4>1. Holding(r) BY <1>1, <3>1 DEF Holding
      <4> QED BY <4>1, <3>1, <1>0, <1>1, <1>2 DEF RequestOK, TxOK, Image, Base
    <3>2. CASE call[r].op # "create"
      <4>1. ~Holding(r) BY <1>1, <3>2 DEF Holding
      <4>2. pending[r] = {} /\ \A t \in Secret : lock[t] # r
        BY <4>1, <1>0 DEF RequestOK, TxOK
      <4>3. lock[s] = None /\ old = secrets[s]
        BY <4>2, <2>1, <1>2 DEF Image
      <4>4. secrets[s] # None /\ secrets[s].env = call[r].env /\ secrets[s].key = call[r].key
        BY <3>2, <1>0, <1>1 DEF RequestOK, Bound, InCall
      <4> QED BY <3>2, <4>2, <4>3, <4>4 DEF Base
    <3> QED BY <3>1, <3>2
  <2> HIDE DEF old
  <2>3. /\ pc'[r] = (IF call[r].op = "create" THEN "commit" ELSE "insertVersion")
        /\ newVersion'[r] = old.current_version + 1
    BY <1>0, <1>4 DEF TypeOK, Goto, old
  <2>4. /\ cur'[r] = s /\ call'[r] = call[r] /\ sealed'[r] = sealed[r]
        /\ pending'[r] = pending[r]
    BY <1>4, <2>1
  <2>5. Frame(r) BY <1>0, <1>4, <2>1 DEF Frame, TypeOK, Goto
  <2>6. TypeOK'
    <3>1. newVersion' \in [Request -> Nat]
      <4>1. old.current_version + 1 \in Nat BY <2>1 DEF SecretRow
      <4> QED BY <4>1, <1>0, <1>4 DEF TypeOK, old
    <3> QED BY <1>0, <1>4, <2>1, <3>1 DEF TypeOK, PCs, InTx, Goto
  <2>7. CallOK(r)' BY <1>2, <2>3, <2>4 DEF CallOK
  <2>8. Bound(r)' BY <1>0, <1>1, <2>1, <2>4 DEF Bound, RequestOK, InCall
  <2>9. TxOK(r)'
    <3>1. Holding(r)' BY <2>3 DEF Holding
    <3>2. Base(s)' = Base(s) BY <2>1, <2>4 DEF Base
    <3>3. HasRow(r) => HasRow(r)' BY <2>4, <3>2 DEF HasRow
    <3>4. \A t \in Secret : lock'[t] = r <=> t = s BY <2>1, <2>2
    <3> QED BY <1>2, <2>1, <2>2, <2>3, <2>4, <3>1, <3>2, <3>3, <3>4 DEF TxOK, Base
  <2> QED BY <2>1, <2>5, <2>6, <2>7, <2>8, <2>9 DEF StepOK, Local, RequestOK
<1> QED BY <1>1, <1>3, <1>4 DEF Bump

\* CreateSecretVersion adds the one row the bumped pointer will name.
LEMMA InsertVersionPreserves ==
    ASSUME NEW r \in Request, Local(r), InsertVersion(r)
    PROVE  StepOK(r)
<1>0. TypeOK /\ DBTypeOK /\ RequestOK(r) BY DEF Local, TypeOK
<1>1. pc[r] = "insertVersion" BY DEF InsertVersion
<1>2. /\ call[r] \in Call /\ call[r].op # "promote" /\ call[r].key \in Key
      /\ cur[r] \in Secret /\ sealed[r] \in Sealed
      /\ sealed[r].aad = SecretAAD(call[r].env, call[r].key)
      /\ call[r].op # "reveal"
      /\ call[r].op = "create" => call[r].expected = 0
  BY <1>0, <1>1 DEF RequestOK, CallOK, InCall
<1>3. CASE AbortTx(r, "conflict") BY <1>3, AbortPreserves DEF Outcomes, Local
<1>4. CASE /\ CreateSecretVersion(r, NewRow(r))
           /\ Goto(r, IF call[r].op = "create" THEN "bump" ELSE "commit")
           /\ UNCHANGED <<call, cur, sealed, seen, newVersion, outcome, view, audited>>
  <2> USE <1>4 DEF CreateSecretVersion, Goto
  <2> DEFINE row == NewRow(r)
  <2>1. CommentFor(call[r]) \in Comment
    BY <1>2 DEF CommentFor, Comment, Call
  <2>2. row \in VersionRow
    BY <2>1, <1>0, <1>2 DEF TypeOK, NewRow, VersionRow
  <2>3. /\ row.secret = cur[r] /\ row.version = newVersion[r] /\ row.sealed = sealed[r]
    BY DEF NewRow
  <2>20. row.comment.kind # "promoted" BY <1>2 DEF NewRow, CommentFor
  <2> HIDE DEF row
  <2>4. /\ pending[r] = {} /\ newVersion[r] = Base(cur[r]) + 1
        /\ dirty[cur[r]].current_version = IF call[r].op = "create" THEN 0 ELSE newVersion[r]
    BY <1>0, <1>1 DEF RequestOK, TxOK
  <2>5. pending'[r] = {row} BY <1>0, <2>4 DEF DBTypeOK, row
  <2>6. pc'[r] = IF call[r].op = "create" THEN "bump" ELSE "commit"
    BY <1>0 DEF TypeOK
  <2>7. UNCHANGED <<secrets, versions, lock, dirty, call, cur, sealed, newVersion>> OBVIOUS
  <2>8. Frame(r) BY <1>0 DEF Frame, TypeOK, DBTypeOK
  <2>9. Respects(r) BY <2>7 DEF Respects
  <2>10. TypeOK'
    <3>1. DBTypeOK' BY <1>0, <2>2 DEF DBTypeOK, row
    <3> QED BY <1>0, <3>1 DEF TypeOK, PCs, InTx
  <2>11. CallOK(r)' BY <1>2, <2>6, <2>7 DEF CallOK
  <2>12. Bound(r)' BY <1>0, <1>1, <2>7 DEF Bound, RequestOK, InCall
  <2>13. TxOK(r)'
    <3>1. Holding(r) /\ Holding(r)' BY <1>1, <2>6, <2>7 DEF Holding
    <3>2. Base(cur[r])' = Base(cur[r]) BY <2>7 DEF Base
    <3>3. HasRow(r)' BY <1>2, <2>3, <2>20, <2>4, <2>5, <2>7, <3>2 DEF HasRow, Base
    <3>4. TxOK(r) BY <1>0 DEF RequestOK
    <3> QED BY <1>1, <2>4, <2>6, <2>7, <3>1, <3>2, <3>3, <3>4 DEF TxOK, Base
  <2>14. Tables' BY <2>7, TablesStay DEF Local
  <2> QED BY <2>8, <2>9, <2>10, <2>11, <2>12, <2>13, <2>14 DEF StepOK, Local, RequestOK
<1> QED BY <1>3, <1>4 DEF InsertVersion

\* The version numbers of a secret's rows, with no case for a missing secret.
LEMMA HistoryUpToBase ==
    ASSUME VersionsContiguous, NEW s \in Secret
    PROVE  {v.version : v \in VersionsOf(s)} = 1..Base(s)
BY DEF VersionsContiguous, Base

\* Row s is ready to be published with the versions in `rows`: its image is one
\* version ahead of what is committed, and rows has that one version of it, sealed
\* for its identity.
Finished(s, rows) ==
    /\ IsLive(dirty[s]) /\ dirty[s].current_version = Base(s) + 1
    /\ secrets[s] # None => /\ secrets[s].env = dirty[s].env
                            /\ secrets[s].key = dirty[s].key
                            /\ ~secrets[s].deleted
    /\ \E v \in rows :
         /\ v.secret = s /\ v.version = Base(s) + 1
         /\ v.sealed.aad = SecretAAD(dirty[s].env, dirty[s].key)
         /\ \A w \in rows : w.secret = s => w = v

\* All rows the transaction has locked are, and it has inserted nothing else.
Ready(r) ==
    /\ \A s \in Secret : lock[s] = r => Finished(s, pending[r])
    /\ \A v \in pending[r] : lock[v.secret] = r

\* The rows it inserted continue the history: none is there already.
LEMMA RowsAreNew ==
    ASSUME TypeOK, Tables, NEW r \in Request, Ready(r), NEW v \in pending[r],
           NEW w \in versions, w.secret = v.secret
    PROVE  w.version # v.version
<1>1. v.secret \in Secret /\ lock[v.secret] = r BY DEF Ready, TypeOK, DBTypeOK, VersionRow
<1>2. v.version = Base(v.secret) + 1 BY <1>1 DEF Ready, Finished
<1>3. Base(v.secret) \in Nat BY <1>1 DEF Base, TypeOK, DBTypeOK, SecretRow
<1>4. w.version \in {x.version : x \in VersionsOf(v.secret)} BY DEF VersionsOf
<1>5. w.version \in 1..Base(v.secret) BY <1>1, <1>4, HistoryUpToBase DEF Tables
<1> QED BY <1>2, <1>3, <1>5

\* A commit publishes every bumped row together with the one version it counts.
LEMMA CommitTables ==
    ASSUME TypeOK, Tables, NEW r \in Request, Ready(r), CommitTx(r)
    PROVE  /\ DBTypeOK' /\ Respects(r) /\ Tables'
           /\ versions' = versions \cup pending[r] /\ pending'[r] = {}
           /\ \A s \in Secret : lock'[s] # r
<1>0. DBTypeOK BY DEF TypeOK
<1>1. /\ versions' = versions \cup pending[r] /\ pending'[r] = {}
      /\ \A t \in Secret : /\ secrets'[t] = IF lock[t] = r THEN dirty[t] ELSE secrets[t]
                           /\ lock'[t] = IF lock[t] = r THEN None ELSE lock[t]
                           /\ dirty'[t] = IF lock[t] = r THEN None ELSE dirty[t]
  BY <1>0 DEF CommitTx, ReleasedLocks, ReleasedImages, DBTypeOK
<1>2. DBTypeOK'
  BY <1>0 DEF DBTypeOK, CommitTx, ReleasedLocks, ReleasedImages
<1>3. ASSUME NEW s \in Secret, lock[s] = r
      PROVE  /\ dirty[s] # None /\ secrets'[s] = dirty[s]
             /\ dirty[s].current_version = Base(s) + 1 /\ Base(s) \in Nat
             /\ secrets[s] # None => /\ secrets[s].env = dirty[s].env
                                     /\ secrets[s].key = dirty[s].key
  BY <1>0, <1>1, <1>3 DEF Ready, Finished, IsLive, Base, DBTypeOK, SecretRow
<1>4. Respects(r) BY <1>1, <1>3, SecretDBAssumption DEF Respects
<1>5. LockOK' BY <1>1 DEF LockOK, Tables
<1>6. Uniq'
  <2>1. ASSUME NEW t \in Secret, NEW e \in Env, NEW k \in Key, Occ(t, e, k)'
        PROVE  Occ(t, e, k)
    BY <2>1, <1>1 DEF Occ, Occupies, IsLive
  <2> QED BY <2>1 DEF Uniq, Tables
<1>7. pending[r] \subseteq VersionRow /\ versions \subseteq VersionRow BY <1>0 DEF DBTypeOK
<1>8. ASSUME NEW s \in Secret
      PROVE  {v.version : v \in VersionsOf(s)} = 1..Base(s)
  BY HistoryUpToBase DEF Tables
<1>9. VersionsContiguous'
  <2>1. ASSUME NEW v \in pending[r], NEW w \in versions, w.secret = v.secret
        PROVE  w.version # v.version
    BY <2>1, RowsAreNew
  <2>2. \A v, w \in pending[r] : v.secret = w.secret => v = w
    BY <1>7 DEF Ready, Finished, VersionRow
  <2>3. \A v, w \in versions' : v.secret = w.secret /\ v.version = w.version => v = w
    BY <2>1, <2>2, <1>1 DEF Tables, VersionsContiguous
  <2>4. ASSUME NEW s \in Secret
        PROVE  {v.version : v \in VersionsOf(s)'} =
                 IF secrets'[s] = None THEN {} ELSE 1..secrets'[s].current_version
    <3>1. CASE lock[s] # r
      <4>1. VersionsOf(s)' = VersionsOf(s) BY <3>1, <1>1 DEF VersionsOf, Ready
      <4> QED BY <4>1, <3>1, <1>1 DEF Tables, VersionsContiguous
    <3>2. CASE lock[s] = r
      <4>1. PICK v \in pending[r] : /\ v.secret = s /\ v.version = Base(s) + 1
                                    /\ \A w \in pending[r] : w.secret = s => w = v
        BY <3>2 DEF Ready, Finished
      <4>2. VersionsOf(s)' = VersionsOf(s) \cup {v} BY <4>1, <1>1 DEF VersionsOf
      <4>3. {x.version : x \in VersionsOf(s)'} =
              {x.version : x \in VersionsOf(s)} \cup {v.version}
        BY <4>2
      <4>4. (1..Base(s)) \cup {Base(s) + 1} = 1..(Base(s) + 1) BY <3>2, <1>3
      <4> QED BY <3>2, <4>1, <4>3, <4>4, <1>3, <1>8
    <3> QED BY <3>1, <3>2
  <2> QED BY <2>3, <2>4 DEF VersionsContiguous, VersionsOf
<1>10. EveryVersionDecrypts'
  <2>1. ASSUME NEW w \in versions'
        PROVE  /\ secrets'[w.secret] # None
               /\ CanDecrypt(w.sealed, SecretAAD(secrets'[w.secret].env, secrets'[w.secret].key))
    <3>1. CASE w \in pending[r]
      <4>1. w.secret \in Secret /\ lock[w.secret] = r BY <3>1, <1>7 DEF Ready, VersionRow
      <4>2. w.sealed.aad = SecretAAD(dirty[w.secret].env, dirty[w.secret].key)
        BY <3>1, <4>1 DEF Ready, Finished
      <4> QED BY <4>1, <4>2, <1>3 DEF CanDecrypt
    <3>2. CASE w \in versions
      <4>1. /\ w.secret \in Secret /\ secrets[w.secret] # None
            /\ CanDecrypt(w.sealed, SecretAAD(secrets[w.secret].env, secrets[w.secret].key))
        BY <3>2, <1>7 DEF Tables, EveryVersionDecrypts, VersionRow
      <4> QED BY <4>1, <1>1, <1>3
    <3> QED BY <3>1, <3>2, <1>1
  <2> QED BY <2>1 DEF EveryVersionDecrypts, CanDecrypt, SecretAAD
<1>11. \A s \in Secret : lock'[s] # r BY <1>1, SecretDBAssumption
<1> QED BY <1>1, <1>2, <1>4, <1>5, <1>6, <1>9, <1>10, <1>11 DEF Tables

\* What a method has bumped and inserted when it commits.
LEMMA ReadyToCommit ==
    ASSUME NEW r \in Request, Local(r), pc[r] = "commit"
    PROVE  Ready(r)
<1> DEFINE s == cur[r]
<1>0. RequestOK(r) /\ Holding(r) BY DEF Local, Holding
<1>1. s \in Secret BY <1>0 DEF RequestOK, CallOK, InCall
<1>2. /\ \A t \in Secret : lock[t] = r <=> t = s
      /\ dirty[s] # None /\ dirty[s].env = call[r].env /\ dirty[s].key = call[r].key
      /\ ~dirty[s].deleted
      /\ call[r].op = "create" => secrets[s] = None
      /\ call[r].op # "create" => ~secrets[s].deleted
      /\ dirty[s].current_version = Base(s) + 1
      /\ HasRow(r)
  BY <1>0 DEF RequestOK, TxOK
<1>3. secrets[s] # None => secrets[s].env = call[r].env /\ secrets[s].key = call[r].key
  BY <1>0, <1>2 DEF RequestOK, Bound, InCall
<1>4. Finished(s, pending[r]) BY <1>2, <1>3 DEF Finished, HasRow, IsLive
<1> QED BY <1>1, <1>2, <1>4 DEF Ready, HasRow

\* The commit of Create, Update and Rollback.
LEMMA CommitPreserves ==
    ASSUME NEW r \in Request, Local(r), Commit(r)
    PROVE  StepOK(r)
<1> DEFINE s == cur[r]
<1>0. TypeOK /\ DBTypeOK /\ RequestOK(r) /\ Tables BY DEF Local, TypeOK
<1>1. pc[r] = "commit" BY DEF Commit
<1>2. /\ call[r] \in Call /\ call[r].op # "promote" /\ call[r].key \in Key
      /\ cur[r] \in Secret
      /\ call[r].op = "create" => call[r].expected = 0
      /\ call[r].op # "reveal"
  BY <1>0, <1>1 DEF RequestOK, CallOK, InCall
<1>3. /\ \A t \in Secret : lock[t] = r <=> t = s
      /\ dirty[s] # None /\ dirty[s].env = call[r].env /\ dirty[s].key = call[r].key
      /\ ~dirty[s].deleted
      /\ call[r].op = "create" => secrets[s] = None
      /\ call[r].op # "create" => ~secrets[s].deleted
      /\ dirty[s].current_version = Base(s) + 1
      /\ HasRow(r)
  <2>1. Holding(r) BY <1>1 DEF Holding
  <2> QED BY <1>0, <1>1, <2>1 DEF RequestOK, TxOK
<1>6. /\ DBTypeOK' /\ Respects(r) /\ Tables'
      /\ pending'[r] = {} /\ \A t \in Secret : lock'[t] # r
  BY <1>0, <1>1, ReadyToCommit, CommitTables DEF Commit
<1>7. secrets'[s] = dirty[s] /\ UNCHANGED <<call, cur, sealed, newVersion>>
  BY <1>2, <1>3 DEF Commit, CommitTx
<1>8. pc'[r] = "record" BY <1>0 DEF Commit, Goto, TypeOK
<1>9. Frame(r) BY <1>0 DEF Frame, Commit, CommitTx, Goto, TypeOK, DBTypeOK
<1>10. TypeOK' BY <1>0, <1>6 DEF TypeOK, PCs, Commit, Goto
<1>11. CallOK(r)' BY <1>2, <1>7, <1>8 DEF CallOK
<1>12. Bound(r)' BY <1>2, <1>3, <1>7 DEF Bound
<1>13. TxOK(r)' BY <1>6, <1>8 DEF TxOK, Holding
<1> QED BY <1>6, <1>9, <1>10, <1>11, <1>12, <1>13 DEF StepOK, Local, RequestOK

\* SoftDeleteSecret never marks a row that another transaction has locked.
LEMMA DeleteRowPreserves ==
    ASSUME NEW r \in Request, Local(r), DeleteRow(r)
    PROVE  StepOK(r)
<1> DEFINE s == cur[r]
<1>0. TypeOK /\ DBTypeOK /\ RequestOK(r) BY DEF Local, TypeOK
<1>1. pc[r] = "softDelete" BY DEF DeleteRow
<1>2. /\ call[r] \in Call /\ call[r].op # "promote" /\ call[r].op # "create"
      /\ call[r].key \in Key /\ cur[r] \in Secret
      /\ pending[r] = {} /\ \A t \in Secret : lock[t] # r
  BY <1>0, <1>1 DEF RequestOK, CallOK, InCall, TxOK, Holding
<1>3. /\ UNCHANGED <<versions, lock, dirty, pending, call, cur, sealed, newVersion>>
      /\ \A t \in Secret : secrets'[t] =
            IF t = s /\ Live(s) THEN [secrets[s] EXCEPT !.deleted = TRUE] ELSE secrets[t]
  BY <1>0, <1>2 DEF DeleteRow, SoftDeleteSecret, DBTypeOK
<1>4. Live(s) => /\ lock[s] = None
                 /\ secrets[s] # None
                 /\ secrets[s] \in SecretRow
  BY <1>0, <1>2 DEF DeleteRow, SoftDeleteSecret, LockFree, Live, IsLive, DBTypeOK
<1>5. \A t \in Secret : secrets[t] # None =>
         /\ secrets'[t] # None /\ secrets'[t] \in SecretRow
         /\ secrets'[t].env = secrets[t].env /\ secrets'[t].key = secrets[t].key
         /\ secrets'[t].current_version = secrets[t].current_version
         /\ secrets[t].deleted => secrets'[t].deleted
  <2>1. ASSUME NEW t \in Secret, secrets[t] # None
        PROVE  /\ secrets'[t] \in SecretRow
               /\ secrets'[t].env = secrets[t].env /\ secrets'[t].key = secrets[t].key
               /\ secrets'[t].current_version = secrets[t].current_version
               /\ secrets[t].deleted => secrets'[t].deleted
    <3>1. secrets[t] \in SecretRow BY <2>1, <1>0 DEF DBTypeOK
    <3>2. secrets'[t] = secrets[t] \/ secrets'[t] = [secrets[t] EXCEPT !.deleted = TRUE]
      BY <1>3
    <3> QED BY ONLY <3>1, <3>2 DEF SecretRow
  <2> QED BY <2>1, SecretDBAssumption
<1>6. \A t \in Secret : secrets[t] = None => secrets'[t] = None BY <1>3, <1>4
<1>7. pc'[r] = "record" BY <1>0 DEF DeleteRow, Goto, TypeOK
<1>8. Frame(r)
  BY <1>0 DEF Frame, DeleteRow, SoftDeleteSecret, Goto, TypeOK, DBTypeOK
<1>9. Respects(r) BY <1>3, <1>4, <1>5, SecretDBAssumption DEF Respects
<1>10. TypeOK'
  <2>1. secrets' \in [Secret -> SecretRow \cup {None}]
    <3>1. \A t \in Secret : secrets'[t] \in SecretRow \cup {None} BY <1>5, <1>6
    <3>2. secrets' = [t \in Secret |-> secrets'[t]]
      BY <1>0 DEF DeleteRow, SoftDeleteSecret, DBTypeOK
    <3> QED BY <3>1, <3>2
  <2>2. DBTypeOK' BY <1>0, <1>3, <2>1 DEF DBTypeOK
  <2> QED BY <1>0, <2>2 DEF TypeOK, PCs, DeleteRow, Goto
<1>11. RequestOK(r)'
  <2>1. CallOK(r)'
    <3>1. call[r].op # "reveal" BY <1>0, <1>1 DEF RequestOK, CallOK, InCall
    <3> QED BY <3>1, <1>2, <1>3, <1>7 DEF CallOK
  <2>2. Bound(r)' BY <1>0, <1>1, <1>2, <1>3, <1>5 DEF RequestOK, Bound, InCall
  <2>3. TxOK(r)' BY <1>2, <1>3, <1>7 DEF TxOK, Holding
  <2> QED BY <2>1, <2>2, <2>3 DEF RequestOK
<1>12. LockOK' BY <1>3 DEF LockOK, Local, Tables
<1>13. Uniq'
  <2>1. ASSUME NEW t \in Secret, NEW e \in Env, NEW k \in Key, Occ(t, e, k)'
        PROVE  Occ(t, e, k)
    BY <2>1, <1>3, <1>5, <1>6 DEF Occ, Occupies, IsLive
  <2> QED BY <2>1 DEF Uniq, Local, Tables
<1>14. VersionsContiguous'
  BY <1>3, <1>5, <1>6 DEF Local, Tables, VersionsContiguous, VersionsOf
<1>15. EveryVersionDecrypts'
  BY <1>0, <1>3, <1>5
     DEF Local, Tables, EveryVersionDecrypts, CanDecrypt, SecretAAD, DBTypeOK, VersionRow
<1> QED BY <1>8, <1>9, <1>10, <1>11, <1>12, <1>13, <1>14, <1>15
   DEF StepOK, Local, Tables

-----------------------------------------------------------------------------
(* The invariant holds at the start and in every step *)

\* The seeded tables satisfy the invariant: each secret has its version 1.
LEMMA InitEstablishes == Init => IInv
<1> SUFFICES ASSUME Init PROVE IInv OBVIOUS
<1>1. PICK at \in [Seeded -> Env \X Key], value \in [Seeded -> Value] :
        /\ \A s, t \in Seeded : at[s] = at[t] => s = t
        /\ secrets = [s \in Secret |->
              IF s \in Seeded
              THEN [env |-> at[s][1], key |-> at[s][2],
                    current_version |-> 1, deleted |-> FALSE]
              ELSE None]
        /\ versions = {[secret |-> s, version |-> 1,
                        sealed |-> Encrypt(value[s], SecretAAD(at[s][1], at[s][2])),
                        comment |-> [kind |-> "created"]] :
                         s \in Seeded}
        /\ lock = [s \in Secret |-> None]
        /\ dirty = [s \in Secret |-> None]
        /\ pending = [r \in Request |-> {}]
  BY DEF Init, DBInit
<1> DEFINE row(s) == [env |-> at[s][1], key |-> at[s][2],
                      current_version |-> 1, deleted |-> FALSE]
           ver(s) == [secret |-> s, version |-> 1,
                      sealed |-> Encrypt(value[s], SecretAAD(at[s][1], at[s][2])),
                      comment |-> [kind |-> "created"]]
<1>2. \A s \in Seeded : /\ row(s) \in SecretRow
                        /\ at[s][1] \in Env /\ at[s][2] \in Key
                        /\ at[s] = <<at[s][1], at[s][2]>>
  BY DEF SecretRow
<1>3. \A s \in Seeded : ver(s) \in VersionRow
  <2>1. [kind |-> "created"] \in Comment BY DEF Comment
  <2>2. \A s \in Seeded : Encrypt(value[s], SecretAAD(at[s][1], at[s][2])) \in Sealed
    BY <1>2 DEF Encrypt, SecretAAD, Sealed
  <2> QED BY <2>1, <2>2, SeededAssumption DEF VersionRow
<1>4. DBTypeOK
  <2>1. secrets \in [Secret -> SecretRow \cup {None}] BY <1>1, <1>2
  <2>2. versions \subseteq VersionRow BY <1>1, <1>3
  <2> QED BY <1>1, <2>1, <2>2 DEF DBTypeOK
<1>5. TypeOK BY <1>4 DEF Init, ServiceInit, TypeOK, PCs, Outcomes, View
<1>6. \A r \in Request : RequestOK(r)
  <2>1. ASSUME NEW r \in Request PROVE RequestOK(r)
    <3>1. pc[r] = "new" BY DEF Init, ServiceInit
    <3>2. pending[r] = {} /\ \A s \in Secret : lock[s] # r
      BY <1>1, SecretDBAssumption
    <3> QED BY <3>1, <3>2 DEF RequestOK, CallOK, Bound, TxOK, Holding, InCall
  <2> QED BY <2>1
<1>7. ASSUME NEW s \in Secret
      PROVE  /\ s \in Seeded => /\ secrets[s] # None
                                /\ secrets[s].env = at[s][1] /\ secrets[s].key = at[s][2]
                                /\ secrets[s].current_version = 1
             /\ s \notin Seeded => secrets[s] = None
  <2>1. s \notin Seeded => secrets[s] = None BY <1>1
  <2>2. s \in Seeded => secrets[s] = row(s) BY <1>1
  <2>3. s \in Seeded => row(s) # None
    <3>1. s \in Seeded => row(s) \in SecretRow BY <1>2
    <3> HIDE DEF row
    <3> QED BY <3>1, SecretDBAssumption
  <2> QED BY <2>1, <2>2, <2>3
<1>8. \A v \in versions : \E s \in Seeded : v = ver(s) BY <1>1
<1>9. Tables
  <2>1. LockOK BY <1>1 DEF LockOK
  <2>2. Uniq
    <3>1. ASSUME NEW s \in Secret, NEW e \in Env, NEW k \in Key, Occ(s, e, k)
          PROVE  s \in Seeded /\ at[s] = <<e, k>>
      <4>1. dirty[s] = None BY <1>1
      <4>2. secrets[s] # None /\ secrets[s].env = e /\ secrets[s].key = k
        BY <4>1, <3>1 DEF Occ, Occupies, IsLive
      <4> QED BY <4>2, <1>7, <1>2
    <3> QED BY <1>1, <3>1 DEF Uniq
  <2>3. VersionsContiguous
    <3>1. \A v, w \in versions : v.secret = w.secret /\ v.version = w.version => v = w
      BY <1>1
    <3>2. ASSUME NEW s \in Secret
          PROVE  {v.version : v \in VersionsOf(s)} =
                   IF secrets[s] = None THEN {} ELSE 1..secrets[s].current_version
      <4>1. CASE s \notin Seeded
        <5>1. VersionsOf(s) = {} BY <1>1, <4>1 DEF VersionsOf
        <5> QED BY <5>1, <4>1, <1>7
      <4>2. CASE s \in Seeded
        <5>1. VersionsOf(s) = {ver(s)} BY <1>1, <4>2 DEF VersionsOf
        <5>2. {v.version : v \in VersionsOf(s)} = {1} BY <5>1
        <5>3. secrets[s] # None /\ secrets[s].current_version = 1 BY <1>7, <4>2
        <5>4. 1..1 = {1} OBVIOUS
        <5> QED BY <5>2, <5>3, <5>4
      <4> QED BY <4>1, <4>2
    <3> QED BY <3>1, <3>2 DEF VersionsContiguous
  <2>4. EveryVersionDecrypts
    <3>1. ASSUME NEW v \in versions
          PROVE  /\ secrets[v.secret] # None
                 /\ CanDecrypt(v.sealed, SecretAAD(secrets[v.secret].env, secrets[v.secret].key))
      <4>1. PICK s \in Seeded : v = ver(s) BY <1>8
      <4>2. v.secret = s /\ v.sealed.aad = SecretAAD(at[s][1], at[s][2])
        BY <4>1 DEF Encrypt
      <4>3. s \in Secret BY SeededAssumption
      <4> QED BY <4>2, <4>3, <1>7 DEF CanDecrypt
    <3> QED BY <3>1 DEF EveryVersionDecrypts
  <2> QED BY <2>1, <2>2, <2>3, <2>4 DEF Tables
<1> QED BY <1>5, <1>6, <1>9 DEF IInv

\* Every statement of an admitted request keeps the invariant.
LEMMA StatementPreserves ==
    ASSUME NEW r \in Request, Local(r), Step(r)
    PROVE  StepOK(r)
<1>0. TypeOK /\ DBTypeOK BY DEF Local, TypeOK
<1>1. CASE RevealRead(r)
  <2>1. CASE Refuse(r, "not_found")
    BY <1>1, <2>1, RefusePreserves DEF RevealRead, Outcomes, Holding
  <2>2. CASE \E row \in GetCurrentSecretVersion(cur[r]) : DecryptRow(r, row)
    <3>1. PICK row \in versions : DecryptRow(r, row)
      BY <2>2 DEF GetCurrentSecretVersion, VersionsOf
    <3> QED BY <3>1, <1>1, DecryptRowPreserves DEF RevealRead
  <2> QED BY <1>1, <2>1, <2>2 DEF RevealRead
<1>2. CASE RevealVersionRead(r)
  <2>1. CASE Refuse(r, "not_found")
    BY <1>2, <2>1, RefusePreserves DEF RevealVersionRead, Outcomes, Holding
  <2>2. CASE \E row \in GetSecretVersion(cur[r], call[r].target) : DecryptRow(r, row)
    <3>1. PICK row \in versions : DecryptRow(r, row) BY <2>2 DEF GetSecretVersion
    <3> QED BY <3>1, <1>2, DecryptRowPreserves DEF RevealVersionRead
  <2> QED BY <1>2, <2>1, <2>2 DEF RevealVersionRead
<1>3. CASE DescribeRow(r)
  BY <1>3, RefusePreserves DEF DescribeRow, Outcomes, Holding
<1> QED BY <1>1, <1>2, <1>3, CreateInsertSecretPreserves, RollbackReadTargetPreserves,
        DeleteRowPreserves, BumpPreserves, InsertVersionPreserves, CommitPreserves,
        RecordAndAnswerPreserves DEF Step

\* So does every step, the death of a request at any statement included.
LEMMA NextPreserves == IInv /\ [Next]_vars => IInv'
<1> SUFFICES ASSUME IInv, [Next]_vars PROVE IInv' OBVIOUS
<1>1. CASE UNCHANGED vars
  BY <1>1
     DEF vars, dbVars, callVars, IInv, TypeOK, DBTypeOK, RequestOK, CallOK, Bound, TxOK, InCall,
     Holding, HasRow, Base, Tables, LockOK, Uniq, Occ, Occupies, IsLive, VersionsContiguous,
     VersionsOf, EveryVersionDecrypts
<1>2. ASSUME NEW r \in Request, Start(r) \/ Step(r) \/ Fail(r) PROVE IInv'
  <2>1. Local(r) BY DEF IInv, Local
  <2>2. CASE Fail(r)
    BY <2>2, AbortPreserves, StepPreserves DEF IInv, Fail, Outcomes
  <2> QED BY <1>2, <2>1, <2>2, StartPreserves, StatementPreserves, StepPreserves
<1> QED BY <1>1, <1>2 DEF Next, Quiet

\* The inductive invariant holds of every reachable state of the service.
THEOREM InvariantHolds == Spec => []IInv
BY InitEstablishes, NextPreserves, PTL DEF Spec

\* Every variable keeps its type: no statement uses a local that was not set.
THEOREM TypeCorrect == Spec => []TypeOK
<1>1. IInv => TypeOK BY DEF IInv
<1> QED BY <1>1, InvariantHolds, PTL

\* The history of every secret is 1..current_version, each version once,
\* whatever requests race on BumpSecretVersion and CreateSecretVersion and
\* wherever they die.
THEOREM HistoryIsContiguous == Spec => []VersionsContiguous
<1>1. IInv => VersionsContiguous BY DEF IInv, Tables
<1> QED BY <1>1, InvariantHolds, PTL

\* Every stored ciphertext was sealed for the secret it is stored with, so
\* decrypt never fails on associated data.
THEOREM StoredVersionsDecrypt == Spec => []EveryVersionDecrypts
<1>1. IInv => EveryVersionDecrypts BY DEF IInv, Tables
<1> QED BY <1>1, InvariantHolds, PTL

\* Two live secrets never share a key, although Create checks for the key
\* outside its transaction.
THEOREM KeysAreUnique == Spec => []OneLiveSecretPerKey
<1>1. IInv => OneLiveSecretPerKey
  <2> SUFFICES ASSUME IInv, NEW s \in Secret, NEW t \in Secret, Live(s), Live(t),
                      secrets[s].env = secrets[t].env, secrets[s].key = secrets[t].key
               PROVE  s = t
    BY DEF OneLiveSecretPerKey
  <2>1. secrets[s].env \in Env /\ secrets[s].key \in Key
    BY DEF IInv, TypeOK, DBTypeOK, SecretRow, Live, IsLive
  <2> QED BY <2>1 DEF IInv, Tables, Uniq, Occ, Occupies, Live
<1> QED BY <1>1, InvariantHolds, PTL

\* A step that changes no committed row adds nothing to history.
LEMMA StillnessAppends ==
    ASSUME TypeOK, UNCHANGED <<secrets, versions>>
    PROVE  AppendOnlyStep
<1>1. \A s \in Secret : secrets[s] # None => secrets[s].current_version \in Nat
  BY DEF TypeOK, DBTypeOK, SecretRow
<1> QED BY <1>1 DEF AppendOnlyStep, VersionsOf

\* A commit adds one version to each row it has locked, and none was deleted.
LEMMA CommitAppends ==
    ASSUME TypeOK, NEW r \in Request, Ready(r), CommitTx(r)
    PROVE  AppendOnlyStep
<1>1. /\ versions' = versions \cup pending[r]
      /\ \A s \in Secret : secrets'[s] = IF lock[s] = r THEN dirty[s] ELSE secrets[s]
  BY DEF CommitTx
<1>2. ASSUME NEW s \in Secret, lock[s] = r, secrets[s] # None
      PROVE  /\ dirty[s] # None /\ dirty[s].env = secrets[s].env
             /\ dirty[s].key = secrets[s].key /\ ~secrets[s].deleted
             /\ dirty[s].current_version = secrets[s].current_version + 1
  BY <1>2 DEF Ready, Finished, IsLive, Base
<1>3. ASSUME NEW s \in Secret, secrets[s] # None
      PROVE  /\ secrets'[s] # None
             /\ secrets'[s].env = secrets[s].env
             /\ secrets'[s].key = secrets[s].key
             /\ secrets'[s].current_version >= secrets[s].current_version
  <2>1. secrets[s].current_version \in Nat BY <1>3 DEF TypeOK, DBTypeOK, SecretRow
  <2> QED BY <2>1, <1>1, <1>2, <1>3
<1>4. ASSUME NEW s \in Secret, secrets[s] # None, secrets[s].deleted
      PROVE  secrets'[s] = secrets[s] /\ VersionsOf(s)' = VersionsOf(s)
  <2>1. lock[s] # r BY <1>2, <1>4
  <2> QED BY <2>1, <1>1 DEF VersionsOf, Ready
<1> QED BY <1>1, <1>3, <1>4 DEF AppendOnlyStep

\* A deletion marks a live row and touches nothing else.
LEMMA DeletionAppends ==
    ASSUME TypeOK, NEW r \in Request, NEW d \in Secret, SoftDeleteSecret(r, d)
    PROVE  AppendOnlyStep
<1>1. /\ versions' = versions
      /\ \A s \in Secret : secrets'[s] =
            IF s = d /\ Live(s) THEN [secrets[s] EXCEPT !.deleted = TRUE] ELSE secrets[s]
  BY DEF SoftDeleteSecret, TypeOK, DBTypeOK
<1>2. ASSUME NEW s \in Secret, secrets[s] # None
      PROVE  /\ secrets'[s] \in SecretRow
             /\ secrets'[s].env = secrets[s].env
             /\ secrets'[s].key = secrets[s].key
             /\ secrets'[s].current_version >= secrets[s].current_version
             /\ secrets[s].deleted => secrets'[s] = secrets[s]
  <2>1. secrets[s] \in SecretRow BY <1>2 DEF TypeOK, DBTypeOK
  <2>2. CASE s = d /\ Live(s)
    <3>1. ~secrets[s].deleted BY <2>2 DEF Live, IsLive
    <3>2. secrets'[s] = [secrets[s] EXCEPT !.deleted = TRUE] BY <2>2, <1>1
    <3>3. /\ secrets'[s] \in SecretRow
          /\ secrets'[s].env = secrets[s].env
          /\ secrets'[s].key = secrets[s].key
          /\ secrets'[s].current_version = secrets[s].current_version
          /\ secrets[s].current_version \in Nat
      BY <2>1, <3>2 DEF SecretRow
    <3> QED BY <3>1, <3>3
  <2>3. CASE ~(s = d /\ Live(s))
    <3>1. secrets'[s] = secrets[s] BY <2>3, <1>1
    <3> QED BY <2>1, <3>1 DEF SecretRow
  <2> QED BY <2>2, <2>3
<1> QED BY <1>1, <1>2, SecretDBAssumption DEF AppendOnlyStep, VersionsOf

\* Of the statements of a method only a commit and a deletion change what is
\* stored.
LEMMA OnlyTwoStatementsStore ==
    ASSUME NEW r \in Request, Start(r) \/ Step(r) \/ Fail(r), ~Commit(r), ~DeleteRow(r)
    PROVE  UNCHANGED <<secrets, versions>>
<1>1. ASSUME NEW x, Refuse(r, x) \/ AbortTx(r, x) PROVE UNCHANGED <<secrets, versions>>
  BY <1>1 DEF Refuse, AbortTx, RollbackTx, dbVars
<1>2. CASE Start(r)
  <2>1. ASSUME NEW op, NEW u, NEW s, NEW expected, NEW target, NEW basis, NEW label,
               GetSecret(r, op, u, s, expected, target, basis, label)
        PROVE  UNCHANGED <<secrets, versions>>
    BY <2>1 DEF GetSecret, dbVars
  <2> QED BY <1>1, <1>2, <2>1 DEF Start, CreateStart, SecretRefused, UpdateStart,
             RollbackStart, DescribeStart, DeleteStart, RevealStart,
             RevealVersionStart, dbVars
<1>3. CASE Step(r)
  BY <1>1, <1>3
     DEF Step, DescribeRow, CreateInsertSecret, InsertSecret, CreateSecret, RollbackReadTarget,
         Bump, BumpSecretVersion, InsertVersion, CreateSecretVersion, RevealRead,
         RevealVersionRead, DecryptRow, RecordAndAnswer, dbVars
<1>4. CASE Fail(r) BY <1>1, <1>4 DEF Fail
<1> QED BY <1>2, <1>3, <1>4

\* A method only ever adds to what is stored.
LEMMA MethodsAppend ==
    ASSUME NEW r \in Request, Local(r), Start(r) \/ Step(r) \/ Fail(r)
    PROVE  AppendOnlyStep
<1>1. TypeOK /\ RequestOK(r) BY DEF Local
<1>2. CASE Commit(r) BY <1>1, <1>2, ReadyToCommit, CommitAppends DEF Commit
<1>3. CASE DeleteRow(r)
  <2>1. cur[r] \in Secret BY <1>1, <1>3 DEF RequestOK, CallOK, InCall, DeleteRow
  <2> QED BY <1>1, <1>3, <2>1, DeletionAppends DEF DeleteRow
<1>4. CASE ~Commit(r) /\ ~DeleteRow(r)
  BY <1>1, <1>4, OnlyTwoStatementsStore, StillnessAppends
<1> QED BY <1>2, <1>3, <1>4

\* So does every step of the service.
LEMMA StepsAppend ==
    ASSUME IInv, [Next]_vars
    PROVE  AppendOnlyStep
<1>1. TypeOK /\ \A r \in Request : Local(r) BY DEF IInv, Local
<1>2. CASE UNCHANGED vars BY <1>1, <1>2, StillnessAppends DEF vars, dbVars
<1> QED BY <1>1, <1>2, MethodsAppend DEF Next, Quiet

\* No step of any request rewrites or removes history, or revives or extends a
\* deleted secret.
THEOREM HistoryOnlyGrows == Spec => HistoryAppendOnly
<1>1. IInv /\ [Next]_vars => [AppendOnlyStep]_vars BY StepsAppend
<1> QED BY <1>1, InvariantHolds, PTL DEF Spec, HistoryAppendOnly
-----------------------------------------------------------------------------
(* What requests remember: overwriting, rolling back and reporting          *)
(*                                                                         *)
(* Three promises compare what a request does now with what it, or its      *)
(* user, read earlier.  KInv says what that knowledge is worth at each      *)
(* statement.  It speaks of the request's own locals and of facts that can  *)
(* only become truer as history grows, so no other request can spoil it.    *)

Writes == {"create", "update", "rollback"}

\* The statements belong to the method that runs.
OnItsPath(r) == InCall(r) =>
    /\ pc[r] \in {"insertSecret"} \cup InTx => call[r].op \in Writes
    /\ pc[r] = "softDelete" => call[r].op = "delete"
    /\ pc[r] = "getCurrent" => call[r].op = "reveal"
    /\ pc[r] = "record" => call[r].op # "describe"

\* The value a checked edit is based on is a version no older than the one it
\* expects; once the bump has matched, that is the version it writes after.
BasisOK(r) == (InCall(r) /\ call[r].op = "update" /\ call[r].expected > 0) =>
    /\ \E v \in VersionsOf(cur[r]) :
          v.version >= call[r].expected /\ v.sealed.value = call[r].basis
    /\ pc[r] \in {"insertVersion", "commit"} =>
          newVersion[r] = call[r].expected + 1

\* What a rollback is about to write is what the target version holds.
CopyOK(r) == (pc[r] \in InTx /\ call[r].op = "rollback") =>
    \E w \in GetSecretVersion(cur[r], call[r].target) : w.sealed = sealed[r]

\* The version inserted is the one the locals describe.
InsertOK(r) == (pc[r] = "commit" \/ (pc[r] = "bump" /\ call[r].op = "create")) =>
    pending[r] = {NewRow(r)}

\* The value Reveal reads is no older than the row it read before.
ReadOK(r) ==
    /\ pc[r] = "getCurrent" => seen[r] <= Base(cur[r])
    /\ (pc[r] = "record" /\ call[r].op = "reveal") => seen[r] <= newVersion[r]

\* What the event about to be recorded says has happened.
DoneOK(r) == pc[r] = "record" =>
    /\ call[r].op \in Writes => NewRow(r) \in versions
    /\ call[r].op = "delete" => secrets[cur[r]].deleted
    /\ call[r].op \in {"reveal", "revealVersion"} =>
         \E v \in GetSecretVersion(cur[r], newVersion[r]) : v.sealed = sealed[r]

Knows(r) ==
    /\ OnItsPath(r) /\ BasisOK(r) /\ CopyOK(r)
    /\ InsertOK(r) /\ ReadOK(r) /\ DoneOK(r)

\* A form shows the value of its version or of a later one, which Reveal read
\* after the row.
ViewsOK == \A u \in User : view[u].secret # None =>
    \E v \in VersionsOf(view[u].secret) :
        v.version >= view[u].version /\ v.sealed.value = view[u].value

\* What an event says is so, and stays so: a deletion names a row of the table.
EventOK(e) ==
    /\ e.action = "deleted" =>
         e.secret \in Secret /\ secrets[e.secret] # None /\ secrets[e.secret].deleted
    /\ e.action = "read" => GetSecretVersion(e.secret, e.version) # {}
    /\ e.action \in DOMAIN KindOf =>
         \E v \in GetSecretVersion(e.secret, e.version) : v.comment.kind = KindOf[e.action]

\* What was shown, rolled back and reported so far is so.
RecordsOK ==
    /\ ViewsOK /\ RollbackRestores
    /\ \A e \in audited : EventOK(e)

\* The second inductive invariant, relative to IInv.
KInv == (\A r \in Request : Knows(r)) /\ RecordsOK

-----------------------------------------------------------------------------

\* The locals of a request, the rows its transaction inserted and its answer.
SameLocals(q) ==
    /\ pc'[q] = pc[q] /\ call'[q] = call[q] /\ cur'[q] = cur[q]
    /\ sealed'[q] = sealed[q] /\ seen'[q] = seen[q]
    /\ newVersion'[q] = newVersion[q] /\ pending'[q] = pending[q]
    /\ outcome'[q] = outcome[q]

\* A step of one request leaves the locals of all others alone.
LEMMA OthersKeepTheirLocals ==
    ASSUME TypeOK, NEW r \in Request, Start(r) \/ Step(r) \/ Fail(r),
           NEW q \in Request \ {r}
    PROVE  SameLocals(q)
<1>0. TypeOK /\ DBTypeOK BY DEF TypeOK
<1> USE DEF SameLocals
<1>1. ASSUME NEW x, Refuse(r, x) PROVE SameLocals(q)
  BY <1>0, <1>1 DEF Refuse, Answer, Goto, TypeOK, dbVars
<1>2. ASSUME NEW x, AbortTx(r, x) PROVE SameLocals(q)
  BY <1>0, <1>2 DEF AbortTx, RollbackTx, Answer, Goto, TypeOK, DBTypeOK
<1>3. CASE Start(r)
  <2>1. ASSUME NEW op, NEW u, NEW s, NEW expected, NEW target, NEW basis, NEW label,
               NEW x, GetSecret(r, op, u, s, expected, target, basis, label),
               sealed' = [sealed EXCEPT ![r] = x]
        PROVE  SameLocals(q)
    BY <1>0, <2>1 DEF GetSecret, Goto, TypeOK, dbVars
  <2>2. ASSUME NEW op, NEW u, NEW s, NEW expected, NEW target, NEW basis, NEW label,
               GetSecret(r, op, u, s, expected, target, basis, label), UNCHANGED sealed
        PROVE  SameLocals(q)
    BY <1>0, <2>2 DEF GetSecret, Goto, TypeOK, dbVars
  <2>3. ASSUME NEW u, NEW e, NEW k, NEW value, CreateStart(r, u, e, k, value)
        PROVE  SameLocals(q)
    BY <2>3, <1>0, <1>1 DEF CreateStart, Goto, TypeOK, dbVars
  <2>4. ASSUME NEW u, NEW s, SecretRefused(r, u, s) PROVE SameLocals(q)
    BY <2>4, <1>1 DEF SecretRefused
  <2>5. ASSUME NEW u, NEW s,
               \/ \E value \in Value : UpdateStart(r, u, s, value)
               \/ DescribeStart(r, u, s)
               \/ \E target \in Nameable(s) : RollbackStart(r, u, s, target)
               \/ DeleteStart(r, u, s)
               \/ RevealStart(r, u, s)
               \/ \E target \in Nameable(s) : RevealVersionStart(r, u, s, target)
        PROVE  SameLocals(q)
    BY <2>5, <1>1, <2>1, <2>2
       DEF UpdateStart, DescribeStart, RollbackStart, DeleteStart, RevealStart, RevealVersionStart
  <2> QED BY <1>3, <2>3, <2>4, <2>5 DEF Start
<1>4. CASE Step(r)
  <2>1. CASE CreateInsertSecret(r)
    BY <2>1, <1>0, <1>2
       DEF CreateInsertSecret, InsertSecret, CreateSecret, Goto, TypeOK
  <2>2. CASE RollbackReadTarget(r)
    BY <2>2, <1>0, <1>1 DEF RollbackReadTarget, Goto, TypeOK, dbVars
  <2>3. CASE DescribeRow(r) BY <2>3, <1>1 DEF DescribeRow
  <2>4. CASE DeleteRow(r)
    BY <2>4, <1>0 DEF DeleteRow, SoftDeleteSecret, Goto, TypeOK
  <2>5. CASE Bump(r)
    BY <2>5, <1>0, <1>2 DEF Bump, BumpSecretVersion, Goto, TypeOK
  <2>6. CASE InsertVersion(r)
    BY <2>6, <1>0, <1>2 DEF InsertVersion, CreateSecretVersion, Goto, TypeOK, DBTypeOK
  <2>7. CASE Commit(r)
    BY <2>7, <1>0 DEF Commit, CommitTx, Goto, TypeOK, DBTypeOK
  <2>8. ASSUME NEW row, DecryptRow(r, row) PROVE SameLocals(q)
    BY <2>8, <1>0, <1>1 DEF DecryptRow, Goto, TypeOK, dbVars
  <2>9. CASE RevealRead(r) BY <2>9, <2>8, <1>1 DEF RevealRead
  <2>10. CASE RevealVersionRead(r) BY <2>10, <2>8, <1>1 DEF RevealVersionRead
  <2>11. CASE RecordAndAnswer(r)
    BY <2>11, <1>0 DEF RecordAndAnswer, Answer, Goto, TypeOK, dbVars
  <2> QED BY <1>4, <2>1, <2>2, <2>3, <2>4, <2>5, <2>6, <2>7, <2>9, <2>10, <2>11 DEF Step
<1>5. CASE Fail(r) BY <1>5, <1>2 DEF Fail
<1> QED BY <1>3, <1>4, <1>5

\* What a request knows survives any step that leaves its locals alone and
\* only adds to history.
LEMMA KnowledgeLasts ==
    ASSUME TypeOK, TypeOK', NEW q \in Request, SameLocals(q), AppendOnlyStep,
           RequestOK(q), Knows(q)
    PROVE  Knows(q)'
<1> USE DEF SameLocals
<1>1. versions \subseteq versions' BY DEF AppendOnlyStep
<1>2. \A s \in Secret : \A n : GetSecretVersion(s, n) \subseteq GetSecretVersion(s, n)'
  BY <1>1 DEF GetSecretVersion
<1>3. \A s : VersionsOf(s) \subseteq VersionsOf(s)' BY <1>1 DEF VersionsOf
<1>4. OnItsPath(q)' BY DEF Knows, OnItsPath, InCall
<1>5. BasisOK(q)' BY <1>1 DEF Knows, BasisOK, InCall, VersionsOf
<1>6. CopyOK(q)' BY <1>1 DEF Knows, CopyOK, GetSecretVersion
<1>7. InsertOK(q)' BY DEF Knows, InsertOK, NewRow, CommentFor
<1>8. CallOK(q) /\ Bound(q) BY DEF RequestOK
<1>9. ReadOK(q)'
  <2>1. CASE pc[q] = "getCurrent"
    <3>1. cur[q] \in Secret /\ call[q].op = "reveal"
      BY <2>1, <1>8 DEF CallOK, InCall, Knows, OnItsPath
    <3>2. secrets[cur[q]] # None BY <2>1, <3>1, <1>8 DEF Bound, InCall
    <3>3. /\ secrets'[cur[q]] # None
          /\ secrets'[cur[q]].current_version >= secrets[cur[q]].current_version
      BY <3>1, <3>2 DEF AppendOnlyStep
    <3>4. seen[q] \in Nat /\ secrets[cur[q]].current_version \in Nat
      BY <3>1, <3>2 DEF TypeOK, DBTypeOK, SecretRow
    <3>5. secrets'[cur[q]].current_version \in Nat
      BY <3>1, <3>3 DEF TypeOK, DBTypeOK, SecretRow
    <3>6. seen[q] <= secrets'[cur[q]].current_version
      BY <2>1, <3>2, <3>3, <3>4, <3>5 DEF Knows, ReadOK, Base
    <3> QED BY <2>1, <3>3, <3>6 DEF ReadOK, Base
  <2>2. CASE pc[q] # "getCurrent" BY <2>2 DEF Knows, ReadOK
  <2> QED BY <2>1, <2>2
<1>10. DoneOK(q)'
  <2>1. ASSUME pc[q] = "record" PROVE DoneOK(q)'
    <3>1. cur[q] \in Secret BY <2>1, <1>8 DEF CallOK, InCall
    <3>2. NewRow(q)' = NewRow(q) BY DEF NewRow, CommentFor
    <3>3. call[q].op = "delete" => secrets'[cur[q]].deleted
      BY <2>1, <3>1, <1>8 DEF AppendOnlyStep, Knows, DoneOK, Bound, InCall
    <3> QED BY <2>1, <3>2, <3>3, <1>1 DEF Knows, DoneOK, GetSecretVersion
  <2> QED BY <2>1 DEF DoneOK
<1> QED BY <1>4, <1>5, <1>6, <1>7, <1>9, <1>10 DEF Knows

\* A request that has answered knows nothing, and the first statements of a
\* method need no knowledge.
LEMMA NothingToKnow ==
    ASSUME NEW r \in Request,
           \/ pc'[r] \in {"new", "done"}
           \/ pc'[r] = "insertSecret" /\ call'[r].op = "create"
    PROVE  Knows(r)'
BY DEF Knows, OnItsPath, BasisOK, CopyOK, InsertOK, ReadOK, DoneOK, InCall, InTx, Writes

\* A method that has only read the secret's row: the caller's form vouches for
\* the basis of a checked edit.
LEMMA GetSecretInforms ==
    ASSUME TypeOK, NEW r \in Request, NEW u \in User, NEW s \in Secret,
           NEW op \in Ops \ {"create", "promote"},
           NEW expected \in Nat, NEW target \in Nat, NEW basis \in Value \cup {None},
           NEW label \in {"bump", "describe", "getVersion", "softDelete", "getCurrent"},
           GetSecret(r, op, u, s, expected, target, basis, label),
           label = "bump" => op = "update",
           label = "softDelete" => op = "delete",
           label = "getCurrent" => op = "reveal",
           (op = "update" /\ expected > 0) =>
             \E v \in VersionsOf(s) : v.version >= expected /\ v.sealed.value = basis
    PROVE  Knows(r)'
<1>0. TypeOK /\ DBTypeOK BY DEF TypeOK
<1>1. /\ pc'[r] = label /\ cur'[r] = s /\ seen'[r] = secrets[s].current_version
      /\ call'[r].op = op /\ call'[r].expected = expected /\ call'[r].basis = basis
      /\ secrets' = secrets /\ versions' = versions
  BY <1>0 DEF GetSecret, Goto, TypeOK, Args, dbVars
<1>2. secrets[s] # None /\ secrets[s].current_version \in Nat
  BY <1>0 DEF GetSecret, Live, IsLive, DBTypeOK, SecretRow
<1>3. OnItsPath(r)' BY <1>1 DEF OnItsPath, InTx, Writes
<1>4. BasisOK(r)' BY <1>1 DEF BasisOK, VersionsOf
<1>5. CopyOK(r)' BY <1>1 DEF CopyOK, InTx
<1>6. InsertOK(r)' BY <1>1 DEF InsertOK
<1>7. ReadOK(r)' BY <1>1, <1>2 DEF ReadOK, Base
<1>8. DoneOK(r)' BY <1>1 DEF DoneOK
<1> QED BY <1>3, <1>4, <1>5, <1>6, <1>7, <1>8 DEF Knows

\* Admission: the basis of a checked edit is what the user's form shows.
LEMMA StartInforms ==
    ASSUME TypeOK, ViewsOK, NEW r \in Request, Start(r)
    PROVE  Knows(r)'
<1>0. TypeOK /\ DBTypeOK BY DEF TypeOK
<1>1. ASSUME NEW x, Refuse(r, x) PROVE Knows(r)'
  <2>1. pc'[r] = "done" BY <1>0, <1>1 DEF Refuse, Answer, Goto, TypeOK
  <2> QED BY <2>1, NothingToKnow
<1>2. ASSUME NEW u \in User, NEW e \in Env, NEW k \in Key, NEW value \in Value,
             CreateStart(r, u, e, k, value)
      PROVE  Knows(r)'
  <2>1. CASE Refuse(r, "forbidden") \/ Refuse(r, "validation") BY <2>1, <1>1
  <2>2. CASE /\ call' = [call EXCEPT ![r] = Args("create", u, e, k)]
             /\ Goto(r, "insertSecret")
    <3>1. pc'[r] = "insertSecret" /\ call'[r].op = "create"
      BY <2>2, <1>0 DEF Goto, TypeOK, Args
    <3> QED BY <3>1, NothingToKnow
  <2> QED BY <1>2, <2>1, <2>2 DEF CreateStart
<1>3. ASSUME NEW u \in User, NEW s \in Secret, NEW value \in Value,
             secrets[s] # None, UpdateStart(r, u, s, value)
      PROVE  Knows(r)'
  <2>1. view[u] \in View BY <1>0 DEF TypeOK
  <2>2. PICK expected \in {0} \cup (IF view[u].secret = s THEN {view[u].version} ELSE {}) :
          GetSecret(r, "update", u, s, expected, 0,
                    IF expected > 0 THEN view[u].value ELSE None, "bump")
    BY <1>3 DEF UpdateStart
  <2>3. expected \in Nat BY <2>1, <2>2 DEF View
  <2>4. (IF expected > 0 THEN view[u].value ELSE None) \in Value \cup {None}
    BY <2>1 DEF View
  <2>5. expected > 0 => \E v \in VersionsOf(s) :
          v.version >= expected /\ v.sealed.value = view[u].value
    BY <2>2, SecretServiceAssumption DEF ViewsOK
  <2> QED BY <2>2, <2>3, <2>4, <2>5, GetSecretInforms DEF Ops
<1>4. ASSUME NEW u \in User, NEW s \in Secret, secrets[s] # None,
             \/ DescribeStart(r, u, s)
             \/ DeleteStart(r, u, s)
             \/ RevealStart(r, u, s)
      PROVE  Knows(r)'
  BY <1>4, GetSecretInforms DEF DescribeStart, DeleteStart, RevealStart, Ops
<1>5. ASSUME NEW u \in User, NEW s \in Secret, NEW target \in Nameable(s), secrets[s] # None,
             RollbackStart(r, u, s, target) \/ RevealVersionStart(r, u, s, target)
      PROVE  Knows(r)'
  <2>1. target \in Nat
    <3>1. secrets[s].current_version \in Nat BY <1>0, <1>5 DEF DBTypeOK, SecretRow
    <3>2. \A v \in versions : v.version \in Nat BY <1>0 DEF DBTypeOK, VersionRow
    <3> QED BY <3>1, <3>2 DEF Nameable, VersionsOf
  <2> QED BY <1>1, <1>5, <2>1, GetSecretInforms DEF RollbackStart, RevealVersionStart, Ops
<1>6. ASSUME NEW u \in User, NEW s \in Secret, SecretRefused(r, u, s) PROVE Knows(r)'
  BY <1>6, <1>1 DEF SecretRefused
<1> QED BY <1>2, <1>3, <1>4, <1>5, <1>6 DEF Start

\* GetCurrentSecretVersion returns the version the pointer names.
LEMMA CurrentIsNewest ==
    ASSUME TypeOK, Tables, NEW s \in Secret, NEW v \in GetCurrentSecretVersion(s)
    PROVE  v \in versions /\ v.secret = s /\ v.version = Base(s)
<1>1. v \in VersionsOf(s) /\ \A w \in VersionsOf(s) : w.version <= v.version
  BY DEF GetCurrentSecretVersion
<1>2. {w.version : w \in VersionsOf(s)} = 1..Base(s)
  BY HistoryUpToBase DEF Tables
<1>3. Base(s) \in Nat BY DEF TypeOK, DBTypeOK, SecretRow, Base
<1>4. v.version \in 1..Base(s) BY <1>1, <1>2
<1>5. Base(s) \in 1..Base(s) BY <1>3, <1>4
<1>6. PICK w \in VersionsOf(s) : w.version = Base(s) BY <1>2, <1>5
<1> QED BY <1>1, <1>3, <1>4, <1>6 DEF VersionsOf

\* The bump of a checked edit matched the version its form was loaded with.
LEMMA BumpInforms ==
    ASSUME TypeOK, NEW r \in Request, RequestOK(r), Knows(r), Bump(r)
    PROVE  Knows(r)'
<1>0. TypeOK /\ DBTypeOK /\ RequestOK(r) BY DEF TypeOK
<1>1. CASE AbortTx(r, IF call[r].expected > 0 THEN "version_mismatch" ELSE "not_found")
  <2>1. pc'[r] = "done" BY <1>0, <1>1 DEF AbortTx, Answer, Goto, TypeOK
  <2> QED BY <2>1, NothingToKnow
<1>2. CASE /\ BumpMatches(r, cur[r], call[r].expected)
           /\ BumpSecretVersion(r, cur[r])
           /\ newVersion' = [newVersion EXCEPT ![r] =
                               Image(r, cur[r]).current_version + 1]
           /\ Goto(r, IF call[r].op = "create" THEN "commit" ELSE "insertVersion")
           /\ UNCHANGED <<call, cur, sealed, seen, outcome, view, audited>>
  <2>1. /\ pc[r] = "bump" /\ UNCHANGED <<call, cur, sealed, seen, secrets, versions, pending>>
        /\ pc'[r] = IF call[r].op = "create" THEN "commit" ELSE "insertVersion"
        /\ newVersion'[r] = Image(r, cur[r]).current_version + 1
    BY <1>0, <1>2 DEF Bump, BumpSecretVersion, Goto, TypeOK
  <2>2. call[r].op \in Writes BY <2>1 DEF Knows, OnItsPath, InCall, InTx
  <2>3. OnItsPath(r)' BY <2>1, <2>2 DEF OnItsPath, InTx
  <2>4. BasisOK(r)'
    <3>1. call[r].expected > 0 => Image(r, cur[r]).current_version = call[r].expected
      BY <1>2 DEF BumpMatches
    <3> QED BY <2>1, <3>1 DEF Knows, BasisOK, InCall, VersionsOf
  <2>5. CopyOK(r)' BY <2>1 DEF Knows, CopyOK, InTx, GetSecretVersion
  <2>6. InsertOK(r)'
    <3>1. ASSUME call[r].op = "create" PROVE pending'[r] = {NewRow(r)'}
      <4>1. pending[r] = {NewRow(r)} BY <2>1, <3>1 DEF Knows, InsertOK
      <4>2. PICK v \in pending[r] : v.version = Base(cur[r]) + 1
        BY <1>0, <2>1, <3>1 DEF RequestOK, TxOK, HasRow
      <4>3. newVersion[r] = Base(cur[r]) + 1 BY <4>1, <4>2 DEF NewRow
      <4>4. /\ cur[r] \in Secret /\ lock[cur[r]] = r /\ secrets[cur[r]] = None
            /\ dirty[cur[r]].current_version = 0
        BY <1>0, <2>1, <3>1 DEF RequestOK, CallOK, TxOK, Holding, InCall
      <4>5. newVersion'[r] = newVersion[r] BY <2>1, <4>3, <4>4 DEF Image, Base
      <4> QED BY <2>1, <4>1, <4>5 DEF NewRow, CommentFor
    <3> QED BY <2>1, <3>1 DEF InsertOK
  <2>7. ReadOK(r)' BY <2>1 DEF ReadOK
  <2>8. DoneOK(r)' BY <2>1 DEF DoneOK
  <2> QED BY <2>3, <2>4, <2>5, <2>6, <2>7, <2>8 DEF Knows
<1> QED BY <1>1, <1>2 DEF Bump

\* A row was read and opened: it is the one the event will name.
LEMMA DecryptInforms ==
    ASSUME TypeOK, NEW r \in Request, NEW row \in versions, DecryptRow(r, row),
           row.secret = cur[r], call[r].op \in {"reveal", "revealVersion"},
           call[r].op = "reveal" => seen[r] <= row.version
    PROVE  Knows(r)'
<1>0. TypeOK /\ DBTypeOK BY DEF TypeOK
<1>1. CASE Refuse(r, "error")
  <2>1. pc'[r] = "done" BY <1>0, <1>1 DEF Refuse, Answer, Goto, TypeOK
  <2> QED BY <2>1, NothingToKnow
<1>2. CASE ~Refuse(r, "error")
  <2>1. /\ pc'[r] = "record" /\ sealed'[r] = row.sealed /\ newVersion'[r] = row.version
        /\ call'[r] = call[r] /\ cur'[r] = cur[r] /\ seen'[r] = seen[r]
        /\ versions' = versions
    BY <1>0, <1>2 DEF DecryptRow, Goto, TypeOK, dbVars
  <2>2. OnItsPath(r)' /\ BasisOK(r)' /\ CopyOK(r)' /\ InsertOK(r)'
    BY <2>1 DEF OnItsPath, BasisOK, CopyOK, InsertOK, InTx
  <2>3. ReadOK(r)' BY <2>1 DEF ReadOK
  <2>4. DoneOK(r)' BY <2>1 DEF DoneOK, GetSecretVersion, Writes
  <2> QED BY <2>2, <2>3, <2>4 DEF Knows
<1> QED BY <1>1, <1>2

\* The statements of the methods, one by one.
LEMMA StatementInforms ==
    ASSUME NEW r \in Request, Local(r), Knows(r), Step(r)
    PROVE  Knows(r)'
<1>0. TypeOK /\ DBTypeOK /\ RequestOK(r) /\ Tables BY DEF Local, TypeOK
<1>1. ASSUME NEW x, Refuse(r, x) \/ AbortTx(r, x) PROVE Knows(r)'
  <2>1. pc'[r] = "done" BY <1>0, <1>1 DEF Refuse, AbortTx, Answer, Goto, TypeOK
  <2> QED BY <2>1, NothingToKnow
<1>2. CASE CreateInsertSecret(r)
  <2>1. CASE AbortTx(r, "conflict") BY <2>1, <1>1
  <2>2. CASE ~AbortTx(r, "conflict")
    <3>1. call[r].op = "create" /\ pc'[r] = "insertVersion" /\ call'[r] = call[r]
      BY <1>0, <1>2, <2>2 DEF CreateInsertSecret, InsertSecret, Goto, TypeOK
    <3> QED BY <3>1 DEF Knows, OnItsPath, BasisOK, CopyOK, InsertOK, ReadOK, DoneOK, Writes
  <2> QED BY <2>1, <2>2
<1>3. CASE RollbackReadTarget(r)
  <2>1. CASE Refuse(r, "not_found") BY <2>1, <1>1
  <2>2. CASE ~Refuse(r, "not_found")
    <3>1. PICK row \in GetSecretVersion(cur[r], call[r].target) :
            /\ sealed' = [sealed EXCEPT ![r] = row.sealed]
            /\ Goto(r, "bump")
            /\ UNCHANGED <<dbVars, call, cur, seen, newVersion, outcome, view, audited>>
      BY <1>3, <2>2 DEF RollbackReadTarget
    <3>2. /\ call[r].op = "rollback" /\ pc'[r] = "bump" /\ sealed'[r] = row.sealed
          /\ call' = call /\ cur' = cur /\ versions' = versions
      BY <1>0, <1>3, <3>1 DEF RollbackReadTarget, Goto, TypeOK, dbVars
    <3>3. CopyOK(r)' BY <3>1, <3>2 DEF CopyOK, GetSecretVersion
    <3> QED BY <3>2, <3>3 DEF Knows, OnItsPath, BasisOK, InsertOK, ReadOK, DoneOK, Writes
  <2> QED BY <2>1, <2>2
<1>4. CASE DescribeRow(r) BY <1>4, <1>1 DEF DescribeRow
<1>5. CASE DeleteRow(r)
  <2>1. /\ pc[r] = "softDelete" /\ pc'[r] = "record" /\ call'[r] = call[r] /\ cur'[r] = cur[r]
        /\ call[r].op = "delete"
    BY <1>0, <1>5 DEF DeleteRow, Goto, TypeOK, Knows, OnItsPath, InCall
  <2>2. cur[r] \in Secret /\ secrets[cur[r]] # None /\ secrets[cur[r]] \in SecretRow
    BY <1>0, <2>1 DEF RequestOK, CallOK, Bound, InCall, DBTypeOK
  <2>3. secrets'[cur[r]].deleted
    <3>1. CASE Live(cur[r])
      <4>1. secrets'[cur[r]] = [secrets[cur[r]] EXCEPT !.deleted = TRUE]
        BY <1>0, <1>5, <2>2, <3>1 DEF DeleteRow, SoftDeleteSecret, DBTypeOK
      <4> QED BY <2>2, <4>1 DEF SecretRow
    <3>2. CASE ~Live(cur[r])
      BY <1>5, <2>2, <3>2 DEF DeleteRow, SoftDeleteSecret, Live, IsLive
    <3> QED BY <3>1, <3>2
  <2>4. DoneOK(r)' BY <2>1, <2>3 DEF DoneOK, Writes
  <2> QED BY <2>1, <2>4 DEF Knows, OnItsPath, BasisOK, CopyOK, InsertOK, ReadOK, InTx
<1>6. CASE InsertVersion(r)
  <2>1. CASE AbortTx(r, "conflict") BY <2>1, <1>1
  <2>2. CASE ~AbortTx(r, "conflict")
    <3>1. /\ pc[r] = "insertVersion" /\ versions' = versions
          /\ pc'[r] = IF call[r].op = "create" THEN "bump" ELSE "commit"
          /\ UNCHANGED <<call, cur, sealed, seen, newVersion>>
          /\ pending' = [pending EXCEPT ![r] = @ \cup {NewRow(r)}]
      BY <1>0, <1>6, <2>2 DEF InsertVersion, CreateSecretVersion, Goto, TypeOK
    <3>2. pending[r] = {} BY <1>0, <3>1 DEF RequestOK, TxOK
    <3>3. pending'[r] = {NewRow(r)} /\ NewRow(r)' = NewRow(r)
      BY <1>0, <3>1, <3>2 DEF DBTypeOK, NewRow, CommentFor
    <3>4. call[r].op \in Writes BY <3>1 DEF Knows, OnItsPath, InCall, InTx
    <3>5. OnItsPath(r)' BY <3>1, <3>4 DEF OnItsPath, InTx
    <3>6. BasisOK(r)' BY <3>1 DEF Knows, BasisOK, InCall, VersionsOf
    <3>7. CopyOK(r)' BY <3>1 DEF Knows, CopyOK, InTx, GetSecretVersion
    <3>8. InsertOK(r)' BY <3>3 DEF InsertOK
    <3>9. ReadOK(r)' /\ DoneOK(r)' BY <3>1 DEF ReadOK, DoneOK
    <3> QED BY <3>5, <3>6, <3>7, <3>8, <3>9 DEF Knows
  <2> QED BY <2>1, <2>2
<1>7. CASE Commit(r)
  <2>1. /\ pc[r] = "commit" /\ pc'[r] = "record" /\ versions' = versions \cup pending[r]
        /\ UNCHANGED <<call, cur, sealed, seen, newVersion>>
    BY <1>0, <1>7 DEF Commit, CommitTx, Goto, TypeOK
  <2>2. call[r].op \in Writes BY <2>1 DEF Knows, OnItsPath, InCall, InTx
  <2>3. NewRow(r) \in versions' BY <2>1 DEF Knows, InsertOK
  <2>4. DoneOK(r)'
    <3>1. NewRow(r)' = NewRow(r) BY <2>1 DEF NewRow, CommentFor
    <3> QED BY <2>1, <2>2, <2>3, <3>1 DEF DoneOK, Writes
  <2>5. BasisOK(r)' BY <2>1 DEF Knows, BasisOK, InCall, VersionsOf
  <2> QED BY <2>1, <2>2, <2>4, <2>5 DEF Knows, OnItsPath, CopyOK, InsertOK, ReadOK, InTx, Writes
<1>8. CASE RevealRead(r)
  <2>1. /\ pc[r] = "getCurrent" /\ cur[r] \in Secret /\ call[r].op = "reveal"
        /\ seen[r] <= Base(cur[r])
    BY <1>0, <1>8 DEF RevealRead, RequestOK, CallOK, InCall, Knows, OnItsPath, ReadOK
  <2>2. CASE Refuse(r, "not_found") BY <2>2, <1>1
  <2>3. CASE \E row \in GetCurrentSecretVersion(cur[r]) : DecryptRow(r, row)
    <3>1. PICK row \in GetCurrentSecretVersion(cur[r]) : DecryptRow(r, row) BY <2>3
    <3>2. row \in versions /\ row.secret = cur[r] /\ row.version = Base(cur[r])
      BY <1>0, <2>1, <3>1, CurrentIsNewest
    <3> QED BY <1>0, <2>1, <3>1, <3>2, DecryptInforms
  <2> QED BY <1>8, <2>2, <2>3 DEF RevealRead
<1>9. CASE RevealVersionRead(r)
  <2>1. CASE Refuse(r, "not_found") BY <2>1, <1>1
  <2>2. CASE \E row \in GetSecretVersion(cur[r], call[r].target) : DecryptRow(r, row)
    BY <1>0, <1>9, <2>2, DecryptInforms DEF RevealVersionRead, GetSecretVersion
  <2> QED BY <1>9, <2>1, <2>2 DEF RevealVersionRead
<1>10. CASE RecordAndAnswer(r)
  <2>1. pc'[r] = "done" BY <1>0, <1>10 DEF RecordAndAnswer, Answer, Goto, TypeOK
  <2> QED BY <2>1, NothingToKnow
<1> QED BY <1>2, <1>3, <1>4, <1>5, <1>6, <1>7, <1>8, <1>9, <1>10, <1>0, BumpInforms DEF Step

\* What the forms show, what rollbacks wrote and what was reported stays true
\* while history grows.
LEMMA RecordsLast ==
    ASSUME RecordsOK, AppendOnlyStep
    PROVE  /\ UNCHANGED view => ViewsOK'
           /\ versions' = versions => RollbackRestores'
           /\ \A e \in audited : EventOK(e)'
<1>1. versions \subseteq versions' BY DEF AppendOnlyStep
<1>2. ASSUME UNCHANGED view PROVE ViewsOK'
  BY <1>1, <1>2 DEF RecordsOK, ViewsOK, VersionsOf
<1>3. versions' = versions => RollbackRestores' BY DEF RecordsOK, RollbackRestores
<1>4. ASSUME NEW e \in audited PROVE EventOK(e)'
  <2>1. EventOK(e) BY DEF RecordsOK
  <2>2. e.action = "deleted" => /\ e.secret \in Secret /\ secrets'[e.secret] # None
                                /\ secrets'[e.secret].deleted
    BY <2>1 DEF EventOK, AppendOnlyStep
  <2>3. e.action = "read" => GetSecretVersion(e.secret, e.version)' # {}
    BY <1>1, <2>1 DEF EventOK, GetSecretVersion
  <2>4. e.action \in DOMAIN KindOf =>
          \E v \in GetSecretVersion(e.secret, e.version)' : v.comment.kind = KindOf[e.action]
    BY <1>1, <2>1 DEF EventOK, GetSecretVersion
  <2> QED BY <2>2, <2>3, <2>4 DEF EventOK
<1> QED BY <1>2, <1>3, <1>4

\* Only the last statement of a method shows or reports anything.
LEMMA OnlyAnswersReport ==
    ASSUME NEW r \in Request, Start(r) \/ Step(r) \/ Fail(r), ~RecordAndAnswer(r)
    PROVE  UNCHANGED <<view, audited>>
<1>1. ASSUME NEW op, NEW u, NEW s, NEW expected, NEW target, NEW basis, NEW label,
             GetSecret(r, op, u, s, expected, target, basis, label)
      PROVE  UNCHANGED <<view, audited>>
  BY <1>1 DEF GetSecret
<1>2. ASSUME NEW x, Refuse(r, x) \/ AbortTx(r, x) PROVE UNCHANGED <<view, audited>>
  BY <1>2 DEF Refuse, AbortTx
<1>3. CASE Start(r)
  BY <1>1, <1>2, <1>3
     DEF Start, CreateStart, SecretRefused, UpdateStart, RollbackStart, DescribeStart,
         DeleteStart, RevealStart, RevealVersionStart
<1>4. CASE Step(r)
  BY <1>2, <1>4
     DEF Step, DescribeRow, CreateInsertSecret, InsertSecret, RollbackReadTarget, DeleteRow, Bump,
         InsertVersion, Commit, RevealRead, RevealVersionRead, DecryptRow
<1>5. CASE Fail(r) BY <1>2, <1>5 DEF Fail
<1> QED BY <1>3, <1>4, <1>5

\* Only a commit adds versions.
LEMMA OnlyCommitsPublish ==
    ASSUME NEW r \in Request, Start(r) \/ Step(r) \/ Fail(r), ~Commit(r)
    PROVE  versions' = versions
<1>1. ASSUME NEW op, NEW u, NEW s, NEW expected, NEW target, NEW basis, NEW label,
             GetSecret(r, op, u, s, expected, target, basis, label)
      PROVE  versions' = versions
  BY <1>1 DEF GetSecret, dbVars
<1>2. ASSUME NEW x, Refuse(r, x) \/ AbortTx(r, x) PROVE versions' = versions
  BY <1>2 DEF Refuse, AbortTx, RollbackTx, dbVars
<1>3. CASE Start(r)
  BY <1>1, <1>2, <1>3
     DEF Start, CreateStart, SecretRefused, UpdateStart, RollbackStart, DescribeStart,
         DeleteStart, RevealStart, RevealVersionStart, dbVars
<1>4. CASE Step(r)
  BY <1>2, <1>4
     DEF Step, DescribeRow, CreateInsertSecret, InsertSecret, CreateSecret, RollbackReadTarget,
         DeleteRow, SoftDeleteSecret, Bump, BumpSecretVersion, InsertVersion,
         CreateSecretVersion, RevealRead, RevealVersionRead, DecryptRow, RecordAndAnswer, dbVars
<1>5. CASE Fail(r) BY <1>2, <1>5 DEF Fail
<1> QED BY <1>3, <1>4, <1>5

\* The version a rollback commits holds the ciphertext of an earlier one: the
\* target was committed, hence below the number the transaction was given.
LEMMA CommitRestores ==
    ASSUME NEW r \in Request, Local(r), Knows(r), RollbackRestores, Commit(r)
    PROVE  RollbackRestores'
<1>0. TypeOK /\ DBTypeOK /\ RequestOK(r) /\ Tables BY DEF Local, TypeOK
<1>1. /\ pc[r] = "commit" /\ versions' = versions \cup pending[r]
      /\ pending[r] = {NewRow(r)}
  BY <1>0 DEF Commit, CommitTx, Knows, InsertOK
<1>2. /\ cur[r] \in Secret /\ newVersion[r] = Base(cur[r]) + 1
      /\ call[r].op \in Writes
  BY <1>0, <1>1
     DEF RequestOK, CallOK, TxOK, HasRow, InCall, NewRow, Knows, OnItsPath, InTx
<1>3. ASSUME NEW v \in versions', v.comment.kind = "rolled back"
      PROVE  \E w \in versions' : /\ w.secret = v.secret
                                  /\ w.version = v.comment.version
                                  /\ w.version < v.version
                                  /\ w.sealed = v.sealed
  <2>1. CASE v \in versions BY <1>1, <1>3, <2>1 DEF RollbackRestores
  <2>2. CASE v = NewRow(r)
    <3>1. call[r].op = "rollback"
      BY <1>2, <1>3, <2>2 DEF NewRow, CommentFor, Writes
    <3>2. v.secret = cur[r] /\ v.sealed = sealed[r] /\ v.comment.version = call[r].target
          /\ v.version = Base(cur[r]) + 1
      BY <1>2, <2>2, <3>1 DEF NewRow, CommentFor
    <3>3. PICK w \in GetSecretVersion(cur[r], call[r].target) : w.sealed = sealed[r]
      BY <1>0, <1>1, <3>1 DEF Knows, CopyOK, InTx
    <3>4. w \in VersionsOf(cur[r]) /\ w.version = call[r].target /\ w.secret = cur[r]
      BY <3>3 DEF GetSecretVersion, VersionsOf
    <3>5. w.version \in 1..Base(cur[r])
      <4>1. {x.version : x \in VersionsOf(cur[r])} = 1..Base(cur[r])
        BY <1>2, <1>0, HistoryUpToBase DEF Tables
      <4> QED BY <3>4, <4>1
    <3>6. Base(cur[r]) \in Nat BY <1>0, <1>2 DEF DBTypeOK, SecretRow, Base
    <3> QED BY <1>1, <3>2, <3>3, <3>4, <3>5, <3>6 DEF VersionsOf
  <2> QED BY <1>1, <2>1, <2>2
<1> QED BY <1>3 DEF RollbackRestores

\* What a method reports and shows when it answers is so.
LEMMA AnswersAreTrue ==
    ASSUME NEW r \in Request, Local(r), Knows(r), RecordsOK, RecordAndAnswer(r)
    PROVE  ViewsOK' /\ \A e \in audited' : EventOK(e)'
<1>0. TypeOK /\ DBTypeOK /\ RequestOK(r) BY DEF Local, TypeOK
<1>1. /\ pc[r] = "record" /\ secrets' = secrets /\ versions' = versions
      /\ audited' = audited \cup {EventOf(r)}
  BY DEF RecordAndAnswer, dbVars
<1>2. /\ cur[r] \in Secret /\ call[r] \in Call /\ newVersion[r] \in Nat
      /\ call[r].op \in Ops \ {"promote", "describe"}
  BY <1>0, <1>1 DEF RequestOK, CallOK, InCall, Knows, OnItsPath, TypeOK, Call
<1>3. ViewsOK'
  <2>1. CASE call[r].op # "reveal" BY <1>1, <2>1 DEF RecordAndAnswer, RecordsOK, ViewsOK, VersionsOf
  <2>2. CASE call[r].op = "reveal"
    <3>1. \A u \in User : view'[u] = IF u = call[r].user THEN RevealedView(r) ELSE view[u]
      BY <1>0, <2>2 DEF RecordAndAnswer, TypeOK
    <3>2. PICK v \in GetSecretVersion(cur[r], newVersion[r]) : v.sealed = sealed[r]
      BY <1>0, <1>1, <2>2 DEF Knows, DoneOK
    <3>3. seen[r] <= newVersion[r] BY <1>0, <1>1, <2>2 DEF Knows, ReadOK
    <3>4. v \in VersionsOf(cur[r]) /\ v.version >= seen[r] /\ v.sealed.value = sealed[r].value
      <4>1. seen[r] \in Nat BY <1>0 DEF TypeOK
      <4> QED BY <1>2, <3>2, <3>3, <4>1 DEF GetSecretVersion, VersionsOf
    <3> QED BY <1>1, <3>1, <3>4 DEF RecordsOK, ViewsOK, VersionsOf, RevealedView
  <2> QED BY <2>1, <2>2
<1>4. EventOK(EventOf(r))
  <2>1. CASE call[r].op \in Writes
    <3>1. NewRow(r) \in GetSecretVersion(cur[r], newVersion[r])
      BY <1>0, <1>1, <2>1 DEF Knows, DoneOK, GetSecretVersion, NewRow
    <3>2. EventOf(r).secret = cur[r] /\ EventOf(r).version = newVersion[r]
      BY <2>1 DEF EventOf, Writes
    <3>3. /\ EventOf(r).action \in DOMAIN KindOf
          /\ EventOf(r).action \notin {"deleted", "read"}
          /\ NewRow(r).comment.kind = KindOf[EventOf(r).action]
      <4>1. CASE call[r].op = "create" BY <4>1 DEF EventOf, NewRow, CommentFor, KindOf
      <4>2. CASE call[r].op = "update" BY <4>2 DEF EventOf, NewRow, CommentFor, KindOf
      <4>3. CASE call[r].op = "rollback" BY <4>3 DEF EventOf, NewRow, CommentFor, KindOf
      <4> QED BY <2>1, <4>1, <4>2, <4>3 DEF Writes
    <3> QED BY <3>1, <3>2, <3>3 DEF EventOK
  <2>2. CASE call[r].op = "delete"
    <3>1. secrets[cur[r]] # None /\ secrets[cur[r]].deleted
      BY <1>0, <1>1, <2>2 DEF RequestOK, Bound, InCall, Knows, DoneOK
    <3>2. EventOf(r).action = "deleted" /\ EventOf(r).secret = cur[r]
      BY <2>2 DEF EventOf
    <3>3. "deleted" \notin DOMAIN KindOf BY DEF KindOf
    <3> QED BY <1>2, <3>1, <3>2, <3>3 DEF EventOK
  <2>3. CASE call[r].op \in {"reveal", "revealVersion"}
    <3>1. GetSecretVersion(cur[r], newVersion[r]) # {}
      BY <1>0, <1>1, <2>3 DEF Knows, DoneOK
    <3>2. /\ EventOf(r).action = "read" /\ EventOf(r).secret = cur[r]
          /\ EventOf(r).version = newVersion[r]
      BY <2>3 DEF EventOf
    <3>3. "read" \notin DOMAIN KindOf BY DEF KindOf
    <3> QED BY <3>1, <3>2, <3>3 DEF EventOK
  <2> QED BY <1>2, <2>1, <2>2, <2>3 DEF Ops, Writes
<1>5. \A e : EventOK(e)' <=> EventOK(e) BY <1>1 DEF EventOK, GetSecretVersion
<1> QED BY <1>1, <1>3, <1>4, <1>5 DEF RecordsOK

-----------------------------------------------------------------------------

\* Nothing is known at the start, and nothing shown or reported.
LEMMA InitKnows == Init => KInv
<1> SUFFICES ASSUME Init PROVE KInv OBVIOUS
<1>1. ASSUME NEW r \in Request PROVE Knows(r)
  <2>1. pc[r] = "new" BY DEF Init, ServiceInit
  <2> QED BY <2>1
      DEF Knows, OnItsPath, BasisOK, CopyOK, InsertOK, ReadOK, DoneOK, InCall, InTx
<1>2. ViewsOK BY DEF Init, ServiceInit, ViewsOK
<1>3. RollbackRestores
  <2>1. \A v \in versions : v.comment.kind = "created" BY DEF Init, DBInit
  <2> QED BY <2>1 DEF RollbackRestores
<1>4. audited = {} BY DEF Init, ServiceInit
<1> QED BY <1>1, <1>2, <1>3, <1>4 DEF KInv, RecordsOK

\* What a step of a method leaves known and recorded.
LEMMA MethodInforms ==
    ASSUME NEW r \in Request, Local(r), Knows(r), RecordsOK,
           Start(r) \/ Step(r) \/ Fail(r)
    PROVE  Knows(r)' /\ RecordsOK'
<1>0. TypeOK /\ AppendOnlyStep BY MethodsAppend DEF Local
<1>1. Knows(r)'
  <2>1. CASE Start(r) BY <1>0, <2>1, StartInforms DEF RecordsOK
  <2>2. CASE Step(r) BY <2>2, StatementInforms
  <2>3. CASE Fail(r)
    <3>1. pc'[r] = "done" BY <1>0, <2>3 DEF Fail, AbortTx, Answer, Goto, TypeOK
    <3> QED BY <3>1, NothingToKnow
  <2> QED BY <2>1, <2>2, <2>3
<1>2. RollbackRestores'
  <2>1. CASE Commit(r) BY <2>1, CommitRestores DEF RecordsOK
  <2>2. CASE ~Commit(r)
    <3>1. versions' = versions BY <2>2, OnlyCommitsPublish
    <3> QED BY <1>0, <3>1, RecordsLast
  <2> QED BY <2>1, <2>2
<1>3. ViewsOK' /\ \A e \in audited' : EventOK(e)'
  <2>1. CASE RecordAndAnswer(r) BY <2>1, AnswersAreTrue
  <2>2. CASE ~RecordAndAnswer(r)
    <3>1. UNCHANGED <<view, audited>> BY <2>2, OnlyAnswersReport
    <3> QED BY <1>0, <3>1, RecordsLast
  <2> QED BY <2>1, <2>2
<1> QED BY <1>1, <1>2, <1>3 DEF RecordsOK

\* Every step keeps what is known, shown and reported true.
LEMMA KnowledgePreserved == IInv /\ IInv' /\ KInv /\ [Next]_vars => KInv'
<1> SUFFICES ASSUME IInv, IInv', KInv, [Next]_vars PROVE KInv' OBVIOUS
<1>0. TypeOK /\ TypeOK' /\ AppendOnlyStep BY StepsAppend DEF IInv
<1>1. ASSUME NEW q \in Request, SameLocals(q) PROVE Knows(q)'
  BY <1>0, <1>1, KnowledgeLasts DEF IInv, KInv
<1>2. ASSUME NEW r \in Request, Start(r) \/ Step(r) \/ Fail(r) PROVE KInv'
  <2>1. Local(r) BY DEF IInv, Local
  <2>2. Knows(r)' /\ RecordsOK' BY <1>2, <2>1, MethodInforms DEF KInv
  <2>3. ASSUME NEW q \in Request \ {r} PROVE Knows(q)'
    BY <1>0, <1>1, <1>2, <2>3, OthersKeepTheirLocals
  <2> QED BY <2>2, <2>3 DEF KInv
<1>3. CASE UNCHANGED vars
  <2>1. UNCHANGED <<versions, view, audited>> BY <1>3 DEF vars, dbVars
  <2>2. \A q \in Request : SameLocals(q) BY <1>3 DEF vars, dbVars, callVars, SameLocals
  <2>3. RecordsOK' BY <1>0, <2>1, RecordsLast DEF KInv, RecordsOK
  <2> QED BY <1>1, <2>2, <2>3 DEF KInv
<1> QED BY <1>2, <1>3 DEF Next, Quiet

\* What requests know holds in every reachable state.
LEMMA KnowledgeHolds == Spec => [](IInv /\ KInv)
<1>1. Init => IInv /\ KInv BY InitEstablishes, InitKnows
<1>2. IInv /\ KInv /\ [Next]_vars => (IInv /\ KInv)' BY NextPreserves, KnowledgePreserved
<1> QED BY <1>1, <1>2, PTL DEF Spec

\* The version an edit is about to land on is the one its author was shown.
LEMMA EditKnowsItsBasis ==
    ASSUME NEW r \in Request, Local(r), Knows(r),
           pc[r] \in {"insertVersion", "commit"},
           call[r].op = "update", call[r].expected > 0,
           NEW v \in GetCurrentSecretVersion(cur[r])
    PROVE  v.sealed.value = call[r].basis
<1>0. TypeOK /\ DBTypeOK /\ RequestOK(r) /\ Tables BY DEF Local, TypeOK
<1>1. cur[r] \in Secret BY <1>0 DEF RequestOK, CallOK, InCall
<1>2. newVersion[r] = call[r].expected + 1
      /\ \E w \in VersionsOf(cur[r]) :
            w.version >= call[r].expected /\ w.sealed.value = call[r].basis
  BY <1>0 DEF Knows, BasisOK, InCall
<1>3. newVersion[r] = Base(cur[r]) + 1
  BY <1>0 DEF RequestOK, TxOK, HasRow, Knows, InsertOK, NewRow
<1>4. call[r].expected \in Nat /\ Base(cur[r]) \in Nat
  BY <1>0, <1>1 DEF RequestOK, CallOK, InCall, Call, DBTypeOK, SecretRow, Base
<1>5. PICK w \in VersionsOf(cur[r]) :
        w.version >= call[r].expected /\ w.sealed.value = call[r].basis
  BY <1>2
<1>6. w.version \in 1..Base(cur[r])
  <2>1. {x.version : x \in VersionsOf(cur[r])} = 1..Base(cur[r])
    BY <1>0, <1>1, HistoryUpToBase DEF Tables
  <2> QED BY <1>5, <2>1
<1>7. w.version = Base(cur[r]) BY <1>2, <1>3, <1>4, <1>5, <1>6
<1>8. v \in versions /\ v.secret = cur[r] /\ v.version = Base(cur[r])
  BY <1>0, <1>1, CurrentIsNewest
<1>9. v = w BY <1>0, <1>5, <1>7, <1>8 DEF Tables, VersionsContiguous, VersionsOf
<1> QED BY <1>5, <1>9

\* What EventOK says of each event is what the trail promises.
LEMMA RecordedIsTrue == RecordsOK => AuditTruthful
<1> SUFFICES ASSUME RecordsOK, NEW e \in audited
             PROVE  CASE e.action = "deleted" -> secrets[e.secret].deleted
                      [] e.action = "read" -> GetSecretVersion(e.secret, e.version) # {}
                      [] e.action \in DOMAIN KindOf ->
                           \E v \in GetSecretVersion(e.secret, e.version) :
                               v.comment.kind = KindOf[e.action]
                      [] OTHER -> TRUE
  BY DEF AuditTruthful
<1>1. EventOK(e) BY DEF RecordsOK
<1>2. CASE e.action = "deleted" BY <1>1, <1>2 DEF EventOK, KindOf
<1>3. CASE e.action = "read" BY <1>1, <1>3 DEF EventOK, KindOf
<1>4. CASE e.action \in DOMAIN KindOf BY <1>1, <1>4 DEF EventOK, KindOf
<1>5. CASE e.action \notin {"deleted", "read"} \cup DOMAIN KindOf BY <1>5
<1> QED BY <1>2, <1>3, <1>4, <1>5

\* Two people editing the same secret cannot silently overwrite each other: a
\* checked edit that is about to land replaces the value its author was shown,
\* although Reveal pairs a version with a value it reads later.
THEOREM EditsAreNotBlind == Spec => []NoBlindOverwrite
<1>1. IInv /\ KInv => NoBlindOverwrite
  BY EditKnowsItsBasis DEF NoBlindOverwrite, IInv, KInv, Local
<1> QED BY <1>1, KnowledgeHolds, PTL

\* A rollback writes what the version it names holds, although it reads that
\* version before its transaction begins.
THEOREM RollbacksRestore == Spec => []RollbackRestores
<1>1. KInv => RollbackRestores BY DEF KInv, RecordsOK
<1> QED BY <1>1, KnowledgeHolds, PTL

\* No event is reported for what did not happen, and none is belied later.
THEOREM AuditIsTruthful == Spec => []AuditTruthful
<1>1. KInv => AuditTruthful BY RecordedIsTrue DEF KInv
<1> QED BY <1>1, KnowledgeHolds, PTL

-----------------------------------------------------------------------------
(***************************************************************************)
(* Promotions beside the methods                                           *)
(*                                                                         *)
(* A promotion is a request whose transaction writes many rows, planned    *)
(* from two queries that ran before it.  PInv says of every request either *)
(* what IInv says of a method, or PromoteOK: what the promotion read is in *)
(* the source's history, what it has still to do and what it has done make *)
(* up what it read, every row it has locked is finished except the one in  *)
(* hand, and the keys of the finished rows come before the key in hand.    *)
(***************************************************************************)

\* Secret s exists, under this identity.
Identity(s, e, k) ==
    s \in Secret /\ secrets[s] # None /\ secrets[s].env = e /\ secrets[s].key = k

\* An entry of the plan is being applied.
Applying(r) == pc[r] \in {"insertSecret", "bump", "insertVersion"}

\* What a promotion was asked for, and its statements.
PromoteCallOK(r) ==
    /\ call[r] \in Call /\ call[r].op = "promote" /\ call[r].expected = 0
    /\ call[r].source \in Env /\ EnvRank[call[r].source] < EnvRank[call[r].env]
    /\ pc[r] \in {"readSource", "readTarget", "insertSecret", "bump", "insertVersion",
                  "commit", "record"}

\* The values it read are the source's, one for each key.
FoundOK(r) ==
    /\ \A x, y \in found[r] : x.key = y.key => x = y
    /\ \A x \in found[r] : \E w \in versions :
          /\ secrets[w.secret].env = call[r].source
          /\ secrets[w.secret].key = x.key
          /\ w.sealed.value = x.value

\* Entries still to be applied: what was read, one for each key, and for a secret
\* of the target that has the key.
EntriesOK(r, entries) ==
    /\ entries \subseteq Entry
    /\ \A e \in entries : [key |-> e.key, value |-> e.value] \in found[r]
    /\ \A e, f \in entries : e.key = f.key => e = f
    /\ \A e \in entries : e.secret # None => Identity(e.secret, call[r].env, e.key)

\* Row s, apart from the one in hand, is ready to be published in the target.
Applied(r, s, rows) == Finished(s, rows) /\ dirty[s].env = call[r].env

\* Version v was read in the source.
FromSource(r, v) ==
    /\ v.comment = [kind |-> "promoted", from |-> call[r].source]
    /\ [key |-> dirty[v.secret].key, value |-> v.sealed.value] \in found[r]

\* The target has value x, or will have it when the transaction that inserted
\* `rows` commits.
Stored(r, x, rows) ==
    \/ \E v \in versions : /\ secrets[v.secret].env = call[r].env
                           /\ secrets[v.secret].key = x.key
                           /\ v.sealed.value = x.value
    \/ \E v \in rows : dirty[v.secret].key = x.key /\ v.sealed.value = x.value

\* Value x is still to be applied.
Planned(x, entries) == \E e \in entries : e.key = x.key /\ e.value = x.value

\* The state of a promotion between two entries, with `entries` still to come:
\* rows are locked in the order of their keys.
Between(r, entries, rows) ==
    /\ FoundOK(r) /\ EntriesOK(r, entries)
    /\ \A s \in Secret : lock[s] = r =>
          /\ Applied(r, s, rows)
          /\ \A e \in entries : KeyRank[dirty[s].key] < KeyRank[e.key]
    /\ \A v \in rows : lock[v.secret] = r /\ FromSource(r, v)
    /\ \A x \in found[r] : Stored(r, x, rows) \/ Planned(x, entries)

\* The state while it applies an entry: the row in hand is not locked yet, or
\* new, or bumped.
Within(r) ==
    /\ FoundOK(r) /\ EntriesOK(r, todo[r])
    /\ call[r].key \in Key
    /\ sealed[r] \in Sealed /\ sealed[r].aad = SecretAAD(call[r].env, call[r].key)
    /\ [key |-> call[r].key, value |-> sealed[r].value] \in found[r]
    /\ \A e \in todo[r] : KeyRank[call[r].key] < KeyRank[e.key]
    /\ \A s \in Secret : lock[s] = r /\ s # cur[r] =>
          Applied(r, s, pending[r]) /\ KeyRank[dirty[s].key] < KeyRank[call[r].key]
    /\ \A v \in pending[r] :
          lock[v.secret] = r /\ v.secret # cur[r] /\ FromSource(r, v)
    /\ \A x \in found[r] : \/ Stored(r, x, pending[r]) \/ Planned(x, todo[r])
                           \/ x.key = call[r].key /\ x.value = sealed[r].value
    /\ pc[r] = "insertSecret" => cur[r] = None
    /\ pc[r] # "insertSecret" => cur[r] \in Secret
    /\ pc[r] # "insertSecret" /\ lock[cur[r]] # r =>
          pc[r] = "bump" /\ Identity(cur[r], call[r].env, call[r].key)
    /\ pc[r] # "insertSecret" /\ lock[cur[r]] = r =>
          /\ IsLive(dirty[cur[r]])
          /\ dirty[cur[r]].env = call[r].env /\ dirty[cur[r]].key = call[r].key
          /\ pc[r] = "bump" => secrets[cur[r]] = None /\ dirty[cur[r]].current_version = 0
          /\ pc[r] = "insertVersion" =>
               /\ newVersion[r] = Base(cur[r]) + 1
               /\ dirty[cur[r]].current_version = newVersion[r]
               /\ secrets[cur[r]] # None =>
                    /\ Identity(cur[r], call[r].env, call[r].key)
                    /\ ~secrets[cur[r]].deleted

\* All that is known of one promotion.
PromoteOK(r) ==
    /\ PromoteCallOK(r)
    /\ pc[r] \in {"readSource", "readTarget", "record"} =>
          pending[r] = {} /\ \A s \in Secret : lock[s] # r
    /\ pc[r] = "readTarget" => FoundOK(r)
    /\ Applying(r) => Within(r)
    /\ pc[r] = "commit" => Between(r, {}, pending[r])
    /\ pc[r] = "record" => \A x \in found[r] : Stored(r, x, {})

\* The requests that were admitted: always finitely many, though there is no
\* bound on the requests.
Served == {r \in Request : pc[r] # "new"}

\* The types of what PInv speaks of: not of the plan as it was made, nor of what
\* was published, which nothing a promotion does depends on.
PTypeOK ==
    /\ TypeOK
    /\ found \in [Request -> SUBSET Resolved]
    /\ todo \in [Request -> SUBSET Entry]

\* The inductive invariant of the service with promotions.
PInv ==
    /\ PTypeOK /\ Tables
    /\ \A r \in Request : RequestOK(r) \/ PromoteOK(r)
    /\ PromotedFromSource
    /\ IsFiniteSet(Served)

-----------------------------------------------------------------------------

\* The step of r leaves the plans of the others alone.
OwnPlan(r) == \A q \in Request \ {r} : found'[q] = found[q] /\ todo'[q] = todo[q]

\* What the step of a request has to leave behind.
PStepOK(r) ==
    /\ Frame(r) /\ Respects(r) /\ OwnPlan(r)
    /\ PTypeOK' /\ Tables' /\ PromotedFromSource'
    /\ versions \subseteq versions'
    /\ (RequestOK(r) \/ PromoteOK(r))'

\* What is known of a promotion survives the step of any other request: its rows
\* are locked, and what it read in other rows is history.
LEMMA OthersKeepTheirPromotion ==
    ASSUME TypeOK, Tables, NEW r \in Request, Frame(r), Respects(r), OwnPlan(r),
           versions \subseteq versions',
           NEW q \in Request \ {r}, PromoteOK(q)
    PROVE  PromoteOK(q)'
<1>0. DBTypeOK /\ PromoteOK(q) BY DEF TypeOK
<1>1. /\ pc'[q] = pc[q] /\ call'[q] = call[q] /\ cur'[q] = cur[q]
      /\ sealed'[q] = sealed[q] /\ newVersion'[q] = newVersion[q]
      /\ pending'[q] = pending[q] /\ found'[q] = found[q] /\ todo'[q] = todo[q]
  BY DEF Frame, OwnPlan
<1>2. \A s : \A e, k : Identity(s, e, k) => Identity(s, e, k)'
  BY DEF Identity, Respects
<1>3. \A s \in Secret :
        /\ lock'[s] = q <=> lock[s] = q
        /\ lock[s] = q => dirty'[s] = dirty[s] /\ secrets'[s] = secrets[s]
  BY DEF Respects
<1>4. \A v \in versions : /\ v \in versions' /\ v.secret \in Secret
                          /\ secrets'[v.secret].env = secrets[v.secret].env
                          /\ secrets'[v.secret].key = secrets[v.secret].key
  BY <1>0 DEF DBTypeOK, VersionRow, Tables, EveryVersionDecrypts, Respects
<1>5. PromoteCallOK(q)' BY <1>0, <1>1 DEF PromoteOK, PromoteCallOK
<1>6. FoundOK(q) => FoundOK(q)' BY <1>1, <1>4 DEF FoundOK
<1>7. \A entries : EntriesOK(q, entries) => EntriesOK(q, entries)'
  BY <1>1, <1>2 DEF EntriesOK
<1>8. \A s \in Secret : lock[s] = q =>
        /\ Base(s)' = Base(s)
        /\ Finished(s, pending[q]) => Finished(s, pending[q])'
        /\ Applied(q, s, pending[q]) => Applied(q, s, pending[q])'
  BY <1>1, <1>3 DEF Base, Finished, Applied, IsLive
<1>9. \A v \in pending[q] : v.secret \in Secret BY <1>0 DEF DBTypeOK, VersionRow
<1>10. \A v \in pending[q] : lock[v.secret] = q =>
         /\ lock'[v.secret] = q /\ dirty'[v.secret] = dirty[v.secret]
         /\ FromSource(q, v) => FromSource(q, v)'
  BY <1>1, <1>3, <1>9 DEF FromSource
<1>11. \A x : Stored(q, x, {}) => Stored(q, x, {})' BY <1>1, <1>4 DEF Stored
<1>12. (\A v \in pending[q] : lock[v.secret] = q) =>
         \A x : Stored(q, x, pending[q]) => Stored(q, x, pending[q])'
  BY <1>1, <1>4, <1>10 DEF Stored
<1>13. \A x, entries : Planned(x, entries)' <=> Planned(x, entries) BY DEF Planned
<1>14. Applying(q) => Within(q)'
  <2>1. SUFFICES ASSUME Within(q) PROVE Within(q)'
    BY <1>0 DEF PromoteOK
  <2>2. \A v \in pending[q] : lock[v.secret] = q BY <2>1 DEF Within
  <2>3. \A s \in Secret : lock'[s] = q /\ s # cur'[q] =>
          Applied(q, s, pending[q])' /\ KeyRank[dirty'[s].key] < KeyRank[call'[q].key]
    BY <2>1, <1>1, <1>3, <1>8 DEF Within
  <2>4. \A v \in pending'[q] :
          lock'[v.secret] = q /\ v.secret # cur'[q] /\ FromSource(q, v)'
    BY <2>1, <2>2, <1>1, <1>10 DEF Within
  <2>5. \A x \in found'[q] :
          \/ Stored(q, x, pending[q])' \/ Planned(x, todo[q])'
          \/ x.key = call'[q].key /\ x.value = sealed'[q].value
    BY <2>1, <2>2, <1>1, <1>12 DEF Within, Planned
  <2>6. FoundOK(q)' /\ EntriesOK(q, todo[q])' BY <2>1, <1>1, <1>6, <1>7 DEF Within, EntriesOK
  <2>7. pc[q] # "insertSecret" /\ lock[cur[q]] # q =>
          /\ pc[q] = "bump" /\ Identity(cur[q], call[q].env, call[q].key)'
          /\ lock'[cur[q]] # q
    BY <2>1, <1>1, <1>2, <1>3 DEF Within, Identity
  <2>8. pc[q] # "insertSecret" /\ lock[cur[q]] = q =>
          /\ lock'[cur[q]] = q /\ dirty'[cur[q]] = dirty[cur[q]]
          /\ secrets'[cur[q]] = secrets[cur[q]] /\ Base(cur[q])' = Base(cur[q])
    BY <2>1, <1>1, <1>3 DEF Within, Base
  <2> QED BY <2>1, <2>3, <2>4, <2>5, <2>6, <2>7, <2>8, <1>1 DEF Within, IsLive, Identity, Base
<1>15. pc[q] = "commit" => Between(q, {}, pending[q])'
  <2>1. SUFFICES ASSUME Between(q, {}, pending[q]) PROVE Between(q, {}, pending[q])'
    BY <1>0 DEF PromoteOK
  <2> QED BY <2>1, <1>1, <1>3, <1>6, <1>7, <1>8, <1>10, <1>12 DEF Between, Planned
<1> QED BY <1>0, <1>1, <1>3, <1>5, <1>6, <1>11, <1>14, <1>15 DEF PromoteOK, Applying

\* So the step of one request keeps the invariant if it does so for that request
\* and the tables.
LEMMA PStepPreserves ==
    ASSUME PInv, NEW r \in Request, PStepOK(r)
    PROVE  PInv'
<1>1. ASSUME NEW q \in Request PROVE (RequestOK(q) \/ PromoteOK(q))'
  <2>1. CASE q = r BY <2>1 DEF PStepOK
  <2>2. CASE q # r /\ RequestOK(q) BY <2>2, OthersKeepTheirState DEF PStepOK
  <2>3. CASE q # r /\ PromoteOK(q)
    BY <2>3, OthersKeepTheirPromotion DEF PStepOK, PInv, PTypeOK
  <2> QED BY <2>1, <2>2, <2>3 DEF PInv
<1>2. IsFiniteSet(Served)'
  <2>1. Served' \subseteq Served \cup {r} BY DEF Served, PStepOK, Frame
  <2>2. IsFiniteSet(Served \cup {r}) BY FS_AddElement DEF PInv
  <2> QED BY <2>1, <2>2, FS_Subset
<1> QED BY <1>1, <1>2 DEF PInv, PStepOK

\* A promoted version's source stays in the history, under its identity.
LEMMA OriginsLast ==
    ASSUME PTypeOK, Tables, PromotedFromSource, NEW r \in Request, Respects(r),
           versions \subseteq versions',
           \A v \in versions' : v \in versions \/ v.comment.kind # "promoted"
    PROVE  PromotedFromSource'
<1>1. \A v \in versions : /\ v \in versions'
                          /\ secrets'[v.secret].env = secrets[v.secret].env
                          /\ secrets'[v.secret].key = secrets[v.secret].key
  BY DEF PTypeOK, TypeOK, DBTypeOK, VersionRow, Tables, EveryVersionDecrypts, Respects
<1> QED BY <1>1 DEF PromotedFromSource

\* A promotion's statement that publishes nothing.
LEMMA QuietPromotionStep ==
    ASSUME PInv, NEW r \in Request, Frame(r), Respects(r), OwnPlan(r),
           PTypeOK', Tables', versions' = versions, (RequestOK(r) \/ PromoteOK(r))'
    PROVE  PStepOK(r)
<1>1. PromotedFromSource' BY OriginsLast DEF PInv
<1> QED BY <1>1 DEF PStepOK

\* What the methods do beside promotions: none of them writes a promoted version.
LEMMA MethodStepOK ==
    ASSUME PInv, NEW r \in Request, RequestOK(r), StepOK(r),
           Start(r) \/ Step(r) \/ Fail(r), UNCHANGED promotionVars \/ ForgetPlan(r)
    PROVE  PStepOK(r)
<1>1. OwnPlan(r) /\ PTypeOK'
  BY DEF OwnPlan, PTypeOK, PInv, promotionVars, ForgetPlan, StepOK, Local
<1>2. versions \subseteq versions'
      /\ \A v \in versions' : v \in versions \/ v.comment.kind # "promoted"
  <2>1. CASE ~Commit(r) BY <2>1, OnlyCommitsPublish
  <2>2. CASE Commit(r)
    <3>1. pc[r] = "commit" /\ versions' = versions \cup pending[r]
      BY <2>2 DEF Commit, CommitTx
    <3> QED BY <3>1 DEF RequestOK, TxOK, HasRow
  <2> QED BY <2>1, <2>2
<1>3. PromotedFromSource' BY <1>1, <1>2, OriginsLast DEF PInv, StepOK
<1> QED BY <1>1, <1>2, <1>3 DEF PStepOK, StepOK, Local

\* A promotion that ends without publishing anything, whatever it had done.
LEMMA LeavingPreserves ==
    ASSUME PInv, NEW r \in Request, NEW x \in Outcomes,
           RollbackTx(r), Answer(r, x), view' \in [User -> View], audited' \subseteq Event,
           ForgetPlan(r)
    PROVE  PStepOK(r)
<1>1. StepOK(r) BY AnswerPreserves DEF PInv, PTypeOK
<1>2. OwnPlan(r) /\ PTypeOK'
  BY <1>1 DEF OwnPlan, PTypeOK, PInv, ForgetPlan, StepOK, Local
<1>3. versions' = versions BY DEF RollbackTx
<1> QED BY <1>1, <1>2, <1>3, QuietPromotionStep DEF StepOK, Local

\* One that has written nothing has nothing to undo.
LEMMA NothingToUndo ==
    ASSUME TypeOK, NEW r \in Request, UNCHANGED dbVars,
           pending[r] = {}, \A s \in Secret : lock[s] # r
    PROVE  RollbackTx(r)
<1>1. lock' = ReleasedLocks(r) /\ dirty' = ReleasedImages(r)
  BY DEF TypeOK, DBTypeOK, dbVars, ReleasedLocks, ReleasedImages
<1>2. pending' = [pending EXCEPT ![r] = {}] BY DEF TypeOK, DBTypeOK, dbVars
<1> QED BY <1>1, <1>2 DEF RollbackTx, dbVars

\* A promotion that is turned away before its transaction, or that only looked.
LEMMA RefusalPreserves ==
    ASSUME PInv, NEW r \in Request, NEW x \in Outcomes, Refuse(r, x), ForgetPlan(r),
           pending[r] = {}, \A s \in Secret : lock[s] # r
    PROVE  PStepOK(r)
<1>1. TypeOK BY DEF PInv, PTypeOK
<1>2. RollbackTx(r) BY <1>1, NothingToUndo DEF Refuse
<1>3. view' \in [User -> View] /\ audited' \subseteq Event
  BY <1>1 DEF Refuse, TypeOK
<1> QED BY <1>2, <1>3, LeavingPreserves DEF Refuse

\* PromoteRecord: the event is handed over and the caller answered.
LEMMA PromoteRecordPreserves ==
    ASSUME PInv, NEW r \in Request, PromoteOK(r), PromoteRecord(r)
    PROVE  PStepOK(r)
<1>1. TypeOK BY DEF PInv, PTypeOK
<1>2. RollbackTx(r) BY <1>1, NothingToUndo DEF PromoteRecord, PromoteOK
<1>3. view' \in [User -> View] /\ audited' \subseteq Event
  BY <1>1 DEF PromoteRecord, TypeOK, Event
<1>4. "ok" \in Outcomes BY DEF Outcomes
<1> QED BY <1>2, <1>3, <1>4, LeavingPreserves DEF PromoteRecord

-----------------------------------------------------------------------------
(* Planning *)

\* A query for the values of an environment finds one for each key at most: the
\* index allows one live secret, and the history one newest version.
LEMMA OneValuePerKey ==
    ASSUME TypeOK, Tables, NEW e \in Env,
           NEW v \in ListCurrentSecretValues(e), NEW w \in ListCurrentSecretValues(e),
           secrets[v.secret].key = secrets[w.secret].key
    PROVE  v = w
<1>0. DBTypeOK BY DEF TypeOK
<1>1. \A x \in ListCurrentSecretValues(e) :
        /\ x \in versions /\ x.secret \in Secret /\ x.version \in Nat
        /\ Live(x.secret) /\ secrets[x.secret].env = e /\ secrets[x.secret].key \in Key
        /\ \A y \in versions : y.secret = x.secret => y.version <= x.version
  <2> SUFFICES ASSUME NEW s \in Secret, Live(s), secrets[s].env = e,
                      NEW x \in GetCurrentSecretVersion(s)
               PROVE  /\ x \in versions /\ x.secret \in Secret /\ x.version \in Nat
                      /\ Live(x.secret) /\ secrets[x.secret].env = e
                      /\ secrets[x.secret].key \in Key
                      /\ \A y \in versions : y.secret = x.secret => y.version <= x.version
    BY DEF ListCurrentSecretValues
  <2>1. x \in versions /\ x.secret = s /\ \A y \in versions : y.secret = s => y.version <= x.version
    BY DEF GetCurrentSecretVersion, VersionsOf
  <2>2. secrets[s] \in SecretRow BY <1>0 DEF Live, IsLive, DBTypeOK
  <2> QED BY <2>1, <2>2, <1>0 DEF DBTypeOK, VersionRow, SecretRow
<1>2. v.secret = w.secret BY <1>1 DEF Tables, Uniq, Occ, Occupies, Live
<1>3. v.version = w.version
  <2>1. v.version <= w.version /\ w.version <= v.version BY <1>1, <1>2
  <2> QED BY <2>1, <1>1
<1> QED BY <1>1, <1>2, <1>3 DEF Tables, VersionsContiguous

\* The query returns committed versions of the environment.
LEMMA ListedValues ==
    ASSUME TypeOK, NEW e \in Env, NEW v \in ListCurrentSecretValues(e)
    PROVE  /\ v \in versions /\ v \in VersionRow
           /\ v.secret \in Secret /\ secrets[v.secret] # None
           /\ secrets[v.secret].env = e /\ secrets[v.secret].key \in Key
<1>1. PICK s \in Secret : /\ Live(s) /\ secrets[s].env = e
                          /\ v \in GetCurrentSecretVersion(s)
  BY DEF ListCurrentSecretValues
<1>2. v \in versions /\ v.secret = s BY <1>1 DEF GetCurrentSecretVersion, VersionsOf
<1> QED BY <1>1, <1>2 DEF Live, IsLive, TypeOK, DBTypeOK, SecretRow

\* PromoteReadSource knows one committed value of the source for each key.
LEMMA PromoteReadSourcePreserves ==
    ASSUME PInv, NEW r \in Request, PromoteOK(r),
           NEW filter \in SUBSET Key, PromoteReadSource(r, filter)
    PROVE  PStepOK(r)
<1>0. PTypeOK /\ TypeOK /\ DBTypeOK /\ Tables BY DEF PInv, PTypeOK, TypeOK
<1>1. /\ pc[r] = "readSource" /\ PromoteCallOK(r)
      /\ pending[r] = {} /\ \A s \in Secret : lock[s] # r
  BY DEF PromoteOK, PromoteReadSource
<1>2. CASE Refuse(r, "error") /\ ForgetPlan(r)
  BY <1>1, <1>2, RefusalPreserves DEF Outcomes
<1>3. CASE /\ found' = [found EXCEPT ![r] =
                {x \in {[key |-> secrets[v.secret].key, value |-> v.sealed.value] :
                          v \in ListCurrentSecretValues(call[r].source)} :
                   Wanted(filter, x.key)}]
           /\ Goto(r, "readTarget")
           /\ UNCHANGED <<dbVars, call, cur, sealed, seen, newVersion, outcome,
                          view, audited, todo>>
  <2> USE <1>3
  <2>1. call[r].source \in Env BY <1>1 DEF PromoteCallOK
  <2>2. \A x \in found'[r] : \E v \in ListCurrentSecretValues(call[r].source) :
          x = [key |-> secrets[v.secret].key, value |-> v.sealed.value]
    BY <1>0 DEF PTypeOK
  <2>3. \A x \in found'[r] : x \in Resolved
    BY <2>1, <2>2, <1>0, ListedValues DEF Resolved, VersionRow, Sealed
  <2>4. PTypeOK'
    <3>1. TypeOK' BY <1>0 DEF TypeOK, DBTypeOK, dbVars, Goto, PCs
    <3>2. found' = [found EXCEPT ![r] = found'[r]] BY <1>0 DEF PTypeOK
    <3>3. found' \in [Request -> SUBSET Resolved] BY <2>3, <3>2, <1>0 DEF PTypeOK
    <3> QED BY <3>1, <3>3, <1>0 DEF PTypeOK
  <2>5. Frame(r) /\ Respects(r) /\ OwnPlan(r)
    BY <1>0 DEF Frame, Respects, OwnPlan, TypeOK, PTypeOK, dbVars, Goto
  <2>6. UNCHANGED <<secrets, versions, lock, dirty, pending, call>> BY DEF dbVars
  <2>7. Tables' BY <1>0, <2>6, TablesStay
  <2>8. pc'[r] = "readTarget" BY <1>0 DEF TypeOK, Goto
  <2>9. FoundOK(r)'
    <3>1. \A x, y \in found'[r] : x.key = y.key => x = y
      BY <2>1, <2>2, <1>0, OneValuePerKey
    <3>2. \A x \in found'[r] : \E w \in versions :
            /\ secrets[w.secret].env = call[r].source
            /\ secrets[w.secret].key = x.key
            /\ w.sealed.value = x.value
      BY <2>1, <2>2, <1>0, ListedValues
    <3> QED BY <2>6, <3>1, <3>2 DEF FoundOK
  <2>10. PromoteOK(r)'
    BY <1>1, <2>6, <2>8, <2>9 DEF PromoteOK, PromoteCallOK, Applying
  <2> QED BY <2>4, <2>5, <2>6, <2>7, <2>10, QuietPromotionStep
<1> QED BY <1>2, <1>3 DEF PromoteReadSource

\* The plan has an entry for every value that the target does not have yet, and
\* names the target's secret for a key that is there.
LEMMA PlanIsGood ==
    ASSUME TypeOK, Tables, NEW r \in Request, call[r].env \in Env,
           FoundOK(r), found[r] \subseteq Resolved
    PROVE  LET made == PlanFor(call[r].env, found[r]) IN
           /\ EntriesOK(r, made)
           /\ \A x \in found[r] : Stored(r, x, {}) \/ Planned(x, made)
<1> DEFINE e == call[r].env
           made == PlanFor(e, found[r])
<1>1. \A x \in found[r] : \A v \in Existing(e, x.key) :
        /\ v \in ListCurrentSecretValues(e) /\ v \in versions
        /\ Identity(v.secret, e, x.key)
        /\ v.secret \in Secret
  BY ListedValues DEF Existing, Identity
<1>2. \A x \in found[r] : \A v, w \in Existing(e, x.key) : v = w
  BY OneValuePerKey DEF Existing
<1>3. \A en \in made : \E x \in found[r] :
        \/ en = [key |-> x.key, value |-> x.value, secret |-> None] /\ Added(e, x)
        \/ \E v \in Existing(e, x.key) :
             en = [key |-> x.key, value |-> x.value, secret |-> v.secret]
  BY DEF PlanFor
<1>4. \A x \in found[r] : /\ x.key \in Key /\ x.value \in Value
                          /\ x = [key |-> x.key, value |-> x.value]
  BY DEF Resolved
<1>5. ASSUME NEW x \in found[r] PROVE Stored(r, x, {}) \/ Planned(x, made)
  <2>1. CASE Added(e, x)
    <3>1. [key |-> x.key, value |-> x.value, secret |-> None] \in made
      BY <2>1 DEF PlanFor
    <3> QED BY <3>1 DEF Planned
  <2>2. CASE Changed(e, x)
    <3>1. PICK v \in Existing(e, x.key) : TRUE BY <2>2 DEF Changed
    <3>2. [key |-> x.key, value |-> x.value, secret |-> v.secret] \in made
      <4> DEFINE entries(y) == {[key |-> y.key, value |-> y.value, secret |-> w.secret] :
                                  w \in Existing(e, y.key)}
                 changed == {y \in found[r] : Changed(e, y)}
      <4>1. [key |-> x.key, value |-> x.value, secret |-> v.secret] \in entries(x)
        OBVIOUS
      <4>2. x \in changed BY <2>2
      <4>3. UNION {entries(y) : y \in changed} \subseteq made BY DEF PlanFor
      <4> HIDE DEF entries, changed, made
      <4>4. entries(x) \subseteq UNION {entries(y) : y \in changed} BY <4>2
      <4> QED BY <4>1, <4>3, <4>4
    <3> QED BY <3>2 DEF Planned
  <2>3. CASE ~Added(e, x) /\ ~Changed(e, x)
    <3>1. PICK v \in Existing(e, x.key) : v.sealed.value = x.value
      BY <2>3 DEF Added, Changed
    <3> QED BY <3>1, <1>1 DEF Stored, Identity
  <2> QED BY <2>1, <2>2, <2>3
<1> HIDE DEF made
<1>6. made \subseteq Entry BY <1>1, <1>3, <1>4 DEF Entry
<1>7. \A en \in made : [key |-> en.key, value |-> en.value] \in found[r]
  BY <1>3, <1>4
<1>8. \A a, b \in made : a.key = b.key => a = b
  <2> SUFFICES ASSUME NEW a \in made, NEW b \in made, a.key = b.key PROVE a = b
    OBVIOUS
  <2>1. PICK x \in found[r] :
          \/ a = [key |-> x.key, value |-> x.value, secret |-> None] /\ Added(e, x)
          \/ \E v \in Existing(e, x.key) :
               a = [key |-> x.key, value |-> x.value, secret |-> v.secret]
    BY <1>3
  <2>2. PICK y \in found[r] :
          \/ b = [key |-> y.key, value |-> y.value, secret |-> None] /\ Added(e, y)
          \/ \E v \in Existing(e, y.key) :
               b = [key |-> y.key, value |-> y.value, secret |-> v.secret]
    BY <1>3
  <2>3. x = y BY <2>1, <2>2 DEF FoundOK
  <2> QED BY <2>1, <2>2, <2>3, <1>2 DEF Added
<1>9. \A en \in made : en.secret # None => Identity(en.secret, e, en.key)
  BY <1>1, <1>3
<1> QED BY <1>5, <1>6, <1>7, <1>8, <1>9 DEF EntriesOK, made

-----------------------------------------------------------------------------
(* Applying the plan *)

\* The next entry's key comes after the keys of all locked rows, so its secret is
\* not one of them and the rows stay locked in the order of their keys.
LEMMA NextEntryInHand ==
    ASSUME PTypeOK, NEW r \in Request, PromoteCallOK(r),
           NEW entries, NEW rows \in SUBSET VersionRow, Between(r, entries, rows),
           NextEntry(r, entries),
           UNCHANGED <<secrets, versions, lock, dirty, found, newVersion>>,
           pending' = [pending EXCEPT ![r] = rows],
           UNCHANGED <<seen, outcome, view, audited>>
    PROVE  /\ PTypeOK' /\ Frame(r) /\ Respects(r) /\ OwnPlan(r)
           /\ PromoteOK(r)'
<1> USE DEF NextEntry, Goto
<1>0. TypeOK /\ DBTypeOK BY DEF PTypeOK, TypeOK
<1>1. Frame(r) /\ Respects(r) /\ OwnPlan(r)
  BY <1>0 DEF Frame, Respects, OwnPlan, TypeOK, PTypeOK, DBTypeOK
<1>2. /\ call[r] \in Call /\ call[r].op = "promote" /\ call[r].env \in Env
      /\ pending'[r] = rows
  BY <1>0 DEF PromoteCallOK, Call, DBTypeOK
<1>3. DBTypeOK' BY <1>0 DEF DBTypeOK
<1>4. CASE /\ entries = {} /\ pc' = [pc EXCEPT ![r] = "commit"]
           /\ UNCHANGED <<call, cur, sealed>> /\ todo' = [todo EXCEPT ![r] = {}]
  <2>1. PTypeOK' BY <1>0, <1>3, <1>4 DEF PTypeOK, TypeOK, PCs, InTx
  <2>2. pc'[r] = "commit" BY <1>0, <1>4 DEF TypeOK
  <2>3. Between(r, {}, pending[r])'
    BY <1>2, <1>4
       DEF Between, FoundOK, EntriesOK, Identity, Applied, Finished, Base, IsLive, FromSource,
           Stored, Planned
  <2> QED BY <1>1, <1>4, <2>1, <2>2, <2>3 DEF PromoteOK, PromoteCallOK, Applying
<1>5. ASSUME NEW entry \in entries,
             IsNext(entry, entries),
             cur' = [cur EXCEPT ![r] = entry.secret],
             call' = [call EXCEPT ![r].key = entry.key],
             sealed' = [sealed EXCEPT ![r] =
                          Encrypt(entry.value, SecretAAD(call[r].env, entry.key))],
             todo' = [todo EXCEPT ![r] = entries \ {entry}],
             pc' = [pc EXCEPT ![r] = IF entry.secret = None THEN "insertSecret" ELSE "bump"]
      PROVE  PTypeOK' /\ PromoteOK(r)'
  <2> USE <1>5
  <2>1. FoundOK(r) /\ EntriesOK(r, entries) BY DEF Between
  <2>2. /\ entry \in Entry /\ entry.key \in Key /\ entry.value \in Value
        /\ entry.secret \in Secret \cup {None} /\ entries \subseteq Entry
        /\ [key |-> entry.key, value |-> entry.value] \in found[r]
    BY <2>1 DEF EntriesOK, Entry
  <2>3. Encrypt(entry.value, SecretAAD(call[r].env, entry.key)) \in Sealed
    BY <1>2, <2>2 DEF Encrypt, SecretAAD, Sealed
  <2>4. /\ call'[r] \in Call /\ call'[r].key = entry.key /\ call'[r].env = call[r].env
        /\ call'[r].op = "promote" /\ call'[r].source = call[r].source
        /\ call'[r].expected = call[r].expected
    <3>1. call'[r] = [call[r] EXCEPT !.key = entry.key] BY <1>0 DEF TypeOK
    <3>2. call[r] \in Call /\ entry.key \in Key BY <1>2, <2>2
    <3>3. /\ call'[r] \in Call /\ call'[r].key = entry.key /\ call'[r].env = call[r].env
          /\ call'[r].op = call[r].op /\ call'[r].source = call[r].source
          /\ call'[r].expected = call[r].expected
      BY ONLY <3>1, <3>2 DEF Call
    <3> QED BY <3>3, <1>2
  <2>5. /\ cur'[r] = entry.secret /\ todo'[r] = entries \ {entry}
        /\ pc'[r] = (IF entry.secret = None THEN "insertSecret" ELSE "bump")
        /\ sealed'[r] = Encrypt(entry.value, SecretAAD(call[r].env, entry.key))
    BY <1>0 DEF TypeOK, PTypeOK
  <2>6. PTypeOK'
    <3>1. call' \in [Request -> Call \cup {None}]
      <4>1. call' = [call EXCEPT ![r] = call'[r]] BY <1>0 DEF TypeOK
      <4> QED BY <4>1, <2>4, <1>0 DEF TypeOK
    <3>2. TypeOK' BY <1>0, <1>3, <2>2, <2>3, <3>1 DEF TypeOK, PCs, InTx
    <3> QED BY <2>2, <3>2 DEF PTypeOK
  <2>7. \A e \in entries \ {entry} : KeyRank[entry.key] < KeyRank[e.key]
    <3> SUFFICES ASSUME NEW e \in entries, e # entry PROVE KeyRank[entry.key] < KeyRank[e.key]
      OBVIOUS
    <3>1. e.key \in Key /\ e.key # entry.key BY <2>1, <2>2 DEF EntriesOK, Entry
    <3>2. KeyRank[entry.key] <= KeyRank[e.key] BY DEF IsNext
    <3>3. /\ KeyRank[entry.key] \in Nat /\ KeyRank[e.key] \in Nat
          /\ KeyRank[entry.key] # KeyRank[e.key]
      BY <2>2, <3>1, PromotionAssumption
    <3> QED BY <3>2, <3>3
  <2>8. \A s \in Secret : lock[s] = r =>
          /\ Applied(r, s, rows) /\ KeyRank[dirty[s].key] < KeyRank[entry.key]
          /\ s # entry.secret
    <3> SUFFICES ASSUME NEW s \in Secret, lock[s] = r
                 PROVE  /\ Applied(r, s, rows) /\ KeyRank[dirty[s].key] < KeyRank[entry.key]
                        /\ s # entry.secret
      OBVIOUS
    <3>1. Applied(r, s, rows) /\ KeyRank[dirty[s].key] < KeyRank[entry.key]
      BY DEF Between
    <3>2. dirty[s].key # entry.key
      <4>1. KeyRank[entry.key] \in Nat BY <2>2, PromotionAssumption
      <4> QED BY <3>1, <4>1
    <3>3. s = entry.secret => Identity(s, call[r].env, entry.key)
      BY <2>1, SecretServiceAssumption DEF EntriesOK
    <3> QED BY <3>1, <3>2, <3>3 DEF Applied, Finished, Identity
  <2>9. \A v \in rows : /\ lock[v.secret] = r /\ FromSource(r, v)
                        /\ v.secret \in Secret /\ v.secret # entry.secret
    BY <2>8 DEF Between, VersionRow
  <2>10. \A x \in found[r] : \/ Stored(r, x, rows) \/ Planned(x, entries \ {entry})
                             \/ x.key = entry.key /\ x.value = entry.value
    BY DEF Between, Planned
  <2>11. Within(r)'
    <3>1. FoundOK(r)' BY <2>1, <2>4 DEF FoundOK
    <3>2. EntriesOK(r, todo[r])' BY <2>1, <2>4, <2>5 DEF EntriesOK, Identity
    <3>3. /\ sealed'[r] \in Sealed /\ sealed'[r].aad = SecretAAD(call'[r].env, call'[r].key)
          /\ sealed'[r].value = entry.value
      BY ONLY <2>3, <2>4, <2>5 DEF Encrypt, SecretAAD
    <3>4. \A s \in Secret : lock'[s] = r /\ s # cur'[r] =>
            Applied(r, s, pending[r])' /\ KeyRank[dirty'[s].key] < KeyRank[call'[r].key]
      <4>1. ASSUME NEW s \in Secret, Applied(r, s, rows) PROVE Applied(r, s, pending[r])'
        BY <4>1, <1>2, <2>4 DEF Applied, Finished, Base, IsLive, SecretAAD
      <4> QED BY <4>1, <2>4, <2>8
    <3>5. \A v \in pending'[r] :
            lock'[v.secret] = r /\ v.secret # cur'[r] /\ FromSource(r, v)'
      <4>1. UNCHANGED <<lock, dirty>> /\ found'[r] = found[r] /\ pending'[r] = rows
        BY <1>2
      <4>2. \A v : FromSource(r, v) => FromSource(r, v)' BY <4>1, <2>4 DEF FromSource
      <4> QED BY <4>1, <4>2, <2>5, <2>9
    <3>6. \A x \in found'[r] : \/ Stored(r, x, pending[r])' \/ Planned(x, todo[r])'
                               \/ x.key = call'[r].key /\ x.value = sealed'[r].value
      <4>1. \A x : Stored(r, x, rows) => Stored(r, x, pending[r])'
        BY <1>2, <2>4 DEF Stored
      <4>2. \A x : Planned(x, entries \ {entry}) => Planned(x, todo[r])'
        BY <2>5 DEF Planned
      <4> QED BY <4>1, <4>2, <2>4, <2>10, <3>3
    <3>7. pc'[r] # "insertSecret" => /\ cur'[r] \in Secret /\ lock'[cur'[r]] # r
                                     /\ pc'[r] = "bump"
                                     /\ Identity(cur[r], call[r].env, call[r].key)'
      BY <2>1, <2>2, <2>4, <2>5, <2>8 DEF EntriesOK, Identity
    <3>8. pc'[r] = "insertSecret" => cur'[r] = None BY <2>5
    <3>9. \A e \in todo'[r] : KeyRank[call'[r].key] < KeyRank[e.key] BY <2>4, <2>5, <2>7
    <3>10. [key |-> call'[r].key, value |-> sealed'[r].value] \in found'[r] /\ call'[r].key \in Key
      BY <2>2, <2>4, <3>3
    <3> QED BY <3>1, <3>2, <3>3, <3>4, <3>5, <3>6, <3>7, <3>8, <3>9, <3>10 DEF Within
  <2>12. PromoteCallOK(r)' BY <2>4, <2>5 DEF PromoteCallOK
  <2> QED BY <2>5, <2>6, <2>11, <2>12 DEF PromoteOK, Applying
<1> QED BY <1>1, <1>4, <1>5

\* PromoteReadTarget plans and takes the first entry in hand; a dry run only looks.
LEMMA PromoteReadTargetPreserves ==
    ASSUME PInv, NEW r \in Request, PromoteOK(r),
           NEW dryRun \in BOOLEAN, PromoteReadTarget(r, dryRun)
    PROVE  PStepOK(r)
<1>0. PTypeOK /\ TypeOK /\ DBTypeOK /\ Tables BY DEF PInv, PTypeOK, TypeOK
<1>1. /\ pc[r] = "readTarget" /\ PromoteCallOK(r) /\ FoundOK(r)
      /\ pending[r] = {} /\ \A s \in Secret : lock[s] # r
  BY DEF PromoteOK, PromoteReadTarget
<1>2. CASE /\ Refuse(r, IF Resolvable(call[r].env) THEN "ok" ELSE "error")
           /\ ForgetPlan(r)
  <2>1. (IF Resolvable(call[r].env) THEN "ok" ELSE "error") \in Outcomes BY DEF Outcomes
  <2> QED BY <1>1, <1>2, <2>1, RefusalPreserves
<1>3. CASE /\ NextEntry(r, PlanFor(call[r].env, found[r]))
           /\ UNCHANGED <<dbVars, seen, newVersion, outcome, view, audited, found>>
  <2> DEFINE made == PlanFor(call[r].env, found[r])
  <2>1. call[r].env \in Env /\ found[r] \subseteq Resolved
    BY <1>0, <1>1 DEF PromoteCallOK, Call, PTypeOK
  <2>2. EntriesOK(r, made) /\ \A x \in found[r] : Stored(r, x, {}) \/ Planned(x, made)
    BY <1>0, <1>1, <2>1, PlanIsGood
  <2> HIDE DEF made
  <2>3. Between(r, made, {}) BY <1>1, <2>2 DEF Between
  <2>4. pending' = [pending EXCEPT ![r] = {}] BY <1>0, <1>1, <1>3 DEF DBTypeOK, dbVars
  <2>5. NextEntry(r, made) BY <1>3 DEF made
  <2>6. UNCHANGED <<secrets, versions, lock, dirty, found, newVersion, seen, outcome, view, audited>>
    BY <1>3 DEF dbVars
  <2>7. /\ PTypeOK' /\ Frame(r) /\ Respects(r) /\ OwnPlan(r) /\ PromoteOK(r)'
    <3>1. {} \in SUBSET VersionRow OBVIOUS
    <3> QED BY <1>0, <1>1, <2>3, <2>4, <2>5, <2>6, <3>1, NextEntryInHand
  <2>8. Tables' BY <1>0, <2>6, TablesStay
  <2> QED BY <2>6, <2>7, <2>8, QuietPromotionStep
<1> QED BY <1>2, <1>3 DEF PromoteReadTarget

\* PromoteInsertSecret takes a fresh row in hand, or finds the key taken.
LEMMA PromoteInsertSecretPreserves ==
    ASSUME PInv, NEW r \in Request, PromoteOK(r), PromoteInsertSecret(r)
    PROVE  PStepOK(r)
<1> USE DEF PromoteInsertSecret, InsertSecret, Goto
<1>0. PTypeOK /\ TypeOK /\ DBTypeOK /\ Tables BY DEF PInv, PTypeOK, TypeOK
<1>1. pc[r] = "insertSecret" /\ PromoteCallOK(r) /\ Within(r) BY DEF PromoteOK, Applying
<1>2. CASE AbortTx(r, "conflict")
  <2>1. ForgetPlan(r) BY <1>0, <1>2 DEF AbortTx, Answer, TypeOK
  <2> QED BY <1>0, <1>2, <2>1, LeavingPreserves DEF AbortTx, Outcomes, TypeOK
<1>3. ASSUME IndexEntries(call[r].env, call[r].key) = {},
             NEW s \in Secret, CreateSecret(r, s, call[r].env, call[r].key),
             cur' = [cur EXCEPT ![r] = s],
             newVersion' = [newVersion EXCEPT ![r] = 1],
             pc' = [pc EXCEPT ![r] = "bump"],
             UNCHANGED <<call, sealed, seen, outcome, view, audited>>
      PROVE  PStepOK(r)
  <2>1. call[r].env \in Env /\ call[r].key \in Key
    BY <1>1 DEF PromoteCallOK, Call, Within
  <2>2. /\ DBTypeOK' /\ Respects(r) /\ Tables'
        /\ UNCHANGED <<secrets, versions, pending>> /\ secrets[s] = None /\ lock[s] = None
        /\ \A t \in Secret : lock'[t] = IF t = s THEN r ELSE lock[t]
        /\ \A t \in Secret : t # s => dirty'[t] = dirty[t]
        /\ dirty'[s] # None /\ dirty'[s].env = call[r].env /\ dirty'[s].key = call[r].key
        /\ dirty'[s].current_version = 0 /\ ~dirty'[s].deleted
    BY <1>0, <1>3, <2>1, CreateSecretTables
  <2>3. pc'[r] = "bump" /\ cur'[r] = s /\ UNCHANGED promotionVars
    BY <1>0, <1>3 DEF TypeOK
  <2>4. UNCHANGED <<found, todo, call, sealed, secrets, versions, pending>>
    BY <1>3, <2>2, <2>3 DEF promotionVars
  <2>5. Frame(r) /\ OwnPlan(r) BY <1>0, <1>3, <2>4 DEF Frame, OwnPlan, TypeOK
  <2>6. PTypeOK'
    BY <1>0, <1>3, <2>2, <2>4 DEF PTypeOK, TypeOK, PCs, InTx
  <2>7. \A t \in Secret : lock'[t] = r /\ t # s => lock[t] = r /\ t # cur[r] /\ dirty'[t] = dirty[t]
    BY <1>1, <2>2, SecretServiceAssumption DEF Within
  <2>8. \A v \in pending[r] : /\ v.secret \in Secret /\ v.secret # s
                              /\ lock'[v.secret] = r /\ dirty'[v.secret] = dirty[v.secret]
                              /\ FromSource(r, v)
    BY <1>0, <1>1, <2>2, SecretDBAssumption DEF Within, DBTypeOK, VersionRow
  <2>9. Within(r)'
    <3>1. FoundOK(r)' /\ EntriesOK(r, todo[r])'
      BY <1>1, <2>4 DEF Within, FoundOK, EntriesOK, Identity
    <3>2. \A t \in Secret : lock'[t] = r /\ t # cur'[r] =>
            Applied(r, t, pending[r])' /\ KeyRank[dirty'[t].key] < KeyRank[call'[r].key]
      <4>1. ASSUME NEW t \in Secret, dirty'[t] = dirty[t], Applied(r, t, pending[r])
            PROVE  Applied(r, t, pending[r])'
        BY <4>1, <2>4 DEF Applied, Finished, Base, IsLive, SecretAAD
      <4> QED BY <4>1, <1>1, <2>3, <2>4, <2>7 DEF Within
    <3>3. \A v \in pending'[r] :
            lock'[v.secret] = r /\ v.secret # cur'[r] /\ FromSource(r, v)'
      BY <2>3, <2>4, <2>8 DEF FromSource
    <3>4. \A x \in found'[r] : \/ Stored(r, x, pending[r])' \/ Planned(x, todo[r])'
                               \/ x.key = call'[r].key /\ x.value = sealed'[r].value
      <4>1. \A x : Stored(r, x, pending[r]) => Stored(r, x, pending[r])'
        BY <2>4, <2>8 DEF Stored
      <4> QED BY <4>1, <1>1, <2>4 DEF Within, Planned
    <3> QED BY <1>1, <1>3, <2>2, <2>3, <2>4, <3>1, <3>2, <3>3, <3>4
        DEF Within, IsLive, SecretAAD
  <2>10. PromoteOK(r)' BY <1>1, <2>3, <2>4, <2>9 DEF PromoteOK, PromoteCallOK, Applying
  <2> QED BY <2>2, <2>5, <2>6, <2>10, QuietPromotionStep
<1> QED BY <1>1, <1>2, <1>3 DEF PromoteCallOK

\* PromoteBump locks the row in hand, or has inserted it before, and writes the
\* image that its next version will count.
LEMMA PromoteBumpPreserves ==
    ASSUME PInv, NEW r \in Request, PromoteOK(r), PromoteBump(r)
    PROVE  PStepOK(r)
<1> DEFINE s == cur[r]
           old == Image(r, s)
<1>0. PTypeOK /\ TypeOK /\ DBTypeOK /\ Tables BY DEF PInv, PTypeOK, TypeOK
<1>1. /\ pc[r] = "bump" /\ PromoteCallOK(r) /\ Within(r) /\ s \in Secret
      /\ call[r].expected = 0
  BY DEF PromoteOK, Applying, PromoteBump, Bump, Within, PromoteCallOK
<1>2. CASE AbortTx(r, IF call[r].expected > 0 THEN "version_mismatch" ELSE "not_found")
  <2>1. ForgetPlan(r) BY <1>0, <1>2 DEF AbortTx, Answer, Goto, TypeOK, PromoteBump
  <2>2. (IF call[r].expected > 0 THEN "version_mismatch" ELSE "not_found") \in Outcomes
    BY DEF Outcomes
  <2> QED BY <1>0, <1>2, <2>1, <2>2, LeavingPreserves DEF AbortTx, TypeOK
<1>3. CASE /\ BumpMatches(r, s, call[r].expected)
           /\ BumpSecretVersion(r, s)
           /\ newVersion' = [newVersion EXCEPT ![r] = old.current_version + 1]
           /\ Goto(r, "insertVersion")
           /\ UNCHANGED <<call, cur, sealed, seen, outcome, view, audited>>
  <2>1. /\ DBTypeOK' /\ Respects(r) /\ Tables'
        /\ UNCHANGED <<secrets, versions, pending>>
        /\ old \in SecretRow /\ ~old.deleted /\ lock[s] \in {r, None}
        /\ \A t \in Secret : lock'[t] = IF t = s THEN r ELSE lock[t]
        /\ \A t \in Secret : t # s => dirty'[t] = dirty[t]
        /\ dirty'[s] # None /\ ~dirty'[s].deleted
        /\ dirty'[s].env = old.env /\ dirty'[s].key = old.key
        /\ dirty'[s].current_version = old.current_version + 1
    <3>1. 0 \in Nat OBVIOUS
    <3> QED BY <1>0, <1>1, <1>3, <3>1, BumpTables
  <2>2. /\ old.env = call[r].env /\ old.key = call[r].key
        /\ old.current_version = Base(s)
        /\ secrets[s] # None => /\ Identity(s, call[r].env, call[r].key)
                                /\ ~secrets[s].deleted
    <3>1. CASE lock[s] = r
      BY <1>1, <3>1 DEF Within, Image, Base
    <3>2. CASE lock[s] # r
      BY <1>1, <2>1, <3>2 DEF Within, Image, Identity, Base
    <3> QED BY <3>1, <3>2
  <2> HIDE DEF old
  <2>3. pc'[r] = "insertVersion" /\ newVersion'[r] = old.current_version + 1
    BY <1>0, <1>3 DEF TypeOK, Goto
  <2>4. UNCHANGED promotionVars BY <2>3 DEF PromoteBump
  <2>5. UNCHANGED <<found, todo, call, cur, sealed, secrets, versions, pending>>
    BY <1>3, <2>1, <2>4 DEF promotionVars
  <2>6. Frame(r) /\ OwnPlan(r) BY <1>0, <1>3, <2>5 DEF Frame, OwnPlan, TypeOK, Goto
  <2>7. PTypeOK'
    <3>1. newVersion' \in [Request -> Nat]
      <4>1. old.current_version + 1 \in Nat BY <2>1 DEF SecretRow
      <4> QED BY <4>1, <1>0, <1>3 DEF TypeOK
    <3> QED BY <1>0, <1>3, <2>1, <2>5, <3>1 DEF PTypeOK, TypeOK, PCs, InTx, Goto
  <2>8. \A t \in Secret : lock'[t] = r /\ t # s => lock[t] = r /\ dirty'[t] = dirty[t]
    BY <2>1
  <2>9. \A v \in pending[r] : /\ v.secret \in Secret /\ v.secret # s
                              /\ lock'[v.secret] = r /\ dirty'[v.secret] = dirty[v.secret]
                              /\ FromSource(r, v)
    BY <1>0, <1>1, <2>1 DEF Within, DBTypeOK, VersionRow
  <2>10. Within(r)'
    <3>1. FoundOK(r)' /\ EntriesOK(r, todo[r])'
      BY <1>1, <2>5 DEF Within, FoundOK, EntriesOK, Identity
    <3>2. \A t \in Secret : lock'[t] = r /\ t # cur'[r] =>
            Applied(r, t, pending[r])' /\ KeyRank[dirty'[t].key] < KeyRank[call'[r].key]
      <4>1. ASSUME NEW t \in Secret, dirty'[t] = dirty[t], Applied(r, t, pending[r])
            PROVE  Applied(r, t, pending[r])'
        BY <4>1, <2>5 DEF Applied, Finished, Base, IsLive, SecretAAD
      <4> QED BY <4>1, <1>1, <2>5, <2>8 DEF Within
    <3>3. \A v \in pending'[r] :
            lock'[v.secret] = r /\ v.secret # cur'[r] /\ FromSource(r, v)'
      BY <2>5, <2>9 DEF FromSource
    <3>4. \A x \in found'[r] : \/ Stored(r, x, pending[r])' \/ Planned(x, todo[r])'
                               \/ x.key = call'[r].key /\ x.value = sealed'[r].value
      <4>1. \A x : Stored(r, x, pending[r]) => Stored(r, x, pending[r])'
        BY <2>5, <2>9 DEF Stored
      <4> QED BY <4>1, <1>1, <2>5 DEF Within, Planned
    <3>5. Base(s)' = Base(s) BY <2>5 DEF Base
    <3>6. \A e \in todo'[r] : KeyRank[call'[r].key] < KeyRank[e.key] BY <1>1, <2>5 DEF Within
    <3>7. /\ lock'[s] = r /\ IsLive(dirty[s])'
          /\ dirty'[s].env = call'[r].env /\ dirty'[s].key = call'[r].key
          /\ newVersion'[r] = Base(s)' + 1 /\ dirty'[s].current_version = newVersion'[r]
          /\ secrets'[s] # None => /\ Identity(s, call[r].env, call[r].key)'
                                   /\ ~secrets'[s].deleted
      BY <1>1, <2>1, <2>2, <2>3, <2>5, <3>5 DEF IsLive, Identity
    <3> QED BY <1>1, <2>3, <2>5, <3>1, <3>2, <3>3, <3>4, <3>6, <3>7 DEF Within, SecretAAD
  <2>11. PromoteOK(r)' BY <1>1, <2>3, <2>5, <2>10 DEF PromoteOK, PromoteCallOK, Applying
  <2> QED BY <2>1, <2>6, <2>7, <2>11, QuietPromotionStep
<1> QED BY <1>1, <1>2, <1>3 DEF PromoteBump, Bump, PromoteCallOK

\* PromoteInsertVersion finishes the row in hand, which leaves the promotion
\* between two entries, and takes the next one.
LEMMA PromoteInsertVersionPreserves ==
    ASSUME PInv, NEW r \in Request, PromoteOK(r), PromoteInsertVersion(r)
    PROVE  PStepOK(r)
<1> DEFINE s == cur[r]
           row == NewRow(r)
           rows == pending[r] \cup {row}
<1>0. PTypeOK /\ TypeOK /\ DBTypeOK /\ Tables BY DEF PInv, PTypeOK, TypeOK
<1>1. /\ pc[r] = "insertVersion" /\ PromoteCallOK(r) /\ Within(r) /\ s \in Secret
      /\ call[r] \in Call /\ call[r].source \in Env /\ call[r].op = "promote"
  BY DEF PromoteOK, Applying, PromoteInsertVersion, Within, PromoteCallOK
<1>2. CASE AbortTx(r, "conflict") /\ ForgetPlan(r)
  BY <1>0, <1>2, LeavingPreserves DEF AbortTx, Outcomes, TypeOK
<1>3. CASE /\ CreateSecretVersion(r, row)
           /\ NextEntry(r, todo[r])
           /\ UNCHANGED <<seen, newVersion, outcome, view, audited, found>>
  <2>1. /\ UNCHANGED <<secrets, versions, lock, dirty>>
        /\ pending' = [pending EXCEPT ![r] = rows]
    BY <1>3 DEF CreateSecretVersion
  <2>2. /\ lock[s] = r /\ IsLive(dirty[s])
        /\ dirty[s].env = call[r].env /\ dirty[s].key = call[r].key
        /\ newVersion[r] = Base(s) + 1 /\ dirty[s].current_version = newVersion[r]
        /\ secrets[s] # None => Identity(s, call[r].env, call[r].key) /\ ~secrets[s].deleted
        /\ sealed[r] \in Sealed /\ sealed[r].aad = SecretAAD(call[r].env, call[r].key)
        /\ [key |-> call[r].key, value |-> sealed[r].value] \in found[r]
    BY <1>1 DEF Within
  <2>3. /\ row.secret = s /\ row.version = Base(s) + 1 /\ row.sealed = sealed[r]
        /\ row.comment = [kind |-> "promoted", from |-> call[r].source]
        /\ row \in VersionRow
    <3>1. [kind |-> "promoted", from |-> call[r].source] \in Comment BY <1>1 DEF Comment
    <3>2. newVersion[r] \in Nat BY <1>0 DEF TypeOK
    <3> QED BY <1>1, <2>2, <3>1, <3>2 DEF NewRow, CommentFor, VersionRow
  <2> HIDE DEF row
  <2>4. rows \in SUBSET VersionRow BY <1>0, <2>3 DEF DBTypeOK
  <2>5. \A v \in pending[r] : lock[v.secret] = r /\ v.secret # s /\ FromSource(r, v)
    BY <1>1 DEF Within
  <2>6. Between(r, todo[r], rows)
    <3>1. FoundOK(r) /\ EntriesOK(r, todo[r]) BY <1>1 DEF Within
    <3>2. Applied(r, s, rows)
      BY <2>2, <2>3, <2>5 DEF Applied, Finished, Identity, IsLive
    <3>3. \A e \in todo[r] : KeyRank[call[r].key] < KeyRank[e.key] /\ e.key \in Key
      BY <1>1, <3>1 DEF Within, EntriesOK, Entry
    <3>4. ASSUME NEW t \in Secret, lock[t] = r, t # s
          PROVE  /\ Applied(r, t, rows)
                 /\ \A e \in todo[r] : KeyRank[dirty[t].key] < KeyRank[e.key]
      <4>1. Applied(r, t, pending[r]) /\ KeyRank[dirty[t].key] < KeyRank[call[r].key]
        BY <1>1, <3>4 DEF Within
      <4>2. Applied(r, t, rows) BY <4>1, <2>3, <3>4 DEF Applied, Finished
      <4>3. dirty[t].key \in Key /\ call[r].key \in Key
        BY <1>0, <1>1, <4>1 DEF Within, Applied, Finished, IsLive, DBTypeOK, SecretRow
      <4>4. \A e \in todo[r] : /\ KeyRank[dirty[t].key] \in Nat /\ KeyRank[call[r].key] \in Nat
                               /\ KeyRank[e.key] \in Nat
        BY <3>3, <4>3, PromotionAssumption
      <4> QED BY <3>3, <4>1, <4>2, <4>4
    <3>5. FromSource(r, row) BY <2>2, <2>3 DEF FromSource
    <3>6. ASSUME NEW x \in found[r] PROVE Stored(r, x, rows) \/ Planned(x, todo[r])
      <4>1. CASE Stored(r, x, pending[r]) BY <4>1 DEF Stored
      <4>2. CASE Planned(x, todo[r]) BY <4>2
      <4>3. CASE x.key = call[r].key /\ x.value = sealed[r].value
        BY <4>3, <2>2, <2>3 DEF Stored
      <4> QED BY <1>1, <4>1, <4>2, <4>3 DEF Within
    <3>7. \A v \in rows : lock[v.secret] = r /\ FromSource(r, v)
      BY <2>2, <2>3, <2>5, <3>5
    <3> QED BY <2>2, <3>1, <3>2, <3>3, <3>4, <3>6, <3>7 DEF Between
  <2> HIDE DEF rows
  <2>7. PTypeOK' /\ Frame(r) /\ Respects(r) /\ OwnPlan(r) /\ PromoteOK(r)'
    BY <1>0, <1>1, <1>3, <2>1, <2>4, <2>6, NextEntryInHand
  <2>8. Tables' BY <1>0, <2>1, TablesStay
  <2> QED BY <2>1, <2>7, <2>8, QuietPromotionStep
<1> QED BY <1>1, <1>2, <1>3 DEF PromoteInsertVersion

\* The commit publishes every entry of the plan at once.
LEMMA PromoteCommitPreserves ==
    ASSUME PInv, NEW r \in Request, PromoteOK(r), Commit(r), UNCHANGED promotionVars
    PROVE  PStepOK(r)
<1>0. PTypeOK /\ TypeOK /\ DBTypeOK /\ Tables BY DEF PInv, PTypeOK, TypeOK
<1>1. /\ pc[r] = "commit" /\ PromoteCallOK(r) /\ Between(r, {}, pending[r])
  BY DEF PromoteOK, Commit
<1>2. Ready(r) BY <1>1 DEF Ready, Between, Applied
<1>3. /\ DBTypeOK' /\ Respects(r) /\ Tables'
      /\ versions' = versions \cup pending[r] /\ pending'[r] = {}
      /\ \A s \in Secret : lock'[s] # r
  BY <1>0, <1>2, CommitTables DEF Commit
<1>4. UNCHANGED <<call, cur, sealed, seen, newVersion, outcome, view, audited, found, todo>>
  BY DEF Commit, promotionVars
<1>5. pc'[r] = "record" BY <1>0 DEF Commit, Goto, TypeOK
<1>6. Frame(r) /\ OwnPlan(r)
  BY <1>0, <1>4 DEF Frame, OwnPlan, Commit, CommitTx, Goto, TypeOK, DBTypeOK
<1>7. PTypeOK'
  BY <1>0, <1>3, <1>4 DEF PTypeOK, TypeOK, PCs, Commit, Goto
<1>8. \A v \in versions : /\ v \in versions'
                          /\ secrets'[v.secret].env = secrets[v.secret].env
                          /\ secrets'[v.secret].key = secrets[v.secret].key
  BY <1>0, <1>3 DEF DBTypeOK, VersionRow, Tables, EveryVersionDecrypts, Respects
<1>9. \A v \in pending[r] : /\ v \in versions' /\ FromSource(r, v)
                            /\ secrets'[v.secret].env = call[r].env
                            /\ secrets'[v.secret].key = dirty[v.secret].key
  <2> SUFFICES ASSUME NEW v \in pending[r]
               PROVE  /\ v \in versions' /\ FromSource(r, v)
                      /\ secrets'[v.secret].env = call[r].env
                      /\ secrets'[v.secret].key = dirty[v.secret].key
    OBVIOUS
  <2>1. v.secret \in Secret /\ lock[v.secret] = r /\ FromSource(r, v)
    BY <1>0, <1>1 DEF Between, DBTypeOK, VersionRow
  <2>2. secrets'[v.secret] = dirty[v.secret] /\ dirty[v.secret].env = call[r].env
    BY <1>1, <2>1 DEF Commit, CommitTx, Between, Applied
  <2> QED BY <1>3, <2>1, <2>2
<1>10. FoundOK(r) BY <1>1 DEF Between
<1>11. PromotedFromSource'
  <2>1. ASSUME NEW v \in versions', v.comment.kind = "promoted"
        PROVE  /\ EnvRank[v.comment.from] < EnvRank[secrets'[v.secret].env]
               /\ \E w \in versions' :
                    /\ secrets'[w.secret].env = v.comment.from
                    /\ secrets'[w.secret].key = secrets'[v.secret].key
                    /\ w.sealed.value = v.sealed.value
    <3>1. CASE v \in versions
      BY <2>1, <3>1, <1>8 DEF PInv, PromotedFromSource
    <3>2. CASE v \in pending[r]
      <4>1. /\ v.comment.from = call[r].source
            /\ [key |-> dirty[v.secret].key, value |-> v.sealed.value] \in found[r]
        BY <3>2, <1>9 DEF FromSource
      <4>2. PICK w \in versions : /\ secrets[w.secret].env = call[r].source
                                  /\ secrets[w.secret].key = dirty[v.secret].key
                                  /\ w.sealed.value = v.sealed.value
        BY <4>1, <1>10 DEF FoundOK
      <4> QED BY <1>1, <1>8, <1>9, <3>2, <4>1, <4>2 DEF PromoteCallOK
    <3> QED BY <1>3, <3>1, <3>2
  <2> QED BY <2>1 DEF PromotedFromSource
<1>12. \A x \in found[r] : Stored(r, x, {})'
  <2> SUFFICES ASSUME NEW x \in found[r] PROVE Stored(r, x, {})'
    OBVIOUS
  <2>1. Stored(r, x, pending[r]) BY <1>1 DEF Between, Planned
  <2> QED BY <1>4, <1>8, <1>9, <2>1 DEF Stored
<1>13. PromoteOK(r)'
  BY <1>1, <1>3, <1>4, <1>5, <1>12 DEF PromoteOK, PromoteCallOK, Applying
<1> QED BY <1>3, <1>6, <1>7, <1>11, <1>13 DEF PStepOK

\* A promotion is admitted only towards an environment of higher rank.
LEMMA PromoteStartPreserves ==
    ASSUME PInv, NEW r \in Request, NEW u \in User, NEW source \in Env, NEW target \in Env,
           PromoteStart(r, u, source, target)
    PROVE  PStepOK(r)
<1>0. PTypeOK /\ TypeOK /\ DBTypeOK /\ Tables BY DEF PInv, PTypeOK, TypeOK
<1>1. /\ pc[r] = "new" /\ RequestOK(r)
      /\ pending[r] = {} /\ \A s \in Secret : lock[s] # r
  BY DEF PromoteStart, PInv, PromoteOK, PromoteCallOK, RequestOK, TxOK, Holding
<1>2. UNCHANGED promotionVars BY DEF PromoteStart
<1>3. CASE Refuse(r, "forbidden") \/ Refuse(r, "validation")
  <2>1. StepOK(r) BY <1>0, <1>1, <1>3, RefusePreserves DEF Local, Outcomes, Holding
  <2>2. OwnPlan(r) /\ PTypeOK'
    BY <1>0, <1>2, <2>1 DEF OwnPlan, PTypeOK, promotionVars, StepOK, Local
  <2>3. versions' = versions BY <1>3 DEF Refuse, dbVars
  <2> QED BY <2>1, <2>2, <2>3, QuietPromotionStep DEF StepOK, Local
<1>4. CASE /\ source # target /\ EnvRank[target] > EnvRank[source]
           /\ call' = [call EXCEPT ![r] =
                         [Args("promote", u, target, None) EXCEPT !.source = source]]
           /\ Goto(r, "readSource")
           /\ UNCHANGED <<dbVars, cur, sealed, seen, newVersion, outcome, view, audited>>
  <2> USE <1>4 DEF Goto
  <2>1. /\ call'[r] \in Call /\ call'[r].op = "promote" /\ call'[r].expected = 0
        /\ call'[r].source = source /\ call'[r].env = target
    BY <1>0 DEF TypeOK, Args, Call, Ops
  <2>2. pc'[r] = "readSource" BY <1>0 DEF TypeOK
  <2>3. UNCHANGED <<secrets, versions, lock, dirty, pending, found, todo>>
    BY <1>2 DEF dbVars, promotionVars
  <2>4. Frame(r) /\ Respects(r) /\ OwnPlan(r)
    BY <1>0, <2>3 DEF Frame, Respects, OwnPlan, TypeOK
  <2>5. PTypeOK'
    <3>1. call' \in [Request -> Call \cup {None}]
      <4>1. call' = [call EXCEPT ![r] = call'[r]] BY <1>0 DEF TypeOK
      <4> QED BY <4>1, <2>1, <1>0 DEF TypeOK
    <3> QED BY <1>0, <2>3, <3>1 DEF PTypeOK, TypeOK, DBTypeOK, PCs
  <2>6. Tables' BY <1>0, <2>3, TablesStay
  <2>7. EnvRank[source] < EnvRank[target]
    <3>1. EnvRank[source] \in Nat /\ EnvRank[target] \in Nat BY PromotionAssumption
    <3> QED BY <3>1
  <2>8. PromoteOK(r)'
    BY <1>1, <2>1, <2>2, <2>3, <2>7 DEF PromoteOK, PromoteCallOK, Applying
  <2> QED BY <2>3, <2>4, <2>5, <2>6, <2>8, QuietPromotionStep
<1> QED BY <1>3, <1>4 DEF PromoteStart

-----------------------------------------------------------------------------
(* The invariant holds at the start and in every step *)

\* Nothing was promoted at the start, and nobody was admitted.
LEMMA PromotionInitEstablishes == PromotionInit => PInv
<1> SUFFICES ASSUME PromotionInit PROVE PInv OBVIOUS
<1>1. IInv BY InitEstablishes DEF PromotionInit
<1>2. PTypeOK BY <1>1 DEF PromotionInit, PTypeOK, IInv
<1>3. PromotedFromSource
  <2>1. \A v \in versions : v.comment.kind = "created" BY DEF PromotionInit, Init, DBInit
  <2> QED BY <2>1 DEF PromotedFromSource
<1>4. IsFiniteSet(Served)
  <2>1. Served = {} BY DEF PromotionInit, Init, ServiceInit, Served
  <2> QED BY <2>1, FS_EmptySet
<1> QED BY <1>1, <1>2, <1>3, <1>4 DEF PInv, IInv

\* A step of request r: of a method, of a promotion, or of the server that drops
\* either.
Moves(r) ==
    \/ Start(r) /\ UNCHANGED <<promotionVars, published>>
    \/ ServiceStep(r)
    \/ /\ \E u \in User, source, target \in Env : PromoteStart(r, u, source, target)
       /\ UNCHANGED published
    \/ PromoteStep(r)
    \/ PromoteFail(r)

\* The server starts a method only for a request that is new.
LEMMA StartsAreNew ==
    ASSUME NEW r \in Request, Start(r)
    PROVE  pc[r] = "new"
<1>1. ASSUME NEW op, NEW u, NEW s, NEW expected, NEW target, NEW basis, NEW label,
             GetSecret(r, op, u, s, expected, target, basis, label)
      PROVE  pc[r] = "new"
  BY <1>1 DEF GetSecret
<1> QED
  BY <1>1
     DEF Start, CreateStart, SecretRefused, UpdateStart, RollbackStart, DescribeStart,
         DeleteStart, RevealStart, RevealVersionStart

\* Of the methods' statements, a promotion shares the commit.
LEMMA SharedStatement ==
    ASSUME NEW r \in Request, PromoteOK(r), ServiceStep(r)
    PROVE  Commit(r) /\ UNCHANGED promotionVars
BY DEF ServiceStep, Step, CreateInsertSecret, RollbackReadTarget, DescribeRow, DeleteRow,
       Bump, InsertVersion, RevealRead, RevealVersionRead, RecordAndAnswer, PromoteOK,
       PromoteCallOK

\* Its own statements are nobody else's.
LEMMA OwnStatement ==
    ASSUME PInv, NEW r \in Request, PromoteStep(r)
    PROVE  PromoteOK(r)
<1>1. \/ pc[r] \in {"readSource", "readTarget"}
      \/ pc[r] \in {"insertSecret", "bump", "insertVersion", "record"}
         /\ call[r].op = "promote"
  BY DEF PromoteStep, PromoteReadSource, PromoteReadTarget, PromoteInsertSecret,
         PromoteBump, Bump, PromoteInsertVersion, PromoteRecord
<1> QED BY <1>1 DEF PInv, RequestOK, CallOK, InCall

\* Every step leaves behind what it has to.
LEMMA PromotionStepOK ==
    ASSUME PInv, NEW r \in Request, Moves(r)
    PROVE  PStepOK(r)
<1>0. PTypeOK /\ TypeOK /\ Tables BY DEF PInv, PTypeOK
<1>1. RequestOK(r) \/ PromoteOK(r) BY DEF PInv
<1>2. RequestOK(r) => Local(r) BY <1>0 DEF Local
<1>3. CASE Start(r) /\ UNCHANGED promotionVars
  <2>1. ~PromoteOK(r) BY <1>3, StartsAreNew DEF PromoteOK, PromoteCallOK
  <2> QED BY <1>1, <1>2, <1>3, <2>1, StartPreserves, MethodStepOK
<1>4. CASE ServiceStep(r)
  <2>1. CASE RequestOK(r)
    BY <1>2, <1>4, <2>1, StatementPreserves, MethodStepOK DEF ServiceStep
  <2>2. CASE PromoteOK(r)
    BY <1>4, <2>2, SharedStatement, PromoteCommitPreserves
  <2> QED BY <1>1, <2>1, <2>2
<1>5. CASE \E u \in User, source, target \in Env : PromoteStart(r, u, source, target)
  BY <1>5, PromoteStartPreserves
<1>6. CASE PromoteStep(r)
  BY <1>6, OwnStatement, PromoteReadSourcePreserves, PromoteReadTargetPreserves,
     PromoteInsertSecretPreserves, PromoteBumpPreserves, PromoteInsertVersionPreserves,
     PromoteRecordPreserves
  DEF PromoteStep
<1>7. CASE Fail(r) /\ ForgetPlan(r)
  BY <1>0, <1>7, LeavingPreserves DEF Fail, AbortTx, Outcomes, TypeOK
<1> QED BY <1>3, <1>4, <1>5, <1>6, <1>7 DEF Moves, PromoteFail

\* So every step keeps the invariant.
LEMMA PromotionNextPreserves == PInv /\ [PromotionNext]_allVars => PInv'
<1> SUFFICES ASSUME PInv, [PromotionNext]_allVars PROVE PInv' OBVIOUS
<1>0. PTypeOK /\ TypeOK /\ Tables BY DEF PInv, PTypeOK
<1>1. CASE UNCHANGED allVars
  <2>0. /\ UNCHANGED <<secrets, versions, lock, dirty, pending, pc, call, cur, sealed, newVersion,
                       found, todo>>
        /\ UNCHANGED <<vars, found, todo>>
    BY <1>1 DEF allVars, promotionVars, vars, dbVars, callVars
  <2>1. PTypeOK' BY <1>0, <2>0 DEF PTypeOK, TypeOK, DBTypeOK, vars, dbVars, callVars
  <2>2. Tables' BY <1>0, <2>0, TablesStay
  <2>3. ASSUME NEW r \in Request, RequestOK(r) PROVE RequestOK(r)'
    BY <2>0, <2>3 DEF RequestOK, CallOK, Bound, TxOK, InCall, Holding, HasRow, Base
  <2>4. ASSUME NEW r \in Request, PromoteOK(r) PROVE PromoteOK(r)'
    <3>1. \A s, rows : Applied(r, s, rows) => Applied(r, s, rows)'
      BY <2>0 DEF Applied, Finished, Base, IsLive
    <3>2. \A v : FromSource(r, v) => FromSource(r, v)' BY <2>0 DEF FromSource
    <3>3. \A x, rows : Stored(r, x, rows) => Stored(r, x, rows)' BY <2>0 DEF Stored
    <3>4. FoundOK(r) => FoundOK(r)' BY <2>0 DEF FoundOK
    <3>5. \A entries : EntriesOK(r, entries) => EntriesOK(r, entries)'
      BY <2>0 DEF EntriesOK, Identity
    <3>6. Within(r) => Within(r)'
      BY <2>0, <3>1, <3>2, <3>3, <3>4, <3>5 DEF Within, Planned, Identity, IsLive, Base
    <3>7. Between(r, {}, pending[r]) => Between(r, {}, pending[r])'
      BY <2>0, <3>1, <3>2, <3>3, <3>4, <3>5 DEF Between, Planned
    <3> QED BY <2>0, <2>4, <3>3, <3>4, <3>6, <3>7 DEF PromoteOK, PromoteCallOK, Applying
  <2>5. PromotedFromSource' BY <2>0 DEF PInv, PromotedFromSource
  <2>6. IsFiniteSet(Served)' BY <2>0 DEF PInv, Served
  <2> QED BY <2>1, <2>2, <2>3, <2>4, <2>5, <2>6 DEF PInv
<1>2. ASSUME NEW r \in Request, Moves(r) PROVE PInv'
  BY <1>2, PromotionStepOK, PStepPreserves
<1>3. Quiet /\ UNCHANGED <<promotionVars, published>> => UNCHANGED allVars BY DEF Quiet, allVars
<1> QED BY <1>1, <1>2, <1>3 DEF PromotionNext, Moves

\* The inductive invariant holds of every reachable state of methods and
\* promotions together.
THEOREM PromotionInvariantHolds == PromotionSpec => []PInv
BY PromotionInitEstablishes, PromotionNextPreserves, PTL DEF PromotionSpec

\* The store keeps its three promises with promotions beside its own methods:
\* contiguous histories, ciphertexts that open, one live secret for each key.
THEOREM StoreKeepsItsPromises == PromotionSpec => []StoreInvariants
<1>1. PInv => StoreInvariants
  <2> SUFFICES ASSUME PInv PROVE OneLiveSecretPerKey
    BY DEF PInv, Tables, StoreInvariants
  <2>1. ASSUME NEW s \in Secret, NEW t \in Secret, Live(s), Live(t),
               secrets[s].env = secrets[t].env, secrets[s].key = secrets[t].key
        PROVE  s = t
    <3>1. secrets[s].env \in Env /\ secrets[s].key \in Key
      BY <2>1 DEF PInv, PTypeOK, TypeOK, DBTypeOK, SecretRow, Live, IsLive
    <3> QED BY <2>1, <3>1 DEF PInv, Tables, Uniq, Occ, Occupies, Live
  <2> QED BY <2>1 DEF OneLiveSecretPerKey
<1> QED BY <1>1, PromotionInvariantHolds, PTL

\* Nothing but a value of the environment the comment names, of lower rank, is
\* ever stored by a promotion.
THEOREM PromotionsCopyTheSource == PromotionSpec => []PromotedFromSource
<1>1. PInv => PromotedFromSource BY DEF PInv
<1> QED BY <1>1, PromotionInvariantHolds, PTL

-----------------------------------------------------------------------------
(* Waiting *)

\* Of finitely many, one has the highest rank: the sets of those above an element
\* shrink as the element rises.
LEMMA HighestRank ==
    ASSUME NEW G, IsFiniteSet(G), G # {}, NEW rank \in [G -> Nat]
    PROVE  \E x \in G : \A y \in G : rank[y] <= rank[x]
<1> DEFINE above(x) == {y \in G : rank[x] < rank[y]}
           tails == {above(x) : x \in G}
<1>1. tails \subseteq FiniteSubsetsOf(G) /\ tails # {}
  <2>1. \A x \in G : above(x) \subseteq G OBVIOUS
  <2> HIDE DEF above
  <2>2. \A x \in G : above(x) \in FiniteSubsetsOf(G)
    BY <2>1, FS_Subset DEF FiniteSubsetsOf
  <2> QED BY <2>2
<1>2. PICK s \in tails : \A t \in tails : <<t, s>> \notin StrictSubsetOrdering(G)
  <2> HIDE DEF tails
  <2>1. IsWellFoundedOn(StrictSubsetOrdering(G), FiniteSubsetsOf(G))
    BY FS_StrictSubsetOrderingWellFounded
  <2> QED BY <1>1, <2>1, WFMin
<1>3. PICK x \in G : s = above(x) OBVIOUS
<1>4. ASSUME NEW y \in G, rank[x] < rank[y] PROVE FALSE
  <2>1. above(y) \subseteq above(x) /\ y \in above(x) /\ y \notin above(y)
    BY <1>4
  <2>2. <<above(y), above(x)>> \in StrictSubsetOrdering(G)
    <3>1. above(y) \in SUBSET G /\ above(x) \in SUBSET G /\ above(y) # above(x)
      BY <2>1
    <3> HIDE DEF above
    <3> QED BY <2>1, <3>1 DEF StrictSubsetOrdering
  <2>3. above(y) \in tails OBVIOUS
  <2> QED BY <1>2, <1>3, <2>2, <2>3
<1> QED BY <1>4

\* The image of a committed row that a promotion has locked keeps the row's key.
LEMMA LockedRowsKeepTheirKey ==
    ASSUME NEW q \in Request, PromoteOK(q), NEW s \in Secret, lock[s] = q, secrets[s] # None
    PROVE  dirty[s].key = secrets[s].key
<1>1. CASE Applying(q)
  <2>1. Within(q) BY <1>1 DEF PromoteOK
  <2>2. CASE s = cur[q]
    BY <1>1, <2>1, <2>2, SecretServiceAssumption DEF Within, Applying, Identity
  <2>3. CASE s # cur[q] BY <2>1, <2>3 DEF Within, Applied, Finished
  <2> QED BY <2>2, <2>3
<1>2. CASE pc[q] = "commit" BY <1>2 DEF PromoteOK, Between, Applied, Finished
<1> QED BY <1>1, <1>2 DEF PromoteOK, PromoteCallOK, Applying

\* Who waits has locked nothing, or is a promotion whose locked rows have keys
\* before the one it waits for.
LEMMA WaitingKnows ==
    ASSUME PInv, NEW r \in Request, NEW q \in WaitsFor(r)
    PROVE  /\ q \in Request \ {r}
           /\ ~PromoteOK(r) => \A t \in Secret : lock[t] # r
           /\ PromoteOK(r) =>
                /\ call[r].key \in Key
                /\ \A t \in Secret : lock[t] = r => KeyRank[dirty[t].key] < KeyRank[call[r].key]
           /\ \E s \in Secret :
                /\ lock[s] = q
                /\ PromoteOK(r) /\ PromoteOK(q) => dirty[s].key = call[r].key
<1>0. TypeOK /\ DBTypeOK BY DEF PInv, PTypeOK, TypeOK
<1>1. \/ pc[r] \in {"bump", "softDelete", "describe"} /\ q \in {lock[cur[r]]} \ {r, None}
      \/ /\ pc[r] = "insertSecret"
         /\ q \in {lock[s] : s \in IndexEntries(call[r].env, call[r].key)} \ {r, None}
  BY DEF WaitsFor
<1>2. CASE RequestOK(r)
  <2>1. InCall(r) BY <1>1 DEF InCall
  <2>2. ~PromoteOK(r) BY <1>2, <2>1 DEF RequestOK, CallOK, PromoteOK, PromoteCallOK
  <2>3. pc[r] # "insertSecret" => cur[r] \in Secret BY <1>2, <2>1 DEF RequestOK, CallOK
  <2>4. ~Holding(r)
    <3>1. ASSUME Holding(r) PROVE FALSE
      <4>1. pc[r] = "bump" /\ lock[cur[r]] = r
        BY <1>1, <1>2, <2>3, <3>1 DEF Holding, RequestOK, TxOK
      <4> QED BY <1>1, <4>1
    <3> QED BY <3>1
  <2>5. \A t \in Secret : lock[t] # r BY <1>2, <2>4 DEF RequestOK, TxOK
  <2>6. \E s \in Secret : lock[s] = q BY <1>1, <2>3 DEF IndexEntries
  <2> QED BY <1>0, <1>1, <2>2, <2>5, <2>6 DEF DBTypeOK
<1>3. CASE PromoteOK(r)
  <2>1. pc[r] \in {"bump", "insertSecret"} /\ Within(r)
    BY <1>1, <1>3 DEF PromoteOK, PromoteCallOK, Applying
  <2>2. \A t \in Secret : lock[t] = r => KeyRank[dirty[t].key] < KeyRank[call[r].key]
    BY <1>1, <2>1, SecretServiceAssumption DEF Within
  <2>3. PICK s \in Secret : lock[s] = q /\ \/ Identity(s, call[r].env, call[r].key)
                                           \/ Occupies(secrets[s], call[r].env, call[r].key)
                                           \/ Occupies(dirty[s], call[r].env, call[r].key)
    <3>1. CASE pc[r] = "bump"
      <4>1. cur[r] \in Secret /\ lock[cur[r]] = q /\ q # r BY <1>1, <2>1, <3>1 DEF Within
      <4>2. Identity(cur[r], call[r].env, call[r].key)
        BY <2>1, <3>1, <4>1 DEF Within
      <4> QED BY <4>1, <4>2
    <3>2. CASE pc[r] = "insertSecret" BY <1>1, <3>2 DEF IndexEntries
    <3> QED BY <2>1, <3>1, <3>2
  <2>4. q \in Request \ {r} BY <1>0, <1>1, <2>3 DEF DBTypeOK
  <2>5. PromoteOK(q) => dirty[s].key = call[r].key
    <3>1. CASE Occupies(dirty[s], call[r].env, call[r].key) BY <3>1 DEF Occupies
    <3>2. CASE secrets[s] # None /\ secrets[s].key = call[r].key
      BY <2>3, <2>4, <3>2, LockedRowsKeepTheirKey
    <3> QED BY <2>3, <3>1, <3>2 DEF Occupies, Identity, IsLive
  <2> QED BY <1>3, <2>1, <2>2, <2>3, <2>4, <2>5 DEF Within
<1> QED BY <1>2, <1>3 DEF PInv

\* Requests never wait for each other in a circle.  Whoever is waited for inside
\* such a circle has locked a row and waits: it is a promotion, and its key in hand
\* comes after the key that is waited for.  One of them would have the last key.
THEOREM NobodyWaitsInACircle == PromotionSpec => []NoWaitCycle
<1>1. PInv => NoWaitCycle
  <2> SUFFICES ASSUME PInv, NEW group \in SUBSET Request, group # {},
                      \A r \in group : WaitsFor(r) \cap group # {}
               PROVE  FALSE
    BY DEF NoWaitCycle
  <2> DEFINE P == {q \in group : PromoteOK(q)}
             rank == [q \in P |-> KeyRank[call[q].key]]
  <2>1. ASSUME NEW r \in group PROVE \E q \in P : q \in WaitsFor(r)
    <3>1. PICK q \in group : q \in WaitsFor(r) OBVIOUS
    <3>2. \E s \in Secret : lock[s] = q BY <3>1, WaitingKnows
    <3>3. PICK p \in WaitsFor(q) : TRUE OBVIOUS
    <3>4. PromoteOK(q) BY <3>2, <3>3, WaitingKnows
    <3> QED BY <3>1, <3>4
  <2>2. P # {} BY <2>1
  <2>3. IsFiniteSet(P)
    <3>1. P \subseteq Served BY DEF Served, PromoteOK, PromoteCallOK
    <3>2. IsFiniteSet(Served) BY DEF PInv
    <3> QED BY <3>1, <3>2, FS_Subset
  <2>4. \A q \in P : call[q].key \in Key /\ KeyRank[call[q].key] \in Nat
    <3> SUFFICES ASSUME NEW q \in P PROVE call[q].key \in Key
      BY PromotionAssumption
    <3>1. PICK p \in WaitsFor(q) : TRUE OBVIOUS
    <3> QED BY <3>1, WaitingKnows
  <2>5. PICK x \in P : \A y \in P : KeyRank[call[y].key] <= KeyRank[call[x].key]
    <3>1. rank \in [P -> Nat] BY <2>4
    <3>2. \E x \in P : \A y \in P : rank[y] <= rank[x]
      <4> HIDE DEF rank, P
      <4> QED BY <2>2, <2>3, <3>1, HighestRank
    <3> QED BY <3>2
  <2>6. PICK y \in P : y \in WaitsFor(x) BY <2>1
  <2>7. PICK s \in Secret : lock[s] = y /\ dirty[s].key = call[x].key
    BY <2>6, WaitingKnows
  <2>8. KeyRank[dirty[s].key] < KeyRank[call[y].key]
    <3>1. PICK p \in WaitsFor(y) : TRUE OBVIOUS
    <3> QED BY <2>7, <3>1, WaitingKnows
  <2> QED BY <2>4, <2>5, <2>7, <2>8
<1> QED BY <1>1, PromotionInvariantHolds, PTL

-----------------------------------------------------------------------------
(***************************************************************************)
(* The methods' promises with promotions beside them                       *)
(*                                                                         *)
(* A promotion writes over the versions that edits are based on, rollbacks *)
(* copy and events name.  It appends like everyone else, marks its         *)
(* versions as promoted and shows nothing, so what the methods know lasts. *)
(***************************************************************************)

\* The statements of a promotion.
PromotionStep(r) ==
    \/ PromoteStep(r)
    \/ Commit(r) /\ UNCHANGED promotionVars

\* A promotion is never taken for one of the methods.
LEMMA EitherMethodOrPromotion ==
    ASSUME NEW r \in Request, PromoteOK(r)
    PROVE  ~RequestOK(r)
BY DEF PromoteOK, PromoteCallOK, RequestOK, CallOK, InCall

\* Which kind of step a request takes.
LEMMA MovesAreOfTwoKinds ==
    ASSUME PInv, NEW r \in Request, Moves(r)
    PROVE  \/ RequestOK(r) /\ (Start(r) \/ Step(r) \/ Fail(r))
           \/ /\ PromoteOK(r) \/ pc[r] = "new"
              /\ \/ \E u \in User, source, target \in Env : PromoteStart(r, u, source, target)
                 \/ PromotionStep(r) \/ Fail(r)
<1>1. Start(r) => RequestOK(r) BY StartsAreNew DEF PInv, PromoteOK, PromoteCallOK
<1>2. ServiceStep(r) => Step(r) BY DEF ServiceStep
<1>3. PromoteOK(r) /\ ServiceStep(r) => PromotionStep(r) BY SharedStatement DEF PromotionStep
<1>4. PromoteStep(r) => PromoteOK(r) BY OwnStatement
<1>5. RequestOK(r) \/ PromoteOK(r) BY DEF PInv
<1>6. (\E u \in User, source, target \in Env : PromoteStart(r, u, source, target)) => pc[r] = "new"
  BY DEF PromoteStart
<1> QED BY <1>1, <1>2, <1>3, <1>4, <1>5, <1>6 DEF Moves, PromoteFail, PromotionStep

\* Which kind of step the system takes.
LEMMA StepsAreOfTwoKinds ==
    ASSUME PInv, PromotionNext
    PROVE  \/ UNCHANGED vars
           \/ \E r \in Request :
                \/ RequestOK(r) /\ (Start(r) \/ Step(r) \/ Fail(r))
                \/ /\ PromoteOK(r) \/ pc[r] = "new"
                   /\ \/ \E u \in User, source, target \in Env : PromoteStart(r, u, source, target)
                      \/ PromotionStep(r) \/ Fail(r)
<1>1. UNCHANGED vars \/ \E r \in Request : Moves(r) BY DEF PromotionNext, Moves, Quiet
<1> QED BY <1>1, MovesAreOfTwoKinds

\* What the moves of a promotion leave alone: the locals of the others, and what
\* is shown.  Only its commit stores anything, and its event names no version.
LEMMA PromotionsKeepToThemselves ==
    ASSUME TypeOK, NEW r \in Request, PromoteOK(r) \/ pc[r] = "new",
           \/ \E u \in User, source, target \in Env : PromoteStart(r, u, source, target)
           \/ PromotionStep(r)
           \/ Fail(r)
    PROVE  /\ \A q \in Request \ {r} : SameLocals(q)
           /\ pc'[r] = "done" \/ (pc'[r] # "new" /\ call'[r].op = "promote")
           /\ view' = view
           /\ Commit(r) \/ UNCHANGED <<secrets, versions>>
           /\ \A e \in audited' : e \in audited \/ e.action = "promoted"
<1> DEFINE Kept == /\ \A q \in Request \ {r} : SameLocals(q)
                   /\ pc'[r] = "done" \/ (pc'[r] # "new" /\ call'[r].op = "promote")
                   /\ view' = view
                   /\ Commit(r) \/ UNCHANGED <<secrets, versions>>
                   /\ \A e \in audited' : e \in audited \/ e.action = "promoted"
<1>0. TypeOK /\ DBTypeOK BY DEF TypeOK
<1>1. pc[r] # "new" => call[r] \in Call /\ call[r].op = "promote"
  BY DEF PromoteOK, PromoteCallOK
<1>2. ASSUME NEW x, Refuse(r, x) PROVE Kept
  BY <1>0, <1>2 DEF SameLocals, Refuse, Answer, Goto, TypeOK, dbVars
<1>3. ASSUME NEW x, AbortTx(r, x) PROVE Kept
  BY <1>0, <1>3 DEF SameLocals, AbortTx, RollbackTx, Answer, Goto, TypeOK, DBTypeOK
<1>4. ASSUME NEW entries, NextEntry(r, entries), pc[r] # "new",
             UNCHANGED <<secrets, versions, seen, newVersion, outcome, view, audited>>,
             \A q \in Request \ {r} : pending'[q] = pending[q]
      PROVE  Kept
  <2>1. call'[r].op = "promote" /\ \A q \in Request \ {r} : call'[q] = call[q]
    <3>1. CASE UNCHANGED call BY <1>1, <1>4, <3>1
    <3>2. ASSUME NEW k, call' = [call EXCEPT ![r].key = k]
          PROVE  call'[r].op = "promote" /\ \A q \in Request \ {r} : call'[q] = call[q]
      <4>1. call'[r] = [call[r] EXCEPT !.key = k] BY <1>0, <3>2 DEF TypeOK
      <4>2. call'[r].op = call[r].op BY <1>1, <1>4, <4>1 DEF Call
      <4> QED BY <1>0, <1>1, <1>4, <3>2, <4>2 DEF TypeOK
    <3> QED BY <1>4, <3>1, <3>2 DEF NextEntry
  <2>2. /\ pc'[r] \in {"commit", "insertSecret", "bump"}
        /\ \A q \in Request \ {r} : /\ pc'[q] = pc[q] /\ cur'[q] = cur[q]
                                    /\ sealed'[q] = sealed[q]
    BY <1>0, <1>4 DEF NextEntry, Goto, TypeOK
  <2> QED BY <2>1, <2>2, <1>4 DEF SameLocals
<1>5. CASE \E u \in User, source, target \in Env : PromoteStart(r, u, source, target)
  <2> PICK u \in User, source \in Env, target \in Env : PromoteStart(r, u, source, target)
    BY <1>5
  <2>1. CASE Refuse(r, "forbidden") \/ Refuse(r, "validation") BY <2>1, <1>2
  <2>2. CASE /\ call' = [call EXCEPT ![r] =
                           [Args("promote", u, target, None) EXCEPT !.source = source]]
             /\ Goto(r, "readSource")
             /\ UNCHANGED <<dbVars, cur, sealed, seen, newVersion, outcome, view, audited>>
    <3>1. call'[r].op = "promote" BY <1>0, <2>2 DEF TypeOK, Args
    <3> QED BY <3>1, <1>0, <2>2 DEF SameLocals, Goto, TypeOK, dbVars
  <2> QED BY <2>1, <2>2 DEF PromoteStart
<1>6. CASE PromoteStep(r)
  <2>1. ASSUME NEW filter \in SUBSET Key, PromoteReadSource(r, filter) PROVE Kept
    <3>1. pc[r] # "new" BY <2>1 DEF PromoteReadSource
    <3> QED BY <1>0, <1>1, <1>2, <2>1, <3>1
            DEF PromoteReadSource, SameLocals, Goto, TypeOK, dbVars
  <2>2. ASSUME NEW dryRun \in BOOLEAN, PromoteReadTarget(r, dryRun) PROVE Kept
    <3>1. pc[r] # "new" BY <2>2 DEF PromoteReadTarget
    <3> QED BY <1>2, <1>4, <2>2, <3>1 DEF PromoteReadTarget, dbVars
  <2>3. CASE PromoteInsertSecret(r)
    <3>1. CASE AbortTx(r, "conflict") BY <3>1, <1>3
    <3>2. CASE ~AbortTx(r, "conflict")
      <4>1. pc[r] = "insertSecret" /\ call[r].op = "promote" BY <2>3 DEF PromoteInsertSecret
      <4> QED BY <1>0, <2>3, <3>2, <4>1
              DEF PromoteInsertSecret, InsertSecret, CreateSecret, SameLocals, Goto, TypeOK
    <3> QED BY <3>1, <3>2
  <2>4. CASE PromoteBump(r)
    BY <1>0, <1>3, <2>4 DEF PromoteBump, Bump, BumpSecretVersion, SameLocals, Goto, TypeOK
  <2>5. CASE PromoteInsertVersion(r)
    <3>1. CASE AbortTx(r, "conflict") BY <3>1, <1>3
    <3>2. CASE ~AbortTx(r, "conflict")
      <4>1. /\ pc[r] # "new" /\ CreateSecretVersion(r, NewRow(r)) /\ NextEntry(r, todo[r])
            /\ UNCHANGED <<seen, newVersion, outcome, view, audited>>
        BY <2>5, <3>2 DEF PromoteInsertVersion
      <4>2. UNCHANGED <<secrets, versions>>
            /\ \A q \in Request \ {r} : pending'[q] = pending[q]
        BY <1>0, <4>1 DEF CreateSecretVersion, DBTypeOK
      <4> QED BY <1>4, <4>1, <4>2
    <3> QED BY <3>1, <3>2
  <2>6. CASE PromoteRecord(r)
    BY <1>0, <2>6 DEF PromoteRecord, Answer, SameLocals, Goto, TypeOK, dbVars
  <2> QED BY <1>6, <2>1, <2>2, <2>3, <2>4, <2>5, <2>6 DEF PromoteStep
<1>7. CASE Commit(r)
  <2>1. call[r].op = "promote" BY <1>1, <1>7 DEF Commit
  <2> QED BY <1>0, <1>7, <2>1 DEF Commit, CommitTx, SameLocals, Goto, TypeOK, DBTypeOK
<1>8. CASE Fail(r) BY <1>3, <1>8 DEF Fail
<1> QED BY <1>5, <1>6, <1>7, <1>8 DEF PromotionStep

\* History only grows with promotions too.
LEMMA PromotionStepsAppend ==
    ASSUME PInv, [PromotionNext]_allVars
    PROVE  AppendOnlyStep
<1>0. TypeOK /\ Tables BY DEF PInv, PTypeOK
<1>1. CASE UNCHANGED vars BY <1>0, <1>1, StillnessAppends DEF vars, dbVars
<1>2. ASSUME NEW r \in Request, RequestOK(r), Start(r) \/ Step(r) \/ Fail(r)
      PROVE  AppendOnlyStep
  BY <1>0, <1>2, MethodsAppend DEF Local
<1>3. ASSUME NEW r \in Request, PromoteOK(r) \/ pc[r] = "new",
             \/ \E u \in User, source, target \in Env : PromoteStart(r, u, source, target)
             \/ PromotionStep(r)
             \/ Fail(r)
      PROVE  AppendOnlyStep
  <2>1. CASE Commit(r)
    <3>1. Ready(r) BY <1>3, <2>1 DEF Commit, PromoteOK, Ready, Between, Applied
    <3> QED BY <1>0, <2>1, <3>1, CommitAppends DEF Commit
  <2>2. CASE ~Commit(r)
    BY <1>0, <1>3, <2>2, PromotionsKeepToThemselves, StillnessAppends
  <2> QED BY <2>1, <2>2
<1>4. CASE UNCHANGED allVars BY <1>1, <1>4 DEF allVars
<1> QED BY <1>1, <1>2, <1>3, <1>4, StepsAreOfTwoKinds

\* No step of a method or of a promotion rewrites or removes history, or revives
\* or extends a deleted secret.
THEOREM PromotionsOnlyAppend == PromotionSpec => HistoryAppendOnly
<1>1. PInv /\ [PromotionNext]_allVars => [AppendOnlyStep]_vars BY PromotionStepsAppend
<1> QED BY <1>1, PromotionInvariantHolds, PTL DEF PromotionSpec, HistoryAppendOnly

\* KInv where some requests are promotions, which know what PromoteOK says.
PKInv == (\A r \in Request : PromoteOK(r) \/ Knows(r)) /\ RecordsOK

\* What a promotion does spoils nothing that was shown, restored or reported.
LEMMA PromotionInforms ==
    ASSUME PInv, PInv', RecordsOK, AppendOnlyStep, NEW r \in Request,
           PromoteOK(r) \/ pc[r] = "new",
           \/ \E u \in User, source, target \in Env : PromoteStart(r, u, source, target)
           \/ PromotionStep(r)
           \/ Fail(r)
    PROVE  (PromoteOK(r) \/ Knows(r))' /\ RecordsOK'
<1>0. TypeOK BY DEF PInv, PTypeOK
<1>1. /\ pc'[r] = "done" \/ (pc'[r] # "new" /\ call'[r].op = "promote")
      /\ view' = view
      /\ Commit(r) \/ UNCHANGED <<secrets, versions>>
      /\ \A e \in audited' : e \in audited \/ e.action = "promoted"
  BY <1>0, PromotionsKeepToThemselves
<1>2. (PromoteOK(r) \/ Knows(r))'
  <2>1. CASE pc'[r] = "done" BY <2>1, NothingToKnow
  <2>2. CASE pc'[r] \notin {"new", "done"} /\ call'[r].op = "promote"
    <3>1. ~RequestOK(r)' BY <2>2 DEF RequestOK, CallOK, InCall
    <3> QED BY <3>1 DEF PInv
  <2> QED BY <1>1, <2>1, <2>2
<1>3. RollbackRestores'
  <2>1. CASE Commit(r)
    <3>1. /\ versions' = versions \cup pending[r]
          /\ \A v \in pending[r] : v.comment.kind = "promoted"
      <4>1. PromoteOK(r) /\ pc[r] = "commit" BY <2>1 DEF Commit
      <4>2. \A v \in pending[r] : FromSource(r, v) BY <4>1 DEF PromoteOK, Between
      <4>3. ASSUME NEW v \in pending[r] PROVE v.comment.kind = "promoted"
        <5>1. v.comment = [kind |-> "promoted", from |-> call[r].source]
          BY <4>2 DEF FromSource
        <5> QED BY <5>1
      <4>4. versions' = versions \cup pending[r] BY <2>1 DEF Commit, CommitTx
      <4> QED BY <4>3, <4>4
    <3> QED BY <3>1 DEF RecordsOK, RollbackRestores
  <2>2. CASE UNCHANGED <<secrets, versions>> BY <2>2, RecordsLast
  <2> QED BY <1>1, <2>1, <2>2
<1>4. \A e \in audited' : EventOK(e)'
  <2>1. ASSUME NEW e, e.action = "promoted" PROVE EventOK(e)'
    BY <2>1 DEF EventOK, KindOf
  <2> QED BY <1>1, <2>1, RecordsLast
<1>5. ViewsOK' BY <1>1, RecordsLast
<1> QED BY <1>2, <1>3, <1>4, <1>5 DEF RecordsOK

\* Every step keeps what is known, shown and reported true.
LEMMA PromotionKnowledgePreserved ==
    PInv /\ PInv' /\ PKInv /\ [PromotionNext]_allVars => PKInv'
<1> SUFFICES ASSUME PInv, PInv', PKInv, [PromotionNext]_allVars PROVE PKInv' OBVIOUS
<1>0. TypeOK /\ TypeOK' /\ Tables BY DEF PInv, PTypeOK
<1>1. AppendOnlyStep BY PromotionStepsAppend
<1>2. ASSUME NEW q \in Request, SameLocals(q) PROVE (PromoteOK(q) \/ Knows(q))'
  <2>1. CASE PromoteOK(q)
    <3>1. ~RequestOK(q)'
      BY <1>2, <2>1 DEF SameLocals, PromoteOK, PromoteCallOK, RequestOK, CallOK, InCall
    <3> QED BY <3>1 DEF PInv
  <2>2. CASE ~PromoteOK(q)
    <3>1. RequestOK(q) /\ Knows(q) BY <2>2 DEF PInv, PKInv
    <3> QED BY <1>0, <1>1, <1>2, <3>1, KnowledgeLasts
  <2> QED BY <2>1, <2>2
<1>3. ASSUME NEW r \in Request, RequestOK(r), Start(r) \/ Step(r) \/ Fail(r) PROVE PKInv'
  <2>1. Local(r) /\ Knows(r) BY <1>0, <1>3, EitherMethodOrPromotion DEF Local, PKInv
  <2>2. Knows(r)' /\ RecordsOK' BY <1>3, <2>1, MethodInforms DEF PKInv
  <2>3. \A q \in Request \ {r} : SameLocals(q) BY <1>0, <1>3, OthersKeepTheirLocals
  <2> QED BY <1>2, <2>2, <2>3 DEF PKInv
<1>4. ASSUME NEW r \in Request, PromoteOK(r) \/ pc[r] = "new",
             \/ \E u \in User, source, target \in Env : PromoteStart(r, u, source, target)
             \/ PromotionStep(r)
             \/ Fail(r)
      PROVE  PKInv'
  <2>1. (PromoteOK(r) \/ Knows(r))' /\ RecordsOK'
    BY <1>1, <1>4, PromotionInforms DEF PKInv
  <2>2. \A q \in Request \ {r} : SameLocals(q)
    BY <1>0, <1>4, PromotionsKeepToThemselves
  <2> QED BY <1>2, <2>1, <2>2 DEF PKInv
<1>5. CASE UNCHANGED vars
  <2>1. UNCHANGED <<versions, view, audited>> BY <1>5 DEF vars, dbVars
  <2>2. \A q \in Request : SameLocals(q) BY <1>5 DEF vars, dbVars, callVars, SameLocals
  <2>3. RecordsOK' BY <1>1, <2>1, RecordsLast DEF PKInv, RecordsOK
  <2> QED BY <1>2, <2>2, <2>3 DEF PKInv
<1>6. CASE UNCHANGED allVars BY <1>5, <1>6 DEF allVars
<1> QED BY <1>3, <1>4, <1>5, <1>6, StepsAreOfTwoKinds

\* What requests know holds in every reachable state of methods and promotions.
LEMMA PromotionKnowledgeHolds == PromotionSpec => [](PInv /\ PKInv)
<1>1. PromotionInit => PInv /\ PKInv
  BY PromotionInitEstablishes, InitKnows DEF PromotionInit, KInv, PKInv
<1>2. PInv /\ PKInv /\ [PromotionNext]_allVars => (PInv /\ PKInv)'
  BY PromotionNextPreserves, PromotionKnowledgePreserved
<1> QED BY <1>1, <1>2, PTL DEF PromotionSpec

\* A promotion never comes between an edit and the value its author was shown:
\* the edit is refused, or it replaces that value.
THEOREM EditsAreNotBlindToPromotions == PromotionSpec => []NoBlindOverwrite
<1>1. PInv /\ PKInv => NoBlindOverwrite
  <2> SUFFICES ASSUME PInv, PKInv, NEW r \in Request,
                      pc[r] \in {"insertVersion", "commit"},
                      call[r].op = "update", call[r].expected > 0,
                      NEW v \in GetCurrentSecretVersion(cur[r])
               PROVE  v.sealed.value = call[r].basis
    BY DEF NoBlindOverwrite
  <2>1. ~PromoteOK(r) BY DEF PromoteOK, PromoteCallOK
  <2>2. Local(r) /\ Knows(r) BY <2>1 DEF PInv, PKInv, PTypeOK, Local
  <2> QED BY <2>2, EditKnowsItsBasis
<1> QED BY <1>1, PromotionKnowledgeHolds, PTL

\* A rollback writes what the version it names holds, that version promoted or
\* not, and the promotions' own versions never pass for rolled back ones.
THEOREM RollbacksRestoreAmongPromotions == PromotionSpec => []RollbackRestores
<1>1. PKInv => RollbackRestores BY DEF PKInv, RecordsOK
<1> QED BY <1>1, PromotionKnowledgeHolds, PTL

\* No promotion belies an event, and none reports a version it did not write.
THEOREM AuditIsTruthfulOfPromotions == PromotionSpec => []AuditTruthful
<1>1. PKInv => AuditTruthful BY RecordedIsTrue DEF PKInv
<1> QED BY <1>1, PromotionKnowledgeHolds, PTL

-----------------------------------------------------------------------------
(***************************************************************************)
(* What others can see of a promotion                                      *)
(*                                                                         *)
(* The plan is not lost while it is applied: what was inserted, what is in *)
(* hand and what is left make it up.  So the commit, which publishes what  *)
(* was inserted and has nothing in hand or left, publishes the plan, and   *)
(* no other step publishes anything of a promotion.  WInv is inductive     *)
(* relative to PInv.                                                       *)
(***************************************************************************)

\* What `rows` will be read as once they are committed.
Inserted(rows) == {[key |-> dirty[v.secret].key, value |-> v.sealed.value] : v \in rows}

\* What is left to do, and what is being done.
Left(entries) == {[key |-> e.key, value |-> e.value] : e \in entries}
InHand(r) == [key |-> call[r].key, value |-> sealed[r].value]

\* All that is known of the plan of one request and of what it published.
PlanOK(r) ==
    /\ published[r] \subseteq versions
    /\ published[r] # {} =>
         /\ Visible(r) = Promised(r)
         /\ \/ pc[r] = "record" /\ InPromotion(r)
            \/ pc[r] = "done" /\ outcome[r] \in {"ok", "error"}
    /\ Applying(r) /\ InPromotion(r) =>
         Promised(r) = Inserted(pending[r]) \cup Left(todo[r]) \cup {InHand(r)}
    /\ pc[r] = "commit" /\ InPromotion(r) => Promised(r) = Inserted(pending[r])

\* The third inductive invariant, relative to PInv.
WInv ==
    /\ plan \in [Request -> SUBSET Entry]
    /\ published \in [Request -> SUBSET VersionRow]
    /\ \A r \in Request : PlanOK(r)

\* A step leaves the plans of the others alone, and what they published.
LEMMA PlansStayTheirOwn ==
    ASSUME PInv, PInv', WInv, NEW r \in Request, Moves(r)
    PROVE  /\ plan' \in [Request -> SUBSET Entry]
           /\ published' \in [Request -> SUBSET VersionRow]
           /\ \A q \in Request \ {r} : plan'[q] = plan[q] /\ published'[q] = published[q]
<1>0. versions \subseteq VersionRow /\ versions' \subseteq VersionRow
  BY DEF PInv, PTypeOK, TypeOK, DBTypeOK
<1>1. UNCHANGED published \/ Publishes(r)
  BY DEF Moves, ServiceStep, PromoteStep, PromoteFail
<1>2. /\ published' \in [Request -> SUBSET VersionRow]
      /\ \A q \in Request \ {r} : published'[q] = published[q]
  BY <1>0, <1>1 DEF WInv, Publishes
<1>3. \E made \in SUBSET Entry : plan' = [plan EXCEPT ![r] = made]
  <2>1. UNCHANGED plan => plan' = [plan EXCEPT ![r] = plan[r]] BY DEF WInv
  <2>2. ForgetPlan(r) =>
          plan' = [plan EXCEPT ![r] = IF published[r] = {} THEN {} ELSE plan[r]]
    BY DEF ForgetPlan, WInv
  <2>3. ASSUME PromoteStep(r), NEW dryRun \in BOOLEAN, PromoteReadTarget(r, dryRun),
               ~ForgetPlan(r)
        PROVE  \E made \in SUBSET Entry : plan' = [plan EXCEPT ![r] = made]
    <3>1. PromoteOK(r) BY <2>3, OwnStatement
    <3>2. /\ call[r].env \in Env /\ FoundOK(r) /\ found[r] \subseteq Resolved
          /\ TypeOK /\ Tables
      BY <2>3, <3>1 DEF PromoteOK, PromoteCallOK, Call, PInv, PTypeOK, PromoteReadTarget
    <3>3. PlanFor(call[r].env, found[r]) \subseteq Entry
      BY <3>2, PlanIsGood DEF EntriesOK
    <3> QED BY <2>3, <3>3 DEF PromoteReadTarget
  <2>4. \/ UNCHANGED plan \/ ForgetPlan(r)
        \/ PromoteStep(r) /\ \E dryRun \in BOOLEAN : PromoteReadTarget(r, dryRun)
    BY DEF Moves, ServiceStep, PromoteFail, PromoteStart, promotionVars, PromoteStep,
           PromoteReadSource, PromoteInsertSecret, PromoteBump, PromoteInsertVersion,
           PromoteRecord
  <2>5. plan[r] \in SUBSET Entry BY DEF WInv
  <2> QED BY <2>1, <2>2, <2>3, <2>4, <2>5
<1> QED BY <1>2, <1>3 DEF WInv

\* Nor can it take back what they published, or change what they have inserted.
LEMMA OthersKeepTheirPlan ==
    ASSUME PInv, WInv, NEW r \in Request, PStepOK(r),
           NEW q \in Request \ {r}, SameLocals(q),
           plan'[q] = plan[q], published'[q] = published[q]
    PROVE  PlanOK(q)'
<1>0. PlanOK(q) /\ TypeOK /\ DBTypeOK /\ Tables
  BY DEF WInv, PInv, PTypeOK, TypeOK
<1>1. versions \subseteq versions' /\ todo'[q] = todo[q] /\ Respects(r)
  BY DEF PStepOK, OwnPlan
<1>2. \A v \in versions : secrets'[v.secret].key = secrets[v.secret].key
  BY <1>0, <1>1 DEF DBTypeOK, VersionRow, Tables, EveryVersionDecrypts, Respects
<1>3. Visible(q)' = Visible(q) BY <1>0, <1>2 DEF PlanOK, Visible
<1>4. Promised(q)' = Promised(q) BY DEF Promised
<1>5. InPromotion(q) /\ (Applying(q) \/ pc[q] = "commit") =>
        Inserted(pending[q])' = Inserted(pending[q])
  <2> SUFFICES ASSUME InPromotion(q), Applying(q) \/ pc[q] = "commit"
               PROVE  Inserted(pending[q])' = Inserted(pending[q])
    OBVIOUS
  <2>1. PromoteOK(q)
    BY DEF PInv, InPromotion, RequestOK, CallOK, InCall, Applying
  <2>2. \A v \in pending[q] : lock[v.secret] = q /\ v.secret \in Secret
    BY <1>0, <2>1 DEF PromoteOK, Within, Between, DBTypeOK, VersionRow
  <2>3. \A v \in pending[q] : dirty'[v.secret] = dirty[v.secret]
    BY <1>1, <2>2 DEF Respects
  <2> QED BY <2>3 DEF Inserted, SameLocals
<1> QED BY <1>0, <1>1, <1>3, <1>4, <1>5
    DEF PlanOK, SameLocals, InPromotion, Applying, Left, InHand

\* A request that has published nothing and is not applying a plan.
LEMMA NothingPlanned ==
    ASSUME NEW r \in Request, published'[r] = {},
           pc'[r] \in {"new", "readSource", "readTarget", "record", "done"} \/ ~InPromotion(r)'
    PROVE  PlanOK(r)'
BY DEF PlanOK, Applying

\* A step that stores nothing publishes nothing.
LEMMA NothingPublished ==
    ASSUME WInv, NEW r \in Request, UNCHANGED published \/ Publishes(r),
           UNCHANGED published \/ versions' = versions \/ ~InPromotion(r)
    PROVE  published'[r] = published[r]
BY DEF WInv, Publishes

\* Methods plan nothing, and publish nothing that is a promotion's.
LEMMA MethodsPlanNothing ==
    ASSUME PInv, PInv', WInv, NEW r \in Request, RequestOK(r), Moves(r),
           Start(r) \/ Step(r) \/ Fail(r)
    PROVE  PlanOK(r)'
<1>0. TypeOK /\ Local(r) BY DEF PInv, PTypeOK, Local
<1>1. pc[r] = "new" \/ InCall(r)
  <2>1. Step(r) => InCall(r)
    BY DEF Step, CreateInsertSecret, RollbackReadTarget, DescribeRow, DeleteRow, Bump,
           InsertVersion, Commit, RevealRead, RevealVersionRead, RecordAndAnswer, InCall
  <2> QED BY <2>1, StartsAreNew DEF Fail, InCall
<1>2. InCall(r) => ~InPromotion(r) BY DEF RequestOK, CallOK, InPromotion
<1>3. published[r] = {}
  BY <1>1, <1>2 DEF WInv, PlanOK, InCall
<1>4. UNCHANGED published \/ (Publishes(r) /\ InCall(r))
  <2>1. pc[r] = "new" => ~ServiceStep(r) /\ ~PromoteStep(r)
    BY DEF ServiceStep, Step, CreateInsertSecret, RollbackReadTarget, DescribeRow, DeleteRow,
           Bump, InsertVersion, Commit, RevealRead, RevealVersionRead, RecordAndAnswer,
           PromoteStep, PromoteReadSource, PromoteReadTarget, PromoteInsertSecret,
           PromoteBump, PromoteInsertVersion, PromoteRecord
  <2> QED BY <1>1, <2>1 DEF Moves, ServiceStep, PromoteStep, PromoteFail
<1>5. published'[r] = {} BY <1>2, <1>3, <1>4, NothingPublished
<1>6. pc'[r] = "done" \/ RequestOK(r)'
  <2>1. Fail(r) => pc'[r] = "done"
    BY <1>0 DEF Fail, AbortTx, Answer, Goto, TypeOK
  <2> QED BY <1>0, <2>1, StartPreserves, StatementPreserves DEF StepOK, Local
<1>7. pc'[r] \in {"new", "done"} \/ ~InPromotion(r)'
  BY <1>6 DEF RequestOK, CallOK, InCall, InPromotion
<1> QED BY <1>5, <1>7, NothingPlanned

\* Taking the next entry in hand moves it from what is left, and the loop ends
\* with nothing left.
LEMMA NextEntryKeepsPlan ==
    ASSUME TypeOK, NEW r \in Request, call[r] \in Call, todo \in [Request -> SUBSET Entry],
           NEW entries, NEW rows, NextEntry(r, entries),
           pending'[r] = rows, UNCHANGED dirty, published'[r] = {},
           Promised(r)' = Inserted(rows) \cup Left(entries)
    PROVE  PlanOK(r)'
<1>1. Inserted(pending[r])' = Inserted(rows) BY DEF Inserted
<1>2. CASE entries = {} /\ pc' = [pc EXCEPT ![r] = "commit"]
  <2>1. pc'[r] = "commit" BY <1>2 DEF TypeOK
  <2>2. Left(entries) = {} BY <1>2 DEF Left
  <2> QED BY <1>1, <2>1, <2>2 DEF PlanOK, Applying
<1>3. ASSUME NEW entry \in entries,
             call' = [call EXCEPT ![r].key = entry.key],
             sealed' = [sealed EXCEPT ![r] =
                          Encrypt(entry.value, SecretAAD(call[r].env, entry.key))],
             todo' = [todo EXCEPT ![r] = entries \ {entry}],
             pc' = [pc EXCEPT ![r] = IF entry.secret = None THEN "insertSecret" ELSE "bump"]
      PROVE  PlanOK(r)'
  <2>1. pc'[r] \in {"insertSecret", "bump"} BY <1>3 DEF TypeOK
  <2>2. /\ todo'[r] = entries \ {entry}
        /\ sealed'[r].value = entry.value
    BY <1>3 DEF TypeOK, Encrypt
  <2>3. call'[r].key = entry.key
    <3>1. call'[r] = [call[r] EXCEPT !.key = entry.key] BY <1>3 DEF TypeOK
    <3> QED BY <3>1 DEF Call
  <2>4. InHand(r)' = [key |-> entry.key, value |-> entry.value]
    BY <2>2, <2>3 DEF InHand
  <2>5. Left(entries) = Left(todo[r])' \cup {InHand(r)'}
    <3>1. Left(todo[r])' = Left(entries \ {entry}) BY <2>2 DEF Left
    <3>2. Left(entries) = Left(entries \ {entry})
                            \cup {[key |-> entry.key, value |-> entry.value]}
      BY DEF Left
    <3> QED BY <2>4, <3>1, <3>2
  <2>6. Promised(r)' = Inserted(pending[r])' \cup Left(todo[r])' \cup {InHand(r)'}
    BY <1>1, <2>5
  <2> QED BY <2>1, <2>6 DEF PlanOK
<1> QED BY <1>2, <1>3 DEF NextEntry, Goto

\* The answer, or the death of the request after its commit, leaves what was
\* published on record beside the plan.
LEMMA AnswersKeepTheRecord ==
    ASSUME PInv, WInv, NEW r \in Request, PromoteOK(r), NEW x \in {"ok", "error"},
           Answer(r, x), ForgetPlan(r), UNCHANGED <<secrets, versions>>,
           published'[r] = published[r]
    PROVE  PlanOK(r)'
<1>0. TypeOK /\ PlanOK(r) BY DEF PInv, PTypeOK, WInv
<1>1. pc'[r] = "done" /\ outcome'[r] = x BY <1>0 DEF Answer, Goto, TypeOK
<1>2. CASE published[r] = {} BY <1>1, <1>2, NothingPlanned
<1>3. CASE published[r] # {}
  <2>1. Visible(r) = Promised(r) BY <1>0, <1>3 DEF PlanOK
  <2>2. plan'[r] = plan[r] BY <1>3 DEF ForgetPlan, WInv
  <2>3. Visible(r)' = Visible(r) /\ Promised(r)' = Promised(r)
    BY <2>2 DEF Visible, Promised
  <2> QED BY <1>0, <1>1, <2>1, <2>3 DEF PlanOK, Applying
<1> QED BY <1>2, <1>3

\* Statement by statement, from the plan to the last row inserted.
LEMMA StatementsKeepThePlan ==
    ASSUME PInv, PInv', WInv, NEW r \in Request, PromoteOK(r), PromoteStep(r)
    PROVE  PlanOK(r)'
<1>0. /\ TypeOK /\ DBTypeOK /\ Tables /\ PlanOK(r) /\ PTypeOK
      /\ call[r] \in Call /\ call[r].op = "promote" /\ InPromotion(r)
      /\ todo \in [Request -> SUBSET Entry]
  BY SecretServiceAssumption DEF PInv, PTypeOK, TypeOK, WInv, PromoteOK, PromoteCallOK, InPromotion
<1>1. Publishes(r) BY DEF PromoteStep
<1>2. versions' = versions => published'[r] = published[r] BY <1>1, NothingPublished
<1>3. pc[r] \notin {"record", "done"} => published[r] = {} BY <1>0 DEF PlanOK
<1>4. ASSUME pc[r] \notin {"record", "done"}, NEW x, Answer(r, x), versions' = versions
      PROVE  PlanOK(r)'
  <2>1. pc'[r] = "done" BY <1>0, <1>4 DEF Answer, Goto, TypeOK
  <2> QED BY <2>1, <1>2, <1>3, <1>4, NothingPlanned
<1>5. ASSUME NEW filter \in SUBSET Key, PromoteReadSource(r, filter) PROVE PlanOK(r)'
  <2>1. pc[r] = "readSource" /\ versions' = versions
    BY <1>5 DEF PromoteReadSource, Refuse, dbVars
  <2>2. pc'[r] \in {"readTarget", "done"}
    BY <1>0, <1>5 DEF PromoteReadSource, Refuse, Answer, Goto, TypeOK
  <2> QED BY <2>1, <2>2, <1>2, <1>3, NothingPlanned
<1>6. ASSUME NEW dryRun \in BOOLEAN, PromoteReadTarget(r, dryRun) PROVE PlanOK(r)'
  <2>1. pc[r] = "readTarget" /\ versions' = versions /\ pending[r] = {}
    BY <1>6 DEF PromoteReadTarget, Refuse, dbVars, PromoteOK
  <2>2. ASSUME NEW x, Refuse(r, x) PROVE PlanOK(r)' BY <2>1, <2>2, <1>4 DEF Refuse
  <2>3. ASSUME plan' = [plan EXCEPT ![r] = PlanFor(call[r].env, found[r])],
               NextEntry(r, PlanFor(call[r].env, found[r])),
               UNCHANGED dbVars
        PROVE  PlanOK(r)'
    <3> DEFINE made == PlanFor(call[r].env, found[r])
    <3> HIDE DEF made
    <3>1. NextEntry(r, made) /\ plan'[r] = made BY <2>3 DEF made, WInv
    <3>2. pending'[r] = {} /\ UNCHANGED dirty BY <2>1, <2>3 DEF dbVars
    <3>3. Promised(r)' = Inserted({}) \cup Left(made)
      BY <3>1 DEF Promised, Inserted, Left
    <3> QED BY <1>0, <1>2, <1>3, <2>1, <3>1, <3>2, <3>3, NextEntryKeepsPlan
  <2> QED BY <1>6, <2>2, <2>3 DEF PromoteReadTarget
<1>7. CASE PromoteInsertSecret(r)
  <2>1. pc[r] = "insertSecret" /\ Within(r) BY <1>7 DEF PromoteInsertSecret, PromoteOK, Applying
  <2>2. CASE AbortTx(r, "conflict") BY <2>1, <2>2, <1>4 DEF AbortTx, RollbackTx
  <2>3. ASSUME NEW s \in Secret, CreateSecret(r, s, call[r].env, call[r].key),
               pc' = [pc EXCEPT ![r] = "bump"], UNCHANGED <<call, sealed>>
        PROVE  PlanOK(r)'
    <3>1. pc'[r] = "bump" /\ UNCHANGED promotionVars
      BY <1>0, <1>7, <2>3 DEF PromoteInsertSecret, TypeOK
    <3>2. /\ UNCHANGED <<versions, pending, todo, plan>>
          /\ \A t \in Secret : lock[t] = r => dirty'[t] = dirty[t]
      BY <1>0, <2>3, <3>1, SecretDBAssumption DEF CreateSecret, promotionVars, DBTypeOK
    <3>3. \A v \in pending[r] : v.secret \in Secret /\ lock[v.secret] = r
      BY <1>0, <2>1 DEF Within, DBTypeOK, VersionRow
    <3>4. Inserted(pending[r])' = Inserted(pending[r]) BY <3>2, <3>3 DEF Inserted
    <3> QED BY <1>0, <1>2, <1>3, <2>1, <2>3, <3>1, <3>2, <3>4
            DEF PlanOK, Applying, Promised, Left, InHand
  <2> QED BY <1>0, <1>7, <2>2, <2>3 DEF PromoteInsertSecret, InsertSecret, Goto
<1>8. CASE PromoteBump(r)
  <2>1. pc[r] = "bump" /\ Within(r) BY <1>8 DEF PromoteBump, Bump, PromoteOK, Applying
  <2>2. ASSUME NEW x, AbortTx(r, x) PROVE PlanOK(r)'
    BY <2>1, <2>2, <1>4 DEF AbortTx, RollbackTx
  <2>3. ASSUME BumpSecretVersion(r, cur[r]), Goto(r, "insertVersion"), UNCHANGED <<call, sealed>>
        PROVE  PlanOK(r)'
    <3>1. pc'[r] = "insertVersion" /\ UNCHANGED promotionVars
      BY <1>0, <1>8, <2>3 DEF PromoteBump, TypeOK, Goto
    <3>2. /\ UNCHANGED <<versions, pending, todo, plan>>
          /\ \A t \in Secret : t # cur[r] => dirty'[t] = dirty[t]
      BY <1>0, <2>3, <3>1 DEF BumpSecretVersion, promotionVars, DBTypeOK
    <3>3. \A v \in pending[r] : v.secret \in Secret /\ v.secret # cur[r]
      BY <1>0, <2>1 DEF Within, DBTypeOK, VersionRow
    <3>4. Inserted(pending[r])' = Inserted(pending[r]) BY <3>2, <3>3 DEF Inserted
    <3> QED BY <1>0, <1>2, <1>3, <2>1, <2>3, <3>1, <3>2, <3>4
            DEF PlanOK, Applying, Promised, Left, InHand
  <2> QED BY <1>0, <1>8, <2>2, <2>3 DEF PromoteBump, Bump
<1>9. CASE PromoteInsertVersion(r)
  <2>1. pc[r] = "insertVersion" /\ Within(r) BY <1>9 DEF PromoteInsertVersion, PromoteOK, Applying
  <2>2. CASE AbortTx(r, "conflict") BY <2>1, <2>2, <1>4 DEF AbortTx, RollbackTx
  <2>3. ASSUME CreateSecretVersion(r, NewRow(r)), NextEntry(r, todo[r]), UNCHANGED plan
        PROVE  PlanOK(r)'
    <3> DEFINE row == NewRow(r)
               rows == pending[r] \cup {row}
    <3>1. dirty[cur[r]].key = call[r].key BY <2>1 DEF Within
    <3>2. row.secret = cur[r] /\ row.sealed = sealed[r] BY DEF NewRow
    <3> HIDE DEF row
    <3>3. UNCHANGED <<versions, dirty>> /\ pending'[r] = rows
      BY <1>0, <2>3 DEF CreateSecretVersion, DBTypeOK, row
    <3>4. Inserted(rows) = Inserted(pending[r]) \cup {InHand(r)}
      <4>1. [key |-> dirty[row.secret].key, value |-> row.sealed.value] = InHand(r)
        BY <3>1, <3>2 DEF InHand
      <4> QED BY <4>1 DEF Inserted
    <3>5. Promised(r) = Inserted(pending[r]) \cup Left(todo[r]) \cup {InHand(r)}
      BY <1>0, <2>1 DEF PlanOK, Applying
    <3>6. Promised(r)' = Inserted(rows) \cup Left(todo[r])
      <4>1. Promised(r)' = Promised(r) BY <2>3 DEF Promised
      <4> QED BY <4>1, <3>4, <3>5
    <3> QED BY <1>0, <1>2, <1>3, <2>1, <2>3, <3>3, <3>6, NextEntryKeepsPlan
  <2> QED BY <1>9, <2>2, <2>3 DEF PromoteInsertVersion
<1>10. CASE PromoteRecord(r)
  BY <1>2, <1>10, AnswersKeepTheRecord DEF PromoteRecord, dbVars
<1> QED BY <1>5, <1>6, <1>7, <1>8, <1>9, <1>10 DEF PromoteStep

\* The commit publishes what was inserted, which is the plan by then.
LEMMA CommitPublishesThePlan ==
    ASSUME PInv, WInv, NEW r \in Request, PromoteOK(r), Commit(r), Publishes(r),
           UNCHANGED promotionVars
    PROVE  PlanOK(r)'
<1>0. /\ TypeOK /\ DBTypeOK /\ Tables /\ PlanOK(r)
      /\ call[r] \in Call /\ call[r].op = "promote" /\ InPromotion(r)
  BY SecretServiceAssumption DEF PInv, PTypeOK, TypeOK, WInv, PromoteOK, PromoteCallOK, InPromotion
<1>1. /\ pc[r] = "commit" /\ Between(r, {}, pending[r]) /\ CommitTx(r)
      /\ UNCHANGED call /\ plan'[r] = plan[r]
  BY DEF PromoteOK, Commit, promotionVars
<1>2. pc'[r] = "record" BY <1>0 DEF Commit, Goto, TypeOK
<1>3. Ready(r) BY <1>1 DEF Ready, Between, Applied
<1>4. versions' = versions \cup pending[r] BY <1>1 DEF CommitTx
<1>5. pending[r] \cap versions = {} BY <1>0, <1>3, RowsAreNew
<1>6. published'[r] = pending[r]
  <2>1. published[r] = {} BY <1>0, <1>1 DEF PlanOK
  <2>2. versions' \ versions = pending[r] BY <1>4, <1>5
  <2> QED BY <1>0, <2>1, <2>2 DEF Publishes, WInv
<1>7. \A v \in pending[r] : secrets'[v.secret] = dirty[v.secret]
  <2>1. \A v \in pending[r] : v.secret \in Secret /\ lock[v.secret] = r
    BY <1>0, <1>1 DEF Between, DBTypeOK, VersionRow
  <2> QED BY <1>1, <2>1 DEF CommitTx
<1>8. Visible(r)' = Inserted(pending[r]) BY <1>6, <1>7 DEF Visible, Inserted
<1>9. Promised(r)' = Inserted(pending[r]) BY <1>0, <1>1 DEF PlanOK, Promised
<1> QED BY <1>0, <1>1, <1>2, <1>4, <1>6, <1>8, <1>9 DEF PlanOK, Applying, InPromotion

\* The step of a request keeps what is known of its own plan.
LEMMA MovesKeepThePlan ==
    ASSUME PInv, PInv', WInv, NEW r \in Request, Moves(r)
    PROVE  PlanOK(r)'
<1>0. TypeOK /\ PlanOK(r) BY DEF PInv, PTypeOK, WInv
<1>1. CASE RequestOK(r) /\ (Start(r) \/ Step(r) \/ Fail(r))
  BY <1>1, MethodsPlanNothing
<1>2. CASE PromoteOK(r) /\ ServiceStep(r)
  BY <1>2, SharedStatement, CommitPublishesThePlan DEF ServiceStep
<1>3. CASE PromoteStep(r) BY <1>3, OwnStatement, StatementsKeepThePlan
<1>4. CASE PromoteOK(r) /\ PromoteFail(r)
  BY <1>4, AnswersKeepTheRecord DEF PromoteFail, Fail, AbortTx, RollbackTx
<1>5. CASE /\ \E u \in User, source, target \in Env : PromoteStart(r, u, source, target)
           /\ UNCHANGED published
  <2>1. pc[r] = "new" BY <1>5 DEF PromoteStart
  <2>2. published'[r] = {} BY <1>0, <1>5, <2>1 DEF PlanOK
  <2>3. pc'[r] \in {"readSource", "done"}
    BY <1>0, <1>5 DEF PromoteStart, Refuse, Answer, Goto, TypeOK
  <2> QED BY <2>2, <2>3, NothingPlanned
<1>6. RequestOK(r) \/ PromoteOK(r) BY DEF PInv
<1>7. ServiceStep(r) => Step(r) BY DEF ServiceStep
<1>8. PromoteFail(r) => Fail(r) BY DEF PromoteFail
<1>9. Start(r) => RequestOK(r) BY StartsAreNew DEF PInv, PromoteOK, PromoteCallOK
<1> QED BY <1>1, <1>2, <1>3, <1>4, <1>5, <1>6, <1>7, <1>8, <1>9 DEF Moves

\* Every step keeps every plan whole.
LEMMA PlansPreserved == PInv /\ PInv' /\ WInv /\ [PromotionNext]_allVars => WInv'
<1> SUFFICES ASSUME PInv, PInv', WInv, [PromotionNext]_allVars PROVE WInv' OBVIOUS
<1>0. TypeOK BY DEF PInv, PTypeOK
<1>1. CASE UNCHANGED allVars
  <2>1. UNCHANGED <<secrets, versions, dirty, pending, pc, call, sealed, outcome, todo, plan,
                    published>>
    BY <1>1 DEF allVars, promotionVars, vars, dbVars, callVars
  <2>2. ASSUME NEW r \in Request PROVE PlanOK(r)'
    <3>1. PlanOK(r) BY DEF WInv
    <3> QED BY <2>1, <3>1
            DEF PlanOK, Visible, Promised, InPromotion, Applying, Inserted, Left, InHand
  <2> QED BY <2>1, <2>2 DEF WInv
<1>2. ASSUME NEW r \in Request, Moves(r) PROVE WInv'
  <2>1. PStepOK(r) BY <1>2, PromotionStepOK
  <2>2. \A q \in Request \ {r} : SameLocals(q)
    BY <1>0, <1>2, MovesAreOfTwoKinds, OthersKeepTheirLocals, PromotionsKeepToThemselves
  <2>3. /\ plan' \in [Request -> SUBSET Entry]
        /\ published' \in [Request -> SUBSET VersionRow]
        /\ \A q \in Request \ {r} : plan'[q] = plan[q] /\ published'[q] = published[q]
    BY <1>2, PlansStayTheirOwn
  <2>4. ASSUME NEW q \in Request PROVE PlanOK(q)'
    <3>1. CASE q = r BY <1>2, <3>1, MovesKeepThePlan
    <3>2. CASE q # r BY <2>1, <2>2, <2>3, <3>2, OthersKeepTheirPlan
    <3> QED BY <3>1, <3>2
  <2> QED BY <2>3, <2>4 DEF WInv
<1>3. Quiet /\ UNCHANGED <<promotionVars, published>> => UNCHANGED allVars BY DEF Quiet, allVars
<1> QED BY <1>1, <1>2, <1>3 DEF PromotionNext, Moves

\* Every plan is whole in every reachable state.
LEMMA PlansHold == PromotionSpec => [](PInv /\ WInv)
<1>1. PromotionInit => PInv /\ WInv
  <2> SUFFICES ASSUME PromotionInit PROVE WInv
    BY PromotionInitEstablishes
  <2>1. /\ plan = [r \in Request |-> {}] /\ published = [r \in Request |-> {}]
        /\ pc = [r \in Request |-> "new"]
    BY DEF PromotionInit, Init, ServiceInit
  <2> QED BY <2>1 DEF WInv, PlanOK, Applying
<1>2. PInv /\ WInv /\ [PromotionNext]_allVars => (PInv /\ WInv)'
  BY PromotionNextPreserves, PlansPreserved
<1> QED BY <1>1, <1>2, PTL DEF PromotionSpec

\* Every variable keeps its type, a promotion's plan and what it published
\* included.
THEOREM PromotionTypeCorrect == PromotionSpec => []PromotionTypeOK
<1>1. PInv /\ WInv => PromotionTypeOK BY DEF PInv, PTypeOK, WInv, PromotionTypeOK
<1> QED BY <1>1, PlansHold, PTL

\* Nothing of a promotion or the whole of it: in no state, whoever died or was
\* turned away in between, can others read a part of a plan; and once it has
\* committed every source value it read is in the target's history.
THEOREM PromotionIsWhole == PromotionSpec => []PromotionAllOrNothing
<1>1. PInv /\ WInv => PromotionAllOrNothing
  <2> SUFFICES ASSUME PInv, WInv, NEW r \in Request
               PROVE  /\ Visible(r) \in {{}, Promised(r)}
                      /\ pc[r] = "done" /\ outcome[r] \notin {"ok", "error"} => published[r] = {}
                      /\ InPromotion(r) /\ pc[r] = "record" =>
                           \A x \in found[r] : \E v \in versions :
                              /\ secrets[v.secret].env = call[r].env
                              /\ secrets[v.secret].key = x.key
                              /\ v.sealed.value = x.value
    BY DEF PromotionAllOrNothing
  <2>1. PlanOK(r) BY DEF WInv
  <2>2. Visible(r) \in {{}, Promised(r)} BY <2>1 DEF PlanOK, Visible
  <2>3. pc[r] = "done" /\ outcome[r] \notin {"ok", "error"} => published[r] = {}
    BY <2>1 DEF PlanOK
  <2>4. InPromotion(r) /\ pc[r] = "record" => PromoteOK(r)
    BY DEF PInv, InPromotion, RequestOK, CallOK, InCall
  <2>5. PromoteOK(r) /\ pc[r] = "record" =>
          \A x \in found[r] : \E v \in versions : /\ secrets[v.secret].env = call[r].env
                                                  /\ secrets[v.secret].key = x.key
                                                  /\ v.sealed.value = x.value
    BY DEF PromoteOK, Stored
  <2> QED BY <2>2, <2>3, <2>4, <2>5
<1> QED BY <1>1, PlansHold, PTL
=============================================================================
