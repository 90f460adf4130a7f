----------------------------- MODULE KeyRotation -----------------------------
(***************************************************************************)
(* Rotating the master key (cmd/rotate-key/main.go, Keyring.Rewrap), while *)
(* the API may be writing secret versions.                                 *)
(*                                                                         *)
(* A row of secret_versions is reduced to the data key its ciphertext was  *)
(* sealed with and its wrapped_dek: which data key is wrapped, and under   *)
(* which master key.  Ids are random uuids, so a new row lands anywhere in *)
(* id order, before or behind the rotation's cursor.                       *)
(***************************************************************************)
EXTENDS Integers, FiniteSets

CONSTANTS
    N,          \* ids, in uuid order: 1..N
    Rotator,    \* runs of rotate-key that may overlap
    BatchSize,  \* -batch
    Plans,      \* whether operators may, and may not, stop the API first
    None        \* no row

VARIABLES
    rows,       \* table secret_versions
    planned,    \* the API is stopped before the rotation starts
    api,        \* the master key the API was started with, or "stopped"
    copied,     \* the row a Rollback of the API has read and will append
    pc,         \* per run of rotate-key
    dry,        \* its -dry-run flag
    cursor,     \* last id it has listed; 0 is uuid.Nil
    updates,    \* wrapped keys it will write in the batch's transaction
    before      \* rows that were there when it started

apiVars == <<planned, api, copied>>
runVars == <<pc, dry, cursor, updates, before>>
vars == <<rows, apiVars, runVars>>

Id == 1..N
Wrapped == [dek : Id, under : {"current", "next", "other"}]
Row == [sealedWith : Id, wrapped : Wrapped]

ASSUME KeyRotationAssumption ==
    /\ N \in Nat /\ BatchSize \in Nat \ {0}
    /\ Plans \subseteq BOOLEAN
    /\ None \notin Row

TypeOK ==
    /\ rows \in [Id -> Row \cup {None}]
    /\ planned \in BOOLEAN
    /\ api \in {"current", "next", "stopped"}
    /\ copied \in Row \cup {None}
    /\ pc \in [Rotator -> {"idle", "list", "update", "done", "failed"}]
    /\ dry \in [Rotator -> BOOLEAN]
    /\ cursor \in [Rotator -> 0..N]
    /\ updates \in [Rotator -> SUBSET [id : Id, wrapped : Wrapped]]
    /\ before \in [Rotator -> SUBSET Id]

Present == {i \in Id : rows[i] # None}

Seal(i, key) == [sealedWith |-> i, wrapped |-> [dek |-> i, under |-> key]]

\* The table before the rotation: written under the current key, save perhaps
\* one row of a restored backup that belongs to some other key.
Init ==
    /\ \E present \in SUBSET Id : \E foreign \in {{}} \cup {{i} : i \in present} :
          rows = [i \in Id |-> IF i \notin present THEN None
                               ELSE IF i \in foreign THEN Seal(i, "other")
                               ELSE Seal(i, "current")]
    /\ planned \in Plans
    /\ api = "current"
    /\ copied = None
    /\ pc = [x \in Rotator |-> "idle"]
    /\ dry = [x \in Rotator |-> FALSE]
    /\ cursor = [x \in Rotator |-> 0]
    /\ updates = [x \in Rotator |-> {}]
    /\ before = [x \in Rotator |-> {}]

-----------------------------------------------------------------------------
(* The API *)

\* Encrypt draws a fresh data key and wraps it under the API's master key.
ApiWrite(i) ==
    /\ api # "stopped" /\ rows[i] = None
    /\ rows' = [rows EXCEPT ![i] = Seal(i, api)]
    /\ UNCHANGED <<apiVars, runVars>>

\* Rollback reads an old version ...
ApiCopyRead(i) ==
    /\ api # "stopped" /\ rows[i] # None /\ copied = None
    /\ copied' = rows[i]
    /\ UNCHANGED <<rows, planned, api, runVars>>

\* ... and appends its wrapped key and ciphertext as they were.
ApiCopyWrite(i) ==
    /\ copied # None /\ rows[i] = None
    /\ rows' = [rows EXCEPT ![i] = copied]
    /\ copied' = None
    /\ UNCHANGED <<planned, api, runVars>>

\* The operator: stop the API, and start it with the new key after a run that
\* asked for it.
ApiStop ==
    /\ api = "current"
    /\ planned
    /\ api' = "stopped" /\ copied' = None
    /\ UNCHANGED <<rows, planned, runVars>>

\* Mutant: an interrupted run asks for the restart as well.
ApiRestartAnyway ==
    /\ api = IF planned THEN "stopped" ELSE "current"
    /\ \E x \in Rotator : pc[x] \in {"done", "failed"}
    /\ api' = "next" /\ copied' = None
    /\ UNCHANGED <<rows, planned, runVars>>

ApiRestart ==
    /\ api = IF planned THEN "stopped" ELSE "current"
    /\ \E x \in Rotator : pc[x] = "done"
    /\ \A x \in Rotator : pc[x] \in {"idle", "done"}
    /\ api' = "next" /\ copied' = None
    /\ UNCHANGED <<rows, planned, runVars>>

-----------------------------------------------------------------------------
(* rotate-key *)

\* The command is started, again after an interrupted run.  With no rows to
\* rotate it ends at once, without asking for the restart.
Run(x, dryRun) ==
    /\ pc[x] \in {"idle", "failed"}
    /\ planned => api = "stopped"
    /\ pc' = [pc EXCEPT ![x] = IF Present = {} THEN "idle" ELSE "list"]
    /\ dry' = [dry EXCEPT ![x] = dryRun]
    /\ cursor' = [cursor EXCEPT ![x] = 0]
    /\ updates' = [updates EXCEPT ![x] = {}]
    /\ before' = [before EXCEPT ![x] = Present]
    /\ UNCHANGED <<rows, apiVars>>

\* WHERE id > cursor ORDER BY id LIMIT batch.
ListSecretVersionsForRotation(after) ==
    {i \in Present : i > after /\
       Cardinality({j \in Present : after < j /\ j <= i}) <= BatchSize}

\* Mutant: the data key is not carried over.
RewrapFresh(i) == [id |-> i, wrapped |-> [dek |-> CHOOSE j \in Id : TRUE, under |-> "next"]]

\* Unwrap under the current key, wrap under the next one.
Rewrap(i) == [id |-> i, wrapped |-> [rows[i].wrapped EXCEPT !.under = "next"]]

LastOf(batch) == CHOOSE i \in batch : \A j \in batch : j <= i

\* Mutant: skips the row after the batch.
PastLastOf(batch) == IF LastOf(batch) < N THEN LastOf(batch) + 1 ELSE N

CursorAfter(batch) == LastOf(batch)

\* One turn of the loop up to the transaction.  A row that opens under neither
\* key ends the run; a row on the next key is skipped.
List(x) ==
    /\ pc[x] = "list"
    /\ LET batch == ListSecretVersionsForRotation(cursor[x]) IN
       IF batch = {}
       THEN /\ pc' = [pc EXCEPT ![x] = IF dry[x] THEN "idle" ELSE "done"]
            /\ UNCHANGED <<cursor, updates>>
       ELSE IF \E i \in batch : rows[i].wrapped.under = "other"
       THEN /\ pc' = [pc EXCEPT ![x] = "failed"]
            /\ UNCHANGED <<cursor, updates>>
       ELSE /\ updates' = [updates EXCEPT ![x] = IF dry[x] THEN {} ELSE
                 {Rewrap(i) : i \in {j \in batch : rows[j].wrapped.under = "current"}}]
            /\ cursor' = [cursor EXCEPT ![x] = CursorAfter(batch)]
            /\ pc' = [pc EXCEPT ![x] = IF dry[x] THEN "list" ELSE "update"]
    /\ UNCHANGED <<rows, apiVars, dry, before>>

\* The batch's transaction: UPDATE ... SET wrapped_dek WHERE id.
UpdateBatch(x) ==
    /\ pc[x] = "update"
    /\ rows' = [i \in Id |->
         IF \E u \in updates[x] : u.id = i
         THEN [rows[i] EXCEPT !.wrapped =
                 (CHOOSE u \in updates[x] : u.id = i).wrapped]
         ELSE rows[i]]
    /\ pc' = [pc EXCEPT ![x] = "list"]
    /\ updates' = [updates EXCEPT ![x] = {}]
    /\ UNCHANGED <<apiVars, dry, cursor, before>>

\* Interrupted, killed, or a statement failed: the open transaction is lost.
Interrupt(x) ==
    /\ pc[x] \in {"list", "update"}
    /\ pc' = [pc EXCEPT ![x] = "failed"]
    /\ updates' = [updates EXCEPT ![x] = {}]
    /\ UNCHANGED <<rows, apiVars, dry, cursor, before>>

\* The operator looks at a finished run and may start another.
Acknowledge(x) ==
    /\ pc[x] = "done" /\ api = "next"
    /\ pc' = [pc EXCEPT ![x] = "idle"]
    /\ UNCHANGED <<rows, apiVars, dry, cursor, updates, before>>

Next ==
    \/ \E i \in Id : ApiWrite(i) \/ ApiCopyRead(i) \/ ApiCopyWrite(i)
    \/ ApiStop \/ ApiRestart
    \/ \E x \in Rotator :
         \/ \E dryRun \in BOOLEAN : Run(x, dryRun)
         \/ List(x) \/ UpdateBatch(x) \/ Interrupt(x) \/ Acknowledge(x)

Spec == Init /\ [][Next]_vars

-----------------------------------------------------------------------------
(* What a rotation promises *)

\* Rotation leaves the plaintext recoverable: the data key wrapped in a row is
\* always the one its ciphertext was sealed with, through overlapping and
\* interrupted runs and copies by the API.
DataKeyPreserved ==
    \A i \in Present : rows[i].wrapped.dek = rows[i].sealedWith

\* A run that reports success has moved every row that was there when it
\* started, even if earlier runs were interrupted, another run overlaps it and
\* the API keeps inserting rows around its cursor.
RunCoversItsStart ==
    \A x \in Rotator : pc[x] = "done" =>
        \A i \in before[x] : rows[i].wrapped.under = "next"

\* A data key on the next master key is never put back under another one, so
\* an interrupted run loses nothing that was committed.
NeverUnrotated ==
    [][\A i \in Present : rows[i].wrapped.under = "next" => rows'[i] = rows[i]]_vars

\* An operator who stops the API for the rotation, and starts it with the next
\* key after a successful run, has an API that can unwrap every row.
PlannedRestartReadsAll ==
    planned /\ api = "next" => \A i \in Present : rows[i].wrapped.under = "next"

\* rotate-key "re-encrypts every stored data key": when the last query of a run
\* finds nothing more to rotate and the run goes on to report success, no stored
\* row is left under another key, whether or not the API is running.  What that
\* query does not see can only be at or before the cursor: written there by the
\* API after the run went past, with a fresh data key or a copied old one.
RotatesEveryStoredKey ==
    \A x \in Rotator :
        /\ pc[x] = "list" /\ ~dry[x]
        /\ ListSecretVersionsForRotation(cursor[x]) = {}
        => \A i \in Present : rows[i].wrapped.under = "next"
=============================================================================
