----------------------------- MODULE UpdateForm -----------------------------
(***************************************************************************)
(* UpdateSecretForm (components/SecretForms.tsx) and updateSecretAction    *)
(* (lib/actions.ts): the form that writes a new version of one secret,     *)
(* while others write versions too, answers get lost, and other actions of *)
(* the page make it render again.                                          *)
(*                                                                         *)
(* The form has no copy of the version it was opened on: its hidden field  *)
(* is the prop of the latest render.  A page runs one action at a time and *)
(* keeps those submitted meanwhile; each carries the form as it was when   *)
(* submitted.                                                              *)
(***************************************************************************)
EXTENDS Integers, Sequences

CONSTANTS
    MaxSaved,       \* bound on the versions of the secret
    MaxDrafts       \* bound on how often the form is opened

VARIABLES
    saved,          \* the versions, by number, each with the save that wrote it
    currentVersion, \* the prop: current version when the page was last rendered
    open,
    draft,          \* which text is in the form; one per opening of it
    pending,        \* this opening's button is disabled
    queue,          \* submissions of the page that were not answered
    outcome,        \* what the API made of the first of them: "none" as yet
    orphans,        \* submissions under way when the page was reloaded
    base,           \* history: the version shown when the form was opened
    rerendered      \* history: the prop changed since

formVars == <<saved, currentVersion, open, draft, pending, queue, outcome,
              orphans, base, rerendered>>

ASSUME UpdateFormAssumption == MaxSaved \in Nat \ {0} /\ MaxDrafts \in Nat

\* draft 0 is the text of somebody else.
Save == [draft : 0..MaxDrafts, expected : 1..MaxSaved, base : 1..MaxSaved,
         rerendered : BOOLEAN]
SomeoneElse(n) == [draft |-> 0, expected |-> n, base |-> n, rerendered |-> FALSE]

FormInit ==
    /\ saved = <<SomeoneElse(1)>>
    /\ currentVersion = 1 /\ base = 1
    /\ open = FALSE /\ pending = FALSE /\ rerendered = FALSE
    /\ draft = 0
    /\ queue = <<>> /\ outcome = "none"
    /\ orphans = {}

-----------------------------------------------------------------------------
(* The page *)

\* The button Edit.
OpenForm ==
    /\ ~open /\ draft < MaxDrafts
    /\ open' = TRUE
    /\ draft' = draft + 1
    /\ base' = currentVersion
    /\ pending' = FALSE /\ rerendered' = FALSE
    /\ UNCHANGED <<saved, currentVersion, queue, outcome, orphans>>

\* The button Cancel drops the text; what was submitted stays submitted.
Cancel ==
    /\ open
    /\ open' = FALSE
    /\ UNCHANGED <<saved, currentVersion, draft, pending, queue, outcome,
                   orphans, base, rerendered>>

\* Mutant: the field is missing from the form, so no version is expected.
ExpectedMissing == 0

\* The hidden field.
Expected == currentVersion

Submit ==
    /\ open /\ ~pending
    /\ pending' = TRUE
    /\ queue' = Append(queue, [draft |-> draft, expected |-> Expected,
                               base |-> base, rerendered |-> rerendered])
    /\ UNCHANGED <<saved, currentVersion, open, draft, outcome, orphans, base,
                   rerendered>>

\* New props; the state of the components stays.
Render ==
    /\ currentVersion' = Len(saved)
    /\ rerendered' = (rerendered \/ currentVersion # Len(saved))

\* The answer to the first submission.  A success renders the page again; an
\* error, the conflict among them, only shows a message.
Answered ==
    /\ outcome # "none"
    /\ pending' = (pending /\ Head(queue).draft # draft)
    /\ queue' = Tail(queue)
    /\ outcome' = "none"
    /\ IF outcome = "saved" THEN Render ELSE UNCHANGED <<currentVersion, rerendered>>
    /\ UNCHANGED <<saved, open, draft, orphans, base>>

\* Another action of the page succeeded and called revalidatePath.
RenderedByOther ==
    /\ currentVersion # Len(saved)
    /\ Render
    /\ UNCHANGED <<saved, open, draft, pending, queue, outcome, orphans, base>>

\* The browser loads the page anew: what it has sent may still arrive.
Reload ==
    /\ open' = FALSE /\ pending' = FALSE
    /\ queue' = <<>> /\ outcome' = "none"
    /\ orphans' = orphans \cup IF queue # <<>> /\ outcome = "none" THEN {Head(queue)} ELSE {}
    /\ currentVersion' = Len(saved)
    /\ UNCHANGED <<saved, draft, base, rerendered>>

-----------------------------------------------------------------------------
(* The API *)

\* SecretService.Update: the version is checked under the row's lock, and 0
\* expects none.
Fits(s) == s.expected = 0 \/ s.expected = Len(saved)

\* updateSecretAction of the first submission.  The request or its answer may
\* get lost, and the page is told of a failure in both cases.
Put(lost) ==
    /\ queue # <<>> /\ outcome = "none"
    /\ LET s == Head(queue)
       IN  \/ /\ Fits(s) /\ Len(saved) < MaxSaved
              /\ saved' = Append(saved, s)
              /\ outcome' = IF lost THEN "failed" ELSE "saved"
           \/ /\ ~Fits(s) \/ lost
              /\ saved' = saved
              /\ outcome' = IF lost THEN "failed" ELSE "conflict"
    /\ UNCHANGED <<currentVersion, open, draft, pending, queue, orphans, base,
                   rerendered>>

\* A submission the page no longer waits for.
SaveOrphan(s) ==
    /\ orphans' = orphans \ {s}
    /\ \/ Fits(s) /\ Len(saved) < MaxSaved /\ saved' = Append(saved, s)
       \/ saved' = saved
    /\ UNCHANGED <<currentVersion, open, draft, pending, queue, outcome, base,
                   rerendered>>

\* Another user, or another tab of this one.
OthersWrite ==
    /\ Len(saved) < MaxSaved
    /\ saved' = Append(saved, SomeoneElse(Len(saved)))
    /\ UNCHANGED <<currentVersion, open, draft, pending, queue, outcome,
                   orphans, base, rerendered>>

FormNext ==
    \/ OpenForm \/ Cancel \/ Submit \/ Answered \/ RenderedByOther
    \/ \E lost \in BOOLEAN : Put(lost)
    \/ \E s \in orphans : SaveOrphan(s)
    \/ OthersWrite

-----------------------------------------------------------------------------

FormTypeOK ==
    /\ saved \in Seq(Save)
    /\ currentVersion \in 1..Len(saved) /\ base \in 1..Len(saved)
    /\ open \in BOOLEAN /\ pending \in BOOLEAN /\ rerendered \in BOOLEAN
    /\ draft \in 0..MaxDrafts
    /\ queue \in Seq(Save)
    /\ outcome \in {"none", "saved", "conflict", "failed"}
    /\ orphans \subseteq Save

\* "The version this form was built from, so a concurrent edit is reported
\* rather than silently overwritten": a draft replaces the version that was on
\* the screen when its form was opened, and is saved once however often it is
\* submitted after lost answers - provided the page did not render again while
\* the form was open, which moves the hidden field on.
DraftReplacesItsBase ==
    \A n \in 1..Len(saved) :
        saved[n].draft # 0 /\ ~saved[n].rerendered =>
            /\ saved[n].base = n - 1
            /\ \A m \in 1..n - 1 : saved[m].draft # saved[n].draft
=============================================================================
