----------------------------- MODULE VersionDiff -----------------------------
(***************************************************************************)
(* VersionDiff (components/VersionDiff.tsx) on the history page of a       *)
(* secret: two selects, a button that reveals both versions in parallel,   *)
(* and the diff of whatever the component holds for the two selected       *)
(* numbers, while versions are added by this page's Restore button and by  *)
(* other people.                                                           *)
(***************************************************************************)
EXTENDS LineDiff

CONSTANTS
    MaxVersions,    \* bound on the history
    Blank,          \* the text "" after split: one empty line
    NoPair          \* no request on its way

VARIABLES
    history,        \* texts of the versions, by number; a version never changes
    listed,         \* versions the page was rendered with
    left, right,    \* the selects
    sent,           \* the pair a request is on its way for; loading otherwise
    values,         \* texts held, by version number
    visible

compareVars == <<history, listed, left, right, sent, values, visible, loopVars>>

ASSUME VersionDiffAssumption ==
    /\ MaxVersions \in Nat \ {0}
    /\ Blank \in Text
    /\ NoPair \notin (1..MaxVersions) \X (1..MaxVersions)

CompareTypeOK ==
    /\ history \in Seq(Text)
    /\ listed \in 1..Len(history)
    /\ left \in 1..listed /\ right \in 1..listed
    /\ sent \in (1..listed) \X (1..listed) \cup {NoPair}
    /\ DOMAIN values \subseteq 1..listed
    /\ \A v \in DOMAIN values : values[v] \in Text
    /\ visible \in BOOLEAN
    /\ a \in Seq(Line) /\ b \in Seq(Line)
    /\ result \in Seq(DiffLine)

\* Compares the two most recent versions by default.
CompareInit ==
    /\ history \in UNION {[1..n -> Text] : n \in 1..2}
    /\ listed = Len(history)
    /\ right = listed
    /\ left = IF listed > 1 THEN listed - 1 ELSE listed
    /\ sent = NoPair
    /\ values = <<>>
    /\ visible = FALSE
    /\ NothingCompared

\* What a render draws for version v: values[v] ?? "".
TextOf(v, held) == IF v \in DOMAIN held THEN held[v] ELSE Blank

\* The render after a change of state compares what it draws.
Draw(x, y, held, shown) ==
    IF shown THEN Load(TextOf(x, held), TextOf(y, held)) ELSE Load(<<>>, <<>>)

-----------------------------------------------------------------------------

\* Another user's update, or the API's part of Restore.
AddVersion(text) ==
    /\ Len(history) < MaxVersions
    /\ history' = Append(history, text)
    /\ UNCHANGED <<listed, left, right, sent, values, visible, loopVars>>

\* revalidatePath after Restore: new props, the state stays.
Rerender ==
    /\ DiffDone
    /\ listed' = Len(history)
    /\ Draw(left, right, values, visible)
    /\ UNCHANGED <<history, left, right, sent, values, visible>>

Select(x, y) ==
    /\ DiffDone
    /\ x = left \/ y = right
    /\ left' = x /\ right' = y
    /\ Draw(x, y, values, visible)
    /\ UNCHANGED <<history, listed, sent, values, visible>>

\* compare, up to the await: the closure keeps the selected pair.
Compare ==
    /\ DiffDone /\ sent = NoPair
    /\ sent' = <<left, right>>
    /\ UNCHANGED <<history, listed, left, right, values, visible, loopVars>>

\* Mutant: the answer is kept under the numbers selected by now.
ComparedSelected ==
    /\ DiffDone /\ sent # NoPair
    /\ values' = [v \in {left, right} |->
                    IF v = left THEN history[sent[1]] ELSE history[sent[2]]]
    /\ visible' = TRUE
    /\ sent' = NoPair
    /\ Draw(left, right, values', TRUE)
    /\ UNCHANGED <<history, listed, left, right>>

\* Both reveals returned.
Compared ==
    /\ DiffDone /\ sent # NoPair
    /\ values' = [v \in {sent[1], sent[2]} |-> history[v]]
    /\ visible' = TRUE
    /\ sent' = NoPair
    /\ Draw(left, right, values', TRUE)
    /\ UNCHANGED <<history, listed, left, right>>

\* One of them failed: an earlier comparison stays on the screen.
CompareFailed ==
    /\ DiffDone /\ sent # NoPair
    /\ sent' = NoPair
    /\ UNCHANGED <<history, listed, left, right, values, visible, loopVars>>

HideValues ==
    /\ DiffDone /\ visible
    /\ values' = <<>>
    /\ visible' = FALSE
    /\ Draw(left, right, <<>>, FALSE)
    /\ UNCHANGED <<history, listed, left, right, sent>>

DrawLine ==
    /\ LoopStep
    /\ UNCHANGED <<history, listed, left, right, sent, values, visible>>

CompareNext ==
    \/ \E text \in Text : AddVersion(text)
    \/ \E x, y \in 1..listed : Select(x, y)
    \/ Rerender \/ Compare \/ Compared \/ CompareFailed \/ HideValues
    \/ DrawLine

CompareSpec == CompareInit /\ [][CompareNext]_compareVars

-----------------------------------------------------------------------------

\* A version's number never stands over another version's text, whatever was
\* selected or added while the two reveals were on their way; a selected version
\* that is not held is drawn as empty.
NumberStandsOverItsText ==
    /\ \A v \in DOMAIN values : values[v] = history[v]
    /\ visible => /\ a \in {history[left], Blank}
                  /\ b \in {history[right], Blank}
=============================================================================
