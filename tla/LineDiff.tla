------------------------------ MODULE LineDiff ------------------------------
(***************************************************************************)
(* diffLines (components/VersionDiff.tsx): the line diff of two texts by a *)
(* longest common subsequence, one action per turn of its loops.           *)
(* JavaScript runs it to the end before anything else happens on the page. *)
(***************************************************************************)
EXTENDS Integers, Sequences, FiniteSets

CONSTANTS
    Line,
    Text            \* texts that may be compared, each a sequence of lines

VARIABLES
    a, b,           \* before.split("\n"), after.split("\n")
    i, j,           \* first lines of a and of b the loops have not consumed
    result          \* entries so far; the text of an entry is that of its lines

loopVars == <<a, b, i, j, result>>

\* from and to are the lines of a and of b an entry stands for, 0 for none.
DiffLine == [kind : {"same", "added", "removed"}, from : Nat, to : Nat]

ASSUME LineDiffAssumption == Text \subseteq Seq(Line)

\* A call of diffLines.
Load(before, after) ==
    /\ a' = before /\ b' = after
    /\ i' = 1 /\ j' = 1
    /\ result' = <<>>

NothingCompared ==
    /\ a = <<>> /\ b = <<>>
    /\ i = 1 /\ j = 1
    /\ result = <<>>

DiffDone == i > Len(a) /\ j > Len(b)

-----------------------------------------------------------------------------
(* The table *)

Larger(m, n) == IF m >= n THEN m ELSE n

\* Mutant: the table counts no line twice, even if it occurs in both texts twice.
LengthsCapped(s, t) ==
    LET len[p \in (1..Len(s) + 1) \X (1..Len(t) + 1)] ==
            IF p[1] > Len(s) \/ p[2] > Len(t) THEN 0
            ELSE IF s[p[1]] = t[p[2]] THEN 1
            ELSE Larger(len[<<p[1] + 1, p[2]>>], len[<<p[1], p[2] + 1>>])
    IN  len

\* lengths[x][y] is the LCS length of s from x on and t from y on.
Lengths(s, t) ==
    LET len[p \in (1..Len(s) + 1) \X (1..Len(t) + 1)] ==
            IF p[1] > Len(s) \/ p[2] > Len(t) THEN 0
            ELSE IF s[p[1]] = t[p[2]] THEN len[<<p[1] + 1, p[2] + 1>>] + 1
            ELSE Larger(len[<<p[1] + 1, p[2]>>], len[<<p[1], p[2] + 1>>])
    IN  len

-----------------------------------------------------------------------------
(* The loops *)

Push(kind, from, to) ==
    result' = Append(result, [kind |-> kind, from |-> from, to |-> to])

BothLeft == i <= Len(a) /\ j <= Len(b)

SameLine ==
    /\ BothLeft /\ a[i] = b[j]
    /\ Push("same", i, j)
    /\ i' = i + 1 /\ j' = j + 1
    /\ UNCHANGED <<a, b>>

\* A line of a is dropped if that loses no common line, or b is used up.
RemovedLine ==
    /\ i <= Len(a)
    /\ BothLeft => /\ a[i] # b[j]
                   /\ Lengths(a, b)[<<i + 1, j>>] >= Lengths(a, b)[<<i, j + 1>>]
    /\ Push("removed", i, 0)
    /\ i' = i + 1
    /\ UNCHANGED <<a, b, j>>

AddedLine ==
    /\ j <= Len(b)
    /\ BothLeft => /\ a[i] # b[j]
                   /\ Lengths(a, b)[<<i + 1, j>>] < Lengths(a, b)[<<i, j + 1>>]
    /\ Push("added", 0, j)
    /\ j' = j + 1
    /\ UNCHANGED <<a, b, i>>

LoopStep == SameLine \/ RemovedLine \/ AddedLine

\* diffLines by itself.
DiffNext == LoopStep \/ (DiffDone /\ \E s, t \in Text : Load(s, t))

DiffSpec == NothingCompared /\ [][DiffNext]_loopVars

-----------------------------------------------------------------------------
(* What a diff promises *)

Entries == 1..Len(result)

\* Reading the entries that are not added gives the lines of a consumed so
\* far, in order and once each; those that are not removed give the lines of b;
\* and an entry that stands for two lines stands for equal ones.
DiffReconstructs ==
    /\ \A x \in 1..i - 1 : \E n \in Entries : result[n].from = x
    /\ \A y \in 1..j - 1 : \E n \in Entries : result[n].to = y
    /\ \A m, n \in Entries : m < n =>
         /\ result[m].from # 0 /\ result[n].from # 0 => result[m].from < result[n].from
         /\ result[m].to # 0 /\ result[n].to # 0 => result[m].to < result[n].to
    /\ \A n \in Entries :
         /\ result[n].from \in 0..i - 1 /\ result[n].to \in 0..j - 1
         /\ result[n].kind = "same" <=> result[n].from # 0 /\ result[n].to # 0
         /\ result[n].kind = "same" => a[result[n].from] = b[result[n].to]

\* Sets of pairs of equal lines in the same order in both texts.
Common(s, t) ==
    {C \in SUBSET {p \in (1..Len(s)) \X (1..Len(t)) : s[p[1]] = t[p[2]]} :
        \A p, q \in C : p # q => (p[1] < q[1] /\ p[2] < q[2])
                                   \/ (q[1] < p[1] /\ q[2] < p[2])}

\* "Inserting one line at the top of a multi-line secret shows as a single
\* addition": no diff of the two texts keeps more lines than this one, and it
\* is a diff of these texts.
DiffIsShortest ==
    /\ DiffReconstructs
    /\ DiffDone => \A C \in Common(a, b) :
         Cardinality(C) <= Cardinality({n \in Entries : result[n].kind = "same"})
=============================================================================
