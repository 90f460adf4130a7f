---------------------------- MODULE AuditListing ----------------------------
(***************************************************************************)
(* Reading the audit log page by page (AuditService.List in               *)
(* internal/service/audit.go, the query ListAuditLogs, and the link "Load  *)
(* older activity" of the activity page), while the recorders of the API's *)
(* processes go on appending to it.                                        *)
(*                                                                         *)
(* A recorder writes a batch in one transaction.  The column created_at    *)
(* has the default now(), which in PostgreSQL is the time at which the     *)
(* transaction began: every row of a batch has the same one, and it may be *)
(* older than that of rows committed before.  Ties are broken by the id, a *)
(* random uuid.  No statement deletes or changes a row.                    *)
(***************************************************************************)
EXTENDS Integers, Sequences, FiniteSets

CONSTANTS
    Recorder,       \* one per API process
    RowId,          \* ids of rows; random, so their order means nothing
    Action,         \* values of the column action, on which the feed filters
    Limits,         \* page sizes a client asks for; 0 stands for none
    DefaultLimit, MaxLimit,
    MaxTime,        \* bound on the clock, in microseconds
    NoRow           \* no cursor, no filter, no open transaction

VARIABLES
    now,            \* the database server's clock
    rows,           \* committed rows of audit_logs of one workspace
    batch,          \* per recorder, the rows its open transaction inserted
    member,         \* the reader is a member of the workspace
    walk,           \* "idle", "paging", "ended": how far the reader has come
    cursor,         \* the nextCursor of the page on screen
    filter,         \* the action the feed is filtered on
    pages,          \* the pages of this walk, newest first
    present         \* rows the filter matched when the walk's first page was read

readerVars == <<walk, cursor, filter, pages, present>>
auditVars == <<now, rows, batch, member, readerVars>>

\* The column order is (created_at, id); by is the process that wrote the row.
Row == [at : 1..MaxTime, id : RowId, action : Action, by : Recorder]

ASSUME AuditListingAssumption ==
    /\ RowId \subseteq Int
    /\ MaxTime \in Nat \ {0}
    /\ Limits \subseteq Int
    /\ DefaultLimit \in Nat \ {0}
    /\ MaxLimit \in Nat \ {0}
    /\ NoRow \notin Row /\ NoRow \notin Action

ListingTypeOK ==
    /\ now \in 1..MaxTime
    /\ rows \subseteq Row
    /\ batch \in [Recorder -> SUBSET Row]
    /\ member \in BOOLEAN
    /\ walk \in {"idle", "paging", "ended"}
    /\ cursor \in Row \cup {NoRow}
    /\ filter \in Action \cup {NoRow}
    /\ pages \in Seq(SUBSET Row)
    /\ present \subseteq Row

NoWalk ==
    /\ walk = "idle"
    /\ cursor = NoRow
    /\ filter = NoRow
    /\ pages = <<>>
    /\ present = {}

ListingInit ==
    /\ now = 1
    /\ rows = {}
    /\ batch = [p \in Recorder |-> {}]
    /\ member = TRUE
    /\ NoWalk

-----------------------------------------------------------------------------
(* Recorders *)

Clock ==
    /\ now < MaxTime
    /\ now' = now + 1
    /\ UNCHANGED <<rows, batch, member, readerVars>>

UsedId == {r.id : r \in rows \cup UNION {batch[p] : p \in Recorder}}

\* flush: BEGIN and the INSERTs of a batch.  A process has one transaction at a
\* time, and the round trips of one take longer than the clock's resolution.
Insert(p, ids, action) ==
    /\ batch[p] = {}
    /\ ids # {} /\ ids \cap UsedId = {}
    /\ \A r \in rows : r.by = p => r.at < now
    /\ batch' = [batch EXCEPT ![p] =
                   {[at |-> now, id |-> i, action |-> action[i], by |-> p] : i \in ids}]
    /\ UNCHANGED <<now, rows, member, readerVars>>

Commit(p) ==
    /\ batch[p] # {}
    /\ rows' = rows \cup batch[p]
    /\ batch' = [batch EXCEPT ![p] = {}]
    /\ UNCHANGED <<now, member, readerVars>>

Abort(p) ==
    /\ batch[p] # {}
    /\ batch' = [batch EXCEPT ![p] = {}]
    /\ UNCHANGED <<now, rows, member, readerVars>>

-----------------------------------------------------------------------------
(* The query *)

\* (r.created_at, r.id) > (s.created_at, s.id)
Newer(r, s) == r.at > s.at \/ (r.at = s.at /\ r.id > s.id)

\* Mutant: the page starts after the cursor's created_at, whatever the id.
BelowTime(wanted, from) ==
    {r \in rows : /\ wanted # NoRow => r.action = wanted
                  /\ from # NoRow => r.at < from.at}

\* Mutant: the row of the cursor is listed again.
BelowOrAt(wanted, from) ==
    {r \in rows : /\ wanted # NoRow => r.action = wanted
                  /\ from # NoRow => Newer(from, r) \/ r = from}

\* The WHERE clause.
Below(wanted, from) ==
    {r \in rows : /\ wanted # NoRow => r.action = wanted
                  /\ from # NoRow => Newer(from, r)}

\* top is what ORDER BY created_at DESC, id DESC LIMIT n makes of S.
IsTop(top, S, n) ==
    /\ top \subseteq S
    /\ \A r \in top, s \in S \ top : Newer(r, s)
    /\ IF top = S THEN Cardinality(top) <= n ELSE Cardinality(top) = n

Limit(asked) ==
    IF asked <= 0 THEN DefaultLimit ELSE IF asked > MaxLimit THEN MaxLimit ELSE asked

\* Mutant: the cursor is the extra row that told there is another page.
CursorOfExtra(page, fetched, last) == last \in fetched \ page

\* EncodeAuditCursor of the last row of the page.
IsCursor(page, fetched, last) ==
    /\ last \in page
    /\ \A r \in page : r = last \/ Newer(r, last)

-----------------------------------------------------------------------------
(* The reader *)

\* One page below from, one row more being fetched than shown.
Page(asked, wanted, from, earlier) ==
    \E fetched \in SUBSET Below(wanted, from) :
        /\ IsTop(fetched, Below(wanted, from), Limit(asked) + 1)
        /\ \/ /\ Cardinality(fetched) <= Limit(asked)
              /\ pages' = Append(earlier, fetched)
              /\ walk' = "ended"
              /\ cursor' = NoRow
           \/ /\ Cardinality(fetched) > Limit(asked)
              /\ \E page \in SUBSET fetched, last \in fetched :
                   /\ IsTop(page, fetched, Limit(asked))
                   /\ IsCursor(page, fetched, last)
                   /\ pages' = Append(earlier, page)
                   /\ cursor' = last
              /\ walk' = "paging"

\* The activity page without a cursor: any member may read the log.
FirstPage(asked, wanted) ==
    /\ member
    /\ filter' = wanted
    /\ present' = Below(wanted, NoRow)
    /\ Page(asked, wanted, NoRow, <<>>)
    /\ UNCHANGED <<now, rows, batch, member>>

\* "Load older activity": the link carries the cursor and the filter.
NextPage(asked) ==
    /\ member /\ walk = "paging"
    /\ Page(asked, filter, cursor, pages)
    /\ UNCHANGED <<now, rows, batch, member, filter, present>>

\* RequireWorkspaceRole fails: not found.
Refused ==
    /\ ~member /\ walk # "idle"
    /\ walk' = "idle"
    /\ cursor' = NoRow
    /\ filter' = NoRow
    /\ pages' = <<>>
    /\ present' = {}
    /\ UNCHANGED <<now, rows, batch, member>>

ChangeMembership ==
    /\ member' = ~member
    /\ UNCHANGED <<now, rows, batch, readerVars>>

ListingNext ==
    \/ Clock
    \/ \E p \in Recorder :
         \/ \E ids \in SUBSET RowId : \E action \in [ids -> Action] :
              Insert(p, ids, action)
         \/ Commit(p) \/ Abort(p)
    \/ \E asked \in Limits :
         \/ \E wanted \in Action \cup {NoRow} : FirstPage(asked, wanted)
         \/ NextPage(asked)
    \/ Refused \/ ChangeMembership

ListingSpec == ListingInit /\ [][ListingNext]_auditVars

-----------------------------------------------------------------------------
(* What paging promises *)

Shown == UNION {pages[i] : i \in 1..Len(pages)}

\* "No row is ever seen twice", and each page is older than the one before,
\* however many rows are appended between two pages (ListAuditLogs).
PagesDescend ==
    \A i, j \in 1..Len(pages) : i < j =>
        \A r \in pages[i], s \in pages[j] : Newer(r, s)

\* A walk that was followed to its end has shown every row the filter matched
\* when it began: nextCursor is empty only when nothing older is left, and a
\* page boundary inside a batch of equal created_at loses none of its rows.
WalkShowsWhatWasThere == walk = "ended" => present \subseteq Shown

\* Both: a walk shows what was there when it began, each row once and in order.
PagingIsExact == PagesDescend /\ WalkShowsWhatWasThere

\* Rows a walk has passed without showing them: they are newer than its cursor
\* and older than a row it has shown.
Missed ==
    {r \in Below(filter, NoRow) \ Shown :
        /\ cursor # NoRow => Newer(r, cursor)
        /\ \E s \in Shown : Newer(s, r)}

\* A row is missed only when another process's transaction, begun no earlier,
\* committed first: with one API process no row is ever missed.
OnlyOverlapMisses ==
    \A r \in Missed : \E s \in Shown : s.by # r.by /\ s.at >= r.at
=============================================================================
