------------------------------ MODULE AuditTrail ------------------------------
(***************************************************************************)
(* What the audit recorder promises, without its queue, batches and        *)
(* background goroutine: events are accepted in some order; the log is     *)
(* written from the oldest accepted event on, a run of events at a time;   *)
(* a run whose write fails is given up as a whole; a killed process gives  *)
(* up whatever it had not written.  Nothing is written twice, out of order *)
(* or without having been accepted.                                        *)
(***************************************************************************)
EXTENDS Sequences, Integers

CONSTANTS
    Event,          \* events requests may record
    Unencodable     \* events whose metadata cannot be encoded: skipped

VARIABLES
    inbox,          \* accepted, not written yet, oldest first
    log             \* table audit_logs, in the order of insertion

Written(s) == SelectSeq(s, LAMBDA e : e \notin Unencodable)

Init == inbox = <<>> /\ log = <<>>

Accept(e) == inbox' = Append(inbox, e) /\ UNCHANGED log

Rest(n) == SubSeq(inbox, n + 1, Len(inbox))

Persist(n) ==
    /\ log' = log \o Written(SubSeq(inbox, 1, n))
    /\ inbox' = Rest(n)

GiveUp(n) == inbox' = Rest(n) /\ UNCHANGED log

Next ==
    \/ \E e \in Event : Accept(e)
    \/ \E n \in 1..Len(inbox) : Persist(n) \/ GiveUp(n)

Spec == Init /\ [][Next]_<<inbox, log>>
=============================================================================
