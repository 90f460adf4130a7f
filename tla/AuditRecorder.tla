---------------------------- MODULE AuditRecorder ----------------------------
(***************************************************************************)
(* AuditRecorder (internal/service/audit.go) and the shutdown of the API   *)
(* process that owns it (cmd/api/main.go).                                 *)
(*                                                                         *)
(* Request handlers call Record, which sends to a buffered channel without *)
(* blocking.  One goroutine receives, batches and writes one transaction   *)
(* per batch.  main stops the server, waits for handlers to finish up to a *)
(* timeout, closes the recorder, and only then the database pool, which    *)
(* waits for every connection that is still in use.                        *)
(***************************************************************************)
EXTENDS Integers, Sequences, FiniteSets, Functions

CONSTANTS
    Event,          \* one per request: the event its handler will record
    Unencodable,    \* events json.Marshal rejects
    QueueSize,      \* capacity of the channel
    FlushSize       \* events per batch

VARIABLES
    queue,          \* the channel r.events
    closed,         \* the channel has been closed
    batch,          \* events received and not written
    writer,         \* where run is: "select", "flush", "last flush", "stopped"
    log,            \* table audit_logs
    handler,        \* per event, how far its request has come
    conns,          \* requests that hold a connection of the database pool
    dropped,        \* the counter of events discarded at a full queue
    main,           \* "serving", "draining", "closing", "closing pool",
                    \* "exited", "killed"
    stop            \* how main came to close the recorder

vars == <<queue, closed, batch, writer, log, handler, conns, dropped, main, stop>>

ASSUME AuditRecorderAssumption ==
    /\ Unencodable \subseteq Event
    /\ QueueSize \in Nat \ {0}
    /\ FlushSize \in Nat \ {0}

TypeOK ==
    /\ queue \in Seq(Event) /\ Len(queue) <= QueueSize
    /\ closed \in BOOLEAN
    /\ batch \in Seq(Event) /\ Len(batch) <= FlushSize
    /\ writer \in {"select", "flush", "last flush", "stopped"}
    /\ log \in Seq(Event)
    /\ handler \in [Event -> {"new", "running", "returned", "accepted", "dropped",
                              "panicked", "gone"}]
    /\ conns \subseteq Event
    /\ dropped \in Nat
    /\ main \in {"serving", "draining", "closing", "closing pool", "exited", "killed"}
    /\ stop \in {"none", "orderly", "timeout", "failed"}

Init ==
    /\ queue = <<>>
    /\ closed = FALSE
    /\ batch = <<>>
    /\ writer = "select"
    /\ log = <<>>
    /\ handler = [e \in Event |-> "new"]
    /\ conns = {}
    /\ dropped = 0
    /\ main = "serving"
    /\ stop = "none"

Alive == main \notin {"exited", "killed"}
Closing == main \in {"closing", "closing pool"}

-----------------------------------------------------------------------------
(* Handlers *)

Serve(e) ==
    /\ main = "serving" \/ (Closing /\ stop = "failed")
    /\ handler[e] = "new"
    /\ handler' = [handler EXCEPT ![e] = "running"]
    /\ UNCHANGED <<queue, closed, batch, writer, log, conns, dropped, main, stop>>

\* A query or a transaction of a request takes a connection out of the pool: in
\* its handler, before it records or after (a registration opens its session
\* last), or in the goroutine that notes a token's use and outlives the handler.
\* A pool that is being closed refuses.
Acquire(e) ==
    /\ Alive /\ main # "closing pool"
    /\ handler[e] # "new"
    /\ conns' = conns \cup {e}
    /\ UNCHANGED <<queue, closed, batch, writer, log, handler, dropped, main, stop>>

\* Mutant: a handler that returns an error leaves its transaction open.
ReleaseUnlessReturned(e) ==
    /\ Alive /\ e \in conns /\ handler[e] # "returned"
    /\ conns' = conns \ {e}
    /\ UNCHANGED <<queue, closed, batch, writer, log, handler, dropped, main, stop>>

\* The query was answered, or InTx committed or rolled back.
Release(e) ==
    /\ Alive /\ e \in conns
    /\ conns' = conns \ {e}
    /\ UNCHANGED <<queue, closed, batch, writer, log, handler, dropped, main, stop>>

\* A request that reports nothing: most reads, and every error, also that of a
\* pool that is closed.
Return(e) ==
    /\ Alive /\ handler[e] = "running"
    /\ handler' = [handler EXCEPT ![e] = "returned"]
    /\ UNCHANGED <<queue, closed, batch, writer, log, conns, dropped, main, stop>>

\* select with a default: a full queue drops the event; a send on a closed
\* channel panics (recovered by the HTTP server) and the event is lost.
Record(e) ==
    /\ Alive /\ handler[e] = "running"
    /\ \/ /\ closed
          /\ handler' = [handler EXCEPT ![e] = "panicked"]
          /\ UNCHANGED <<queue, dropped>>
       \/ /\ ~closed /\ Len(queue) < QueueSize
          /\ queue' = Append(queue, e)
          /\ handler' = [handler EXCEPT ![e] = "accepted"]
          /\ UNCHANGED dropped
       \/ /\ ~closed /\ Len(queue) >= QueueSize
          /\ dropped' = dropped + 1
          /\ handler' = [handler EXCEPT ![e] = "dropped"]
          /\ UNCHANGED queue
    /\ UNCHANGED <<closed, batch, writer, log, conns, main, stop>>

-----------------------------------------------------------------------------
(* run *)

\* Mutant: newest first.
ReceiveLast ==
    /\ Alive /\ writer = "select" /\ queue # <<>>
    /\ batch' = Append(batch, queue[Len(queue)])
    /\ queue' = SubSeq(queue, 1, Len(queue) - 1)
    /\ writer' = IF Len(batch') >= FlushSize THEN "flush" ELSE "select"
    /\ UNCHANGED <<closed, log, handler, conns, dropped, main, stop>>

Receive ==
    /\ Alive /\ writer = "select" /\ queue # <<>>
    /\ batch' = Append(batch, Head(queue))
    /\ queue' = Tail(queue)
    /\ writer' = IF Len(batch') >= FlushSize THEN "flush" ELSE "select"
    /\ UNCHANGED <<closed, log, handler, conns, dropped, main, stop>>

\* Mutant: the ticker only flushes a full batch.
TickWhenFull ==
    /\ Alive /\ writer = "select" /\ Len(batch) >= FlushSize
    /\ writer' = "flush"
    /\ UNCHANGED <<queue, closed, batch, log, handler, conns, dropped, main, stop>>

\* The ticker fires.
Tick ==
    /\ Alive /\ writer = "select" /\ batch # <<>>
    /\ writer' = "flush"
    /\ UNCHANGED <<queue, closed, batch, log, handler, conns, dropped, main, stop>>

\* Mutant: run returns without the last flush.
StopUnflushed ==
    /\ Alive /\ writer = "select" /\ closed /\ queue = <<>>
    /\ writer' = "stopped"
    /\ UNCHANGED <<queue, closed, batch, log, handler, conns, dropped, main, stop>>

\* A closed channel is drained before a receive reports it closed.
ReceiveClosed ==
    /\ Alive /\ writer = "select" /\ closed /\ queue = <<>>
    /\ writer' = IF batch = <<>> THEN "stopped" ELSE "last flush"
    /\ UNCHANGED <<queue, closed, batch, log, handler, conns, dropped, main, stop>>

Encodable(s) == SelectSeq(s, LAMBDA e : e \notin Unencodable)

\* The batch is gone either way: a transaction that fails is only logged.
AfterFlush ==
    /\ batch' = <<>>
    /\ writer' = IF writer = "flush" THEN "select" ELSE "stopped"
    /\ UNCHANGED <<queue, closed, handler, conns, dropped, main, stop>>

\* Also when only the answer to COMMIT is lost: the batch is logged as failed,
\* but nothing writes it again.
FlushCommits ==
    /\ Alive /\ writer \in {"flush", "last flush"}
    /\ log' = log \o Encodable(batch)
    /\ AfterFlush

FlushFails ==
    /\ Alive /\ writer \in {"flush", "last flush"}
    /\ UNCHANGED log
    /\ AfterFlush

-----------------------------------------------------------------------------
(* main *)

\* A signal: Shutdown stops accepting requests.
Signal ==
    /\ main = "serving"
    /\ main' = "draining"
    /\ UNCHANGED <<queue, closed, batch, writer, log, handler, conns, dropped, stop>>

Running == {e \in Event : handler[e] = "running"}

CloseRecorder(how) ==
    /\ closed' = TRUE
    /\ main' = "closing"
    /\ stop' = how
    /\ UNCHANGED <<queue, batch, writer, log, handler, conns, dropped>>

\* Shutdown returned nil, every handler has returned: audit.Close.
Close == main = "draining" /\ Running = {} /\ CloseRecorder("orderly")

\* Shutdown gave up: run returns and its deferred audit.Close runs while
\* handlers are still at work, some of them after they recorded.
CloseTimedOut ==
    main = "draining" /\ Running \cup conns # {} /\ CloseRecorder("timeout")

\* The listener failed: the same deferred Close, with the open connections
\* still being served.
ServerFails == main = "serving" /\ CloseRecorder("failed")

\* wg.Wait returned: the deferred pool.Close, which hands out no more connections.
ClosePool ==
    /\ main = "closing" /\ writer = "stopped"
    /\ main' = "closing pool"
    /\ UNCHANGED <<queue, closed, batch, writer, log, handler, conns, dropped, stop>>

\* pool.Close returns when it has got every connection back; the process ends,
\* and with it the handlers that never finished.
Exit ==
    /\ main = "closing pool" /\ conns = {}
    /\ main' = "exited"
    /\ handler' = [e \in Event |-> IF handler[e] = "running" THEN "gone" ELSE handler[e]]
    /\ UNCHANGED <<queue, closed, batch, writer, log, conns, dropped, stop>>

\* The process is killed: what it held in memory is lost.
Kill ==
    /\ Alive
    /\ main' = "killed"
    /\ queue' = <<>> /\ batch' = <<>> /\ conns' = {}
    /\ UNCHANGED <<closed, writer, log, handler, dropped, stop>>

Stopped == ~Alive /\ UNCHANGED vars

Next ==
    \/ \E e \in Event : Serve(e) \/ Acquire(e) \/ Release(e) \/ Return(e) \/ Record(e)
    \/ Receive \/ Tick \/ ReceiveClosed \/ FlushCommits \/ FlushFails
    \/ Signal \/ Close \/ CloseTimedOut \/ ServerFails \/ ClosePool \/ Exit \/ Kill
    \/ Stopped

Spec == Init /\ [][Next]_vars

Flush == FlushCommits \/ FlushFails

\* The goroutine is scheduled, its ticker fires and a flush ends within its
\* timeout; the database answers, so that requests give connections back;
\* Shutdown returns, drained or not.  No request has to be admitted, to record
\* or to return.
Fairness ==
    /\ WF_vars(Receive) /\ WF_vars(Tick) /\ WF_vars(ReceiveClosed) /\ WF_vars(Flush)
    /\ \A e \in Event : WF_vars(Release(e))
    /\ WF_vars(Close \/ CloseTimedOut)
    /\ WF_vars(ClosePool) /\ WF_vars(Exit)

FairSpec == Spec /\ Fairness

-----------------------------------------------------------------------------
(* What the recorder promises *)

\* The recorder implements the abstract trail: the events it holds, batch
\* first, are the inbox, and the log is written oldest first, once each.
Trail == INSTANCE AuditTrail WITH inbox <- batch \o queue
ImplementsTrail == Trail!Spec

\* "An orderly stop always flushes": when the process has exited through main,
\* the recorder holds nothing, so every accepted event was written or its
\* batch's failure was logged.  If main drained the handlers first, none of them
\* came too late with its event either: a send on the closed channel, or a
\* handler cut off by the exit, takes a drain that timed out or a server that
\* failed (Close, run, main).  Events that met a full queue were all counted.
StopFlushes ==
    main = "exited" =>
        /\ queue = <<>> /\ batch = <<>>
        /\ dropped = Cardinality({e \in Event : handler[e] = "dropped"})
        /\ stop = "orderly" =>
              \A e \in Event : handler[e] \in {"new", "returned", "accepted", "dropped"}

\* No accepted event waits for ever: it leaves the recorder's memory, by being
\* written or with its failed batch, however little traffic follows it.
EventsAreFlushed ==
    \A e \in Event : e \in Range(queue \o batch) ~> e \notin Range(queue \o batch)

\* A shutdown ends, whether it was asked for or the listener failed, and whether
\* or not the drain timed out: the recorder's goroutine stops however many
\* handlers go on, and pool.Close, which then waits for the connections that
\* requests have out, is not kept waiting by new ones.  It takes that the queries
\* in flight end (Release): nothing in main bounds that wait.
ShutdownEnds ==
    main \in {"draining", "closing"} ~> main \in {"exited", "killed"}
=============================================================================
