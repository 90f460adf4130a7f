------------------------- MODULE AuditRecorderProofs -------------------------
(***************************************************************************)
(* Proofs about AuditRecorder, for any number of events and any sizes of   *)
(* the queue and the batch.                                                *)
(*                                                                         *)
(* StopFlushes is about the last state of a long shutdown.  IInv says what *)
(* each phase of it has settled: where the writer is (WriterOK), what main *)
(* knows of the handlers when it closes the recorder (MainOK), and that    *)
(* the counter of dropped events keeps up with the handlers (DroppedOK).   *)
(***************************************************************************)
EXTENDS AuditRecorder, FiniteSetTheorems, SequenceTheorems, TLAPS

\* The types of what the process keeps in memory.
HeldTypeOK ==
    /\ queue \in Seq(Event) /\ Len(queue) <= QueueSize
    /\ closed \in BOOLEAN
    /\ batch \in Seq(Event) /\ Len(batch) <= FlushSize
    /\ writer \in {"select", "flush", "last flush", "stopped"}
    /\ handler \in [Event -> {"new", "running", "returned", "accepted",
                              "dropped", "panicked", "gone"}]
    /\ dropped \in Nat
    /\ main \in {"serving", "draining", "closing", "closing pool", "exited", "killed"}
    /\ stop \in {"none", "orderly", "timeout", "failed"}

\* A batch is full only while it is flushed; the last flush comes after the
\* channel is closed and drained, and the end after that.
WriterOK ==
    /\ writer = "select" => Len(batch) < FlushSize
    /\ Alive /\ writer \in {"flush", "last flush"} => batch # <<>>
    /\ writer \in {"last flush", "stopped"} => closed /\ queue = <<>>
    /\ writer = "stopped" => batch = <<>>

\* main closes the channel once, and the pool after the writer.  Before an orderly close every handler has
\* returned, and none starts or finds the channel closed afterwards.
MainOK ==
    /\ main \in {"serving", "draining"} => stop = "none" /\ ~closed
    /\ main \in {"closing", "closing pool", "exited"} => closed
    /\ main \in {"closing pool", "exited"} => writer = "stopped"
    /\ ~closed => \A e \in Event : handler[e] # "panicked"
    /\ main # "exited" => \A e \in Event : handler[e] # "gone"
    /\ stop = "orderly" => closed /\ \A e \in Event :
         handler[e] \in {"new", "returned", "accepted", "dropped"}

Dropped == {e \in Event : handler[e] = "dropped"}

DroppedOK == IsFiniteSet(Dropped) /\ dropped = Cardinality(Dropped)

IInv == HeldTypeOK /\ WriterOK /\ MainOK /\ DroppedOK

-----------------------------------------------------------------------------
(* Types *)

LEMMA Sizes ==
  /\ QueueSize \in Nat /\ QueueSize > 0
  /\ FlushSize \in Nat /\ FlushSize > 0
BY AuditRecorderAssumption DEF AuditRecorderAssumption

\* What the writer takes from the queue: the oldest event, which leaves it.
LEMMA OneMoves ==
  ASSUME HeldTypeOK, Receive
  PROVE  /\ queue' \in Seq(Event) /\ Len(queue') = Len(queue) - 1
         /\ batch' \in Seq(Event) /\ Len(batch') = Len(batch) + 1
         /\ batch' # <<>>
         /\ batch' \o queue' = batch \o queue
<1>1. /\ batch \in Seq(Event) /\ queue \in Seq(Event) /\ queue # <<>>
      /\ batch' = Append(batch, Head(queue)) /\ queue' = Tail(queue)
  BY DEF HeldTypeOK, Receive
<1>2. /\ Head(queue) \in Event /\ queue' \in Seq(Event) /\ Len(queue') = Len(queue) - 1
  BY <1>1, HeadTailProperties
<1>3. batch' \in Seq(Event) /\ Len(batch') = Len(batch) + 1 /\ batch' # <<>>
  BY <1>1, <1>2, AppendProperties
<1>4. batch' \o queue' = batch \o queue
  <2>1. batch' = batch \o <<Head(queue)>>
    BY <1>1, <1>2, AppendIsConcat
  <2>2. <<Head(queue)>> \in Seq(Event)
    BY <1>2
  <2>3. <<Head(queue)>> \o queue' = queue
    <3>1. Len(queue) \in Nat /\ Len(queue) > 0
      BY <1>1, EmptySeq
    <3>2. SubSeq(queue, 1, Len(queue)) = <<queue[1]>> \o SubSeq(queue, 1 + 1, Len(queue))
      <4>1. 1 \in 1..Len(queue) /\ Len(queue) \in 1..Len(queue)
        BY <3>1
      <4>2. QED
        BY <1>1, <4>1, SubSeqRecursiveFirst
    <3>3. SubSeq(queue, 1, Len(queue)) = queue
      BY <1>1, SubSeqFull
    <3>4. queue' = SubSeq(queue, 2, Len(queue)) /\ Head(queue) = queue[1]
      BY <1>1, TailIsSubSeq
    <3>5. QED
      BY <3>2, <3>3, <3>4
  <2>4. (batch \o <<Head(queue)>>) \o queue' = batch \o (<<Head(queue)>> \o queue')
    BY <1>1, <1>2, <2>2, ConcatAssociative
  <2>5. QED
    BY <2>1, <2>3, <2>4
<1>5. QED
  BY <1>2, <1>3, <1>4

LEMMA TypeStep ==
  ASSUME HeldTypeOK, WriterOK, [Next]_vars
  PROVE  HeldTypeOK'
<1>1. ASSUME NEW e \in Event, Serve(e) PROVE HeldTypeOK'
  BY <1>1 DEF HeldTypeOK, Serve
<1>2. ASSUME NEW e \in Event, Return(e) PROVE HeldTypeOK'
  BY <1>2 DEF HeldTypeOK, Return
<1>3. ASSUME NEW e \in Event, Acquire(e) \/ Release(e) PROVE HeldTypeOK'
  BY <1>3 DEF HeldTypeOK, Acquire, Release
<1>4. ASSUME NEW e \in Event, Record(e) PROVE HeldTypeOK'
  <2>1. /\ handler' \in [Event -> {"new", "running", "returned", "accepted", "dropped", "panicked", "gone"}]
        /\ dropped' \in Nat
    <3>0. dropped \in Nat
      BY DEF HeldTypeOK
    <3>1. dropped + 1 \in Nat
      BY <3>0
    <3>2. dropped' = dropped \/ dropped' = dropped + 1
      BY <1>4 DEF Record
    <3>3. \E state \in {"accepted", "dropped", "panicked"} :
            handler' = [handler EXCEPT ![e] = state]
      BY <1>4 DEF Record
    <3>4. QED
      BY <3>1, <3>2, <3>3 DEF HeldTypeOK
  <2>2. queue' \in Seq(Event) /\ Len(queue') <= QueueSize
    <3>1. CASE queue' = queue
      BY <3>1 DEF HeldTypeOK
    <3>2. CASE Len(queue) < QueueSize /\ queue' = Append(queue, e)
      <4>1. queue' \in Seq(Event) /\ Len(queue') = Len(queue) + 1 /\ Len(queue) \in Nat
        BY <3>2, AppendProperties, LenProperties DEF HeldTypeOK
      <4>2. QED
        BY <3>2, <4>1, Sizes
    <3>3. QED
      BY <1>4, <3>1, <3>2 DEF Record
  <2>3. QED
    BY <1>4, <2>1, <2>2 DEF HeldTypeOK, Record
<1>5. CASE Receive
  <2>1. /\ queue' \in Seq(Event) /\ Len(queue') = Len(queue) - 1
        /\ batch' \in Seq(Event) /\ Len(batch') = Len(batch) + 1
    BY <1>5, OneMoves
  <2>2. /\ Len(batch) < FlushSize /\ Len(batch) \in Nat /\ Len(queue) \in Nat
        /\ Len(queue) <= QueueSize
    BY <1>5, LenProperties DEF Receive, WriterOK, HeldTypeOK
  <2>3. Len(queue') <= QueueSize /\ Len(batch') <= FlushSize
    BY <2>1, <2>2, Sizes
  <2>4. writer' \in {"select", "flush", "last flush", "stopped"}
    BY <1>5 DEF Receive
  <2>5. QED
    BY <1>5, <2>1, <2>3, <2>4 DEF HeldTypeOK, Receive
<1>6. CASE Tick \/ ReceiveClosed
  BY <1>6 DEF HeldTypeOK, Tick, ReceiveClosed
<1>7. CASE FlushCommits \/ FlushFails
  <2>1. <<>> \in Seq(Event) /\ Len(<<>>) = 0
    BY EmptySeq
  <2>2. batch' = <<>> /\ writer' \in {"select", "stopped"} /\ UNCHANGED <<queue, closed, handler, dropped, main, stop>>
    BY <1>7 DEF FlushCommits, FlushFails, AfterFlush
  <2>3. batch' \in Seq(Event) /\ Len(batch') <= FlushSize
    BY <2>1, <2>2, Sizes
  <2>4. QED
    BY <2>2, <2>3 DEF HeldTypeOK
<1>8. CASE Signal \/ Close \/ CloseTimedOut \/ ServerFails
  BY <1>8 DEF HeldTypeOK, Signal, Close, CloseTimedOut, ServerFails, CloseRecorder
<1>9. CASE ClosePool \/ Exit
  BY <1>9 DEF HeldTypeOK, ClosePool, Exit
<1>10. CASE Kill
  <2>1. <<>> \in Seq(Event) /\ Len(<<>>) = 0
    BY EmptySeq
  <2>2. queue' \in Seq(Event) /\ Len(queue') <= QueueSize
    BY <1>10, <2>1, Sizes DEF Kill
  <2>3. batch' \in Seq(Event) /\ Len(batch') <= FlushSize
    BY <1>10, <2>1, Sizes DEF Kill
  <2>4. QED
    BY <1>10, <2>2, <2>3 DEF HeldTypeOK, Kill
<1>11. CASE UNCHANGED vars
  BY <1>11 DEF HeldTypeOK, vars
<1>12. QED
  BY <1>1, <1>2, <1>3, <1>4, <1>5, <1>6, <1>7, <1>8, <1>9, <1>10, <1>11 DEF Next, Stopped

-----------------------------------------------------------------------------
(* The phases of the shutdown *)

LEMMA WriterStep ==
  ASSUME HeldTypeOK, WriterOK, MainOK, [Next]_vars
  PROVE  WriterOK'
<1>1. ASSUME NEW e \in Event, Serve(e) PROVE WriterOK'
  BY <1>1 DEF WriterOK, Serve, Alive
<1>2. ASSUME NEW e \in Event, Return(e) \/ Acquire(e) \/ Release(e) PROVE WriterOK'
  BY <1>2 DEF WriterOK, Return, Acquire, Release, Alive
<1>3. ASSUME NEW e \in Event, Record(e) PROVE WriterOK'
  <2>1. queue' = queue \/ ~closed
    BY <1>3 DEF Record
  <2>2. UNCHANGED <<closed, batch, writer, main>>
    BY <1>3 DEF Record
  <2>3. QED
    BY <2>1, <2>2 DEF WriterOK, Alive
<1>4. CASE Receive
  <2>1. Len(batch') \in Nat /\ batch' # <<>>
    BY <1>4, OneMoves, LenProperties
  <2>2. /\ writer' = IF Len(batch') >= FlushSize THEN "flush" ELSE "select"
        /\ UNCHANGED <<closed, main>>
    BY <1>4 DEF Receive
  <2>3. writer' = "select" => Len(batch') < FlushSize
    BY <2>1, <2>2, Sizes
  <2>4. QED
    BY <2>1, <2>2, <2>3 DEF WriterOK
<1>5. CASE Tick \/ ReceiveClosed
  BY <1>5 DEF WriterOK, Tick, ReceiveClosed, Alive
<1>6. CASE FlushCommits \/ FlushFails
  <2>1. /\ writer \in {"flush", "last flush"} /\ batch' = <<>>
        /\ writer' = IF writer = "flush" THEN "select" ELSE "stopped"
        /\ UNCHANGED <<queue, closed, main>>
    BY <1>6 DEF FlushCommits, FlushFails, AfterFlush
  <2>2. Len(batch') < FlushSize
    BY <2>1, Sizes, EmptySeq
  <2>3. QED
    BY <2>1, <2>2 DEF WriterOK
<1>7. CASE Signal \/ Close \/ CloseTimedOut \/ ServerFails
  BY <1>7 DEF WriterOK, Alive, Signal, Close, CloseTimedOut, ServerFails, CloseRecorder
<1>8. CASE ClosePool \/ Exit
  BY <1>8 DEF WriterOK, Alive, ClosePool, Exit
<1>9. CASE Kill
  <2>1. queue' = <<>> /\ batch' = <<>> /\ UNCHANGED <<closed, writer>> /\ ~Alive'
    BY <1>9 DEF Kill, Alive
  <2>2. Len(batch') < FlushSize
    BY <2>1, Sizes, EmptySeq
  <2>3. QED
    BY <2>1, <2>2 DEF WriterOK
<1>10. CASE UNCHANGED vars
  BY <1>10 DEF WriterOK, Alive, vars
<1>11. QED
  BY <1>1, <1>2, <1>3, <1>4, <1>5, <1>6, <1>7, <1>8, <1>9, <1>10 DEF Next, Stopped

LEMMA MainStep ==
  ASSUME HeldTypeOK, WriterOK, MainOK, [Next]_vars
  PROVE  MainOK'
<1>1. ASSUME NEW e \in Event, Serve(e) PROVE MainOK'
  BY <1>1 DEF HeldTypeOK, MainOK, Serve, Closing
<1>2. ASSUME NEW e \in Event, Return(e) PROVE MainOK'
  BY <1>2 DEF HeldTypeOK, MainOK, Return
<1>3. ASSUME NEW e \in Event, Acquire(e) \/ Release(e) PROVE MainOK'
  <2>1. UNCHANGED <<closed, writer, handler, main, stop>>
    BY <1>3 DEF Acquire, Release
  <2>2. QED
    BY <2>1 DEF MainOK
<1>4. ASSUME NEW e \in Event, Record(e) PROVE MainOK'
  <2>1. /\ handler[e] = "running" /\ UNCHANGED <<closed, writer, main, stop>>
        /\ \E state \in {"accepted", "dropped", "panicked"} :
             /\ handler' = [handler EXCEPT ![e] = state]
             /\ state = "panicked" => closed
    BY <1>4 DEF Record
  <2>2. QED
    BY <2>1 DEF HeldTypeOK, MainOK
<1>5. CASE Receive \/ Tick \/ ReceiveClosed \/ FlushCommits \/ FlushFails
  <2>1. UNCHANGED <<closed, handler, main, stop>> /\ writer # "stopped"
    BY <1>5 DEF Receive, Tick, ReceiveClosed, FlushCommits, FlushFails, AfterFlush
  <2>2. main \notin {"closing pool", "exited"}
    BY <2>1 DEF MainOK
  <2>3. QED
    BY <2>1, <2>2 DEF MainOK
<1>6. CASE Signal
  BY <1>6 DEF MainOK, Signal
<1>7. CASE CloseTimedOut \/ ServerFails
  <2>1. /\ main \in {"serving", "draining"} /\ main' = "closing" /\ closed'
        /\ stop' # "orderly" /\ UNCHANGED handler
    BY <1>7 DEF CloseTimedOut, ServerFails, CloseRecorder
  <2>2. QED
    BY <2>1 DEF MainOK
<1>8. CASE Close
  <2>1. /\ main = "draining" /\ ~closed /\ main' = "closing" /\ closed' /\ stop' = "orderly"
        /\ UNCHANGED handler
    BY <1>8 DEF Close, CloseRecorder, MainOK
  <2>2. \A e \in Event : handler[e] \notin {"running", "panicked", "gone"}
    BY <1>8, <2>1 DEF Close, Running, MainOK
  <2>3. QED
    BY <2>1, <2>2 DEF MainOK, HeldTypeOK
<1>9. CASE ClosePool \/ Exit
  BY <1>9 DEF MainOK, ClosePool, Exit
<1>10. CASE Kill
  BY <1>10 DEF MainOK, Kill, Alive
<1>11. CASE UNCHANGED vars
  BY <1>11 DEF MainOK, vars
<1>12. QED
  BY <1>1, <1>2, <1>3, <1>4, <1>5, <1>6, <1>7, <1>8, <1>9, <1>10, <1>11
  DEF Next, Stopped

\* A handler that drops its event is counted in the same step, and stays so.
LEMMA DroppedStep ==
  ASSUME HeldTypeOK, DroppedOK, [Next]_vars
  PROVE  DroppedOK'
<1>1. ASSUME Dropped' = Dropped, dropped' = dropped PROVE DroppedOK'
  BY <1>1 DEF DroppedOK
<1>2. ASSUME NEW e \in Event, Serve(e) PROVE DroppedOK'
  <2>1. Dropped' = Dropped
    BY <1>2 DEF Serve, Dropped, HeldTypeOK
  <2>2. QED
    BY <1>1, <1>2, <2>1 DEF Serve
<1>3. ASSUME NEW e \in Event, Record(e) PROVE DroppedOK'
  <2>1. CASE handler' = [handler EXCEPT ![e] = "dropped"] /\ dropped' = dropped + 1
    <3>1. e \notin Dropped /\ Dropped' = Dropped \cup {e}
      BY <1>3, <2>1 DEF Record, Dropped, HeldTypeOK
    <3>2. /\ IsFiniteSet(Dropped \cup {e})
          /\ Cardinality(Dropped \cup {e}) = Cardinality(Dropped) + 1
      BY <3>1, FS_AddElement DEF DroppedOK
    <3>3. QED
      BY <2>1, <3>1, <3>2 DEF DroppedOK
  <2>2. CASE \E state \in {"accepted", "panicked"} :
               handler' = [handler EXCEPT ![e] = state] /\ dropped' = dropped
    <3>1. Dropped' = Dropped
      BY <1>3, <2>2 DEF Record, Dropped, HeldTypeOK
    <3>2. QED
      BY <1>1, <2>2, <3>1
  <2>3. QED
    BY <1>3, <2>1, <2>2 DEF Record
<1>4. ASSUME NEW e \in Event, Return(e) PROVE DroppedOK'
  <2>1. Dropped' = Dropped
    BY <1>4 DEF Return, Dropped, HeldTypeOK
  <2>2. QED
    BY <1>1, <1>4, <2>1 DEF Return
<1>5. CASE Exit
  <2>1. Dropped' = Dropped
    BY <1>5 DEF Exit, Dropped, HeldTypeOK
  <2>2. QED
    BY <1>1, <1>5, <2>1 DEF Exit
<1>6. CASE UNCHANGED <<handler, dropped>>
  BY <1>1, <1>6 DEF Dropped
<1>7. QED
  BY <1>2, <1>3, <1>4, <1>5, <1>6
     DEF Next, Acquire, Release, ClosePool, Receive, Tick, ReceiveClosed, FlushCommits, FlushFails, AfterFlush, Signal,
         Close, CloseTimedOut, ServerFails, CloseRecorder, Kill, Stopped, vars

LEMMA InitOK == Init => IInv
<1> SUFFICES ASSUME Init PROVE IInv
  OBVIOUS
<1> USE DEF Init
<1>1. <<>> \in Seq(Event) /\ Len(<<>>) = 0
  BY EmptySeq
<1>2. Len(queue) <= QueueSize /\ Len(batch) <= FlushSize /\ Len(batch) < FlushSize
  BY <1>1, Sizes
<1>3. HeldTypeOK /\ WriterOK /\ MainOK
  BY <1>1, <1>2 DEF HeldTypeOK, WriterOK, MainOK
<1>4. Dropped = {}
  BY DEF Dropped
<1>5. DroppedOK
  BY <1>4, FS_EmptySet DEF DroppedOK
<1>6. QED
  BY <1>3, <1>5 DEF IInv

LEMMA StepOK == IInv /\ [Next]_vars => IInv'
BY TypeStep, WriterStep, MainStep, DroppedStep DEF IInv

LEMMA Inductive == Spec => []IInv
  BY InitOK, StepOK, PTL DEF Spec

\* "An orderly stop always flushes", whatever the sizes of queue and batch:
\* nothing accepted is left in memory, no handler was cut off, and every
\* discarded event is counted.
THEOREM OrderlyStopFlushes == Spec => []StopFlushes
<1>1. IInv => StopFlushes
  BY DEF IInv, WriterOK, MainOK, DroppedOK, Dropped, StopFlushes
<1>2. QED
  BY <1>1, Inductive, PTL

-----------------------------------------------------------------------------
(* The recorder implements the abstract trail *)

LEMMA RefinesInit == Init => Trail!Init
<1>1. <<>> \o <<>> = <<>>
  BY ConcatEmptySeq, EmptySeq
<1>2. QED
  BY <1>1 DEF Init, Trail!Init

\* Emptying the batch takes its events, the oldest of the inbox, out of it.
LEMMA BatchIsOldest ==
  ASSUME HeldTypeOK, batch # <<>>
  PROVE  \E n \in 1..Len(batch \o queue) :
           /\ SubSeq(batch \o queue, 1, n) = batch
           /\ SubSeq(batch \o queue, n + 1, Len(batch \o queue)) = queue
<1>1. batch \in Seq(Event) /\ queue \in Seq(Event)
  BY DEF HeldTypeOK
<1>2. /\ Len(batch) \in Nat \ {0} /\ Len(queue) \in Nat
      /\ batch \o queue \in Seq(Event)
      /\ Len(batch \o queue) = Len(batch) + Len(queue)
  BY <1>1, EmptySeq, LenProperties, ConcatProperties
<1>3. 1 \in 1..Len(batch) /\ Len(batch) \in 1..Len(batch) /\ Len(batch) \in 1..Len(batch \o queue)
  BY <1>2
<1>4. SubSeq(batch \o queue, 1, Len(batch)) = batch
  BY <1>1, <1>3, SubSeqOfConcat1, SubSeqFull
<1>5. SubSeq(batch \o queue, Len(batch) + 1, Len(batch \o queue)) = queue
  <2>1. CASE queue = <<>>
    <3>1. Len(queue) = 0
      BY <2>1, EmptySeq
    <3>2. Len(batch \o queue) < Len(batch) + 1 /\ Len(batch) + 1 \in Int /\ Len(batch \o queue) \in Int
      BY <1>2, <3>1
    <3>3. QED
      BY <2>1, <3>2, SubSeqEmpty
  <2>2. CASE queue # <<>>
    <3>1. Len(queue) > 0
      BY <1>1, <2>2, EmptySeq
    <3> DEFINE m == Len(batch) + 1
               k == Len(batch) + Len(queue)
    <3>2. m \in Len(batch) + 1..Len(batch) + Len(queue) /\ k \in Len(batch) + 1..Len(batch) + Len(queue)
      BY <1>2, <3>1
    <3>3. m - Len(batch) = 1 /\ k - Len(batch) = Len(queue)
      BY <1>2
    <3> HIDE DEF m, k
    <3>4. SubSeq(batch \o queue, m, k) = SubSeq(queue, m - Len(batch), k - Len(batch))
      BY <1>1, <3>2, SubSeqOfConcat2
    <3>5. QED
      BY <1>1, <1>2, <3>3, <3>4, SubSeqFull DEF m, k
  <2>3. QED
    BY <2>1, <2>2
<1>6. QED
  BY <1>3, <1>4, <1>5

LEMMA RefinesStep ==
  ASSUME IInv, [Next]_vars
  PROVE  [Trail!Next]_<<batch \o queue, log>>
<1>1. HeldTypeOK /\ WriterOK /\ batch \in Seq(Event) /\ queue \in Seq(Event)
  BY DEF IInv, HeldTypeOK
<1>2. ASSUME NEW e \in Event, Record(e) PROVE [Trail!Next]_<<batch \o queue, log>>
  <2>1. CASE queue' = Append(queue, e)
    <3>1. Append(queue, e) = queue \o <<e>> /\ <<e>> \in Seq(Event)
      BY <1>1, AppendIsConcat
    <3>2. batch \o queue \in Seq(Event)
      BY <1>1, ConcatProperties
    <3>3. Append(batch \o queue, e) = (batch \o queue) \o <<e>>
      BY <3>2, AppendIsConcat
    <3>4. batch \o Append(queue, e) = Append(batch \o queue, e)
      BY <1>1, <3>1, <3>3, ConcatAssociative
    <3>5. batch' = batch /\ log' = log
      BY <1>2 DEF Record
    <3>6. Trail!Accept(e)
      BY <2>1, <3>4, <3>5 DEF Trail!Accept
    <3>7. QED
      BY <3>6 DEF Trail!Next
  <2>2. CASE queue' = queue
    BY <1>2, <2>2 DEF Record
  <2>3. QED
    BY <1>2, <2>1, <2>2 DEF Record
<1>3. CASE Receive
  <2>1. batch' \o queue' = batch \o queue
    BY <1>1, <1>3, OneMoves
  <2>2. log' = log
    BY <1>3 DEF Receive
  <2>3. QED
    BY <2>1, <2>2
<1>4. CASE FlushCommits \/ FlushFails
  <2>1. /\ batch # <<>> /\ batch' = <<>> /\ queue' = queue
    BY <1>1, <1>4 DEF FlushCommits, FlushFails, AfterFlush, WriterOK
  <2>2. PICK n \in 1..Len(batch \o queue) :
          /\ SubSeq(batch \o queue, 1, n) = batch
          /\ SubSeq(batch \o queue, n + 1, Len(batch \o queue)) = queue
    BY <1>1, <2>1, BatchIsOldest
  <2>3. batch' \o queue' = Trail!Rest(n)
    BY <1>1, <2>1, <2>2, ConcatEmptySeq DEF Trail!Rest
  <2>4. CASE FlushCommits
    <3>1. Encodable(batch) = Trail!Written(batch)
      BY DEF Encodable, Trail!Written
    <3>2. log' = log \o Trail!Written(SubSeq(batch \o queue, 1, n))
      BY <2>2, <2>4, <3>1 DEF FlushCommits
    <3>3. Trail!Persist(n)
      BY <2>3, <3>2 DEF Trail!Persist
    <3>4. QED
      BY <3>3 DEF Trail!Next
  <2>5. CASE FlushFails
    <3>1. Trail!GiveUp(n)
      BY <2>3, <2>5 DEF Trail!GiveUp, FlushFails
    <3>2. QED
      BY <3>1 DEF Trail!Next
  <2>6. QED
    BY <1>4, <2>4, <2>5
<1>5. CASE Kill
  <2> DEFINE inbox == batch \o queue
  <2>1. batch' = <<>> /\ queue' = <<>> /\ log' = log
    BY <1>5 DEF Kill
  <2>2. batch' \o queue' = <<>>
    BY <2>1, ConcatEmptySeq, EmptySeq
  <2>3. inbox \in Seq(Event)
    BY <1>1, ConcatProperties
  <2>4. CASE inbox = <<>>
    BY <2>1, <2>2, <2>4
  <2>5. CASE inbox # <<>>
    <3> HIDE DEF inbox
    <3>1. Len(inbox) \in 1..Len(inbox) /\ Len(inbox) < Len(inbox) + 1 /\ Len(inbox) + 1 \in Int
          /\ Len(inbox) \in Int
      BY <2>3, <2>5, EmptySeq
    <3>2. SubSeq(inbox, Len(inbox) + 1, Len(inbox)) = <<>>
      BY <3>1, SubSeqEmpty
    <3>3. Trail!GiveUp(Len(inbox))
      BY <2>1, <2>2, <3>2 DEF Trail!GiveUp, Trail!Rest, inbox
    <3>4. QED
      BY <3>1, <3>3 DEF Trail!Next, inbox
  <2>6. QED
    BY <2>4, <2>5
<1>6. CASE UNCHANGED <<batch, queue, log>>
  BY <1>6
<1>7. QED
  BY <1>2, <1>3, <1>4, <1>5, <1>6
     DEF Next, Serve, Acquire, Release, Return, Tick, ReceiveClosed, Signal, Close,
         CloseTimedOut, ServerFails, CloseRecorder, ClosePool, Exit, Stopped, vars

\* Queue, batch and goroutine together are the abstract trail: events are
\* written oldest first, once each, and given up only with a failed
\* transaction or a killed process.
THEOREM RecorderImplementsTrail == Spec => ImplementsTrail
<1>1. Spec => Trail!Spec
  BY RefinesInit, RefinesStep, Inductive, PTL DEF Spec, Trail!Spec
<1>2. QED
  BY <1>1 DEF ImplementsTrail
=============================================================================
