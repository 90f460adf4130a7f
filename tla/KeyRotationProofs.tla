-------------------------- MODULE KeyRotationProofs --------------------------
(***************************************************************************)
(* Proofs about KeyRotation, for any number of rows and of runs that       *)
(* overlap, and any batch size.                                            *)
(*                                                                         *)
(* A run is a loop over keys in the order of a table that others write to. *)
(* Its loop invariant (Covered) is that whatever was there when it started *)
(* is rotated up to the cursor, or about to be by the batch in hand; and   *)
(* no step of anybody takes a rotated row back (RowsKept).                 *)
(***************************************************************************)
EXTENDS KeyRotation, FiniteSetTheorems, WellFoundedInduction, TLAPS

\* The wrapped keys a run will write belong to the rows it will write them to.
UpdatesOK(x) == \A u \in updates[x] :
    /\ rows[u.id] # None
    /\ u.wrapped = [dek |-> rows[u.id].sealedWith, under |-> "next"]

\* Row i is on the next key, or will be when run x commits its batch.
Rotated(x, i) ==
    \/ rows[i].wrapped.under = "next"
    \/ pc[x] = "update" /\ \E u \in updates[x] : u.id = i

\* The loop invariant of run x.
Covered(x) ==
    /\ before[x] \subseteq Present
    /\ pc[x] = "update" => ~dry[x]
    /\ pc[x] \in {"list", "update"} /\ ~dry[x] =>
         \A i \in before[x] : i <= cursor[x] => Rotated(x, i)
    /\ pc[x] = "done" => \A i \in before[x] : rows[i].wrapped.under = "next"

\* What the API holds in memory is a row of the table.
CopyOK == copied # None => copied.wrapped.dek = copied.sealedWith

\* In a planned rotation the API and the runs take turns: before, no run; then
\* nothing but runs, which see the whole table; then every row, the one the API
\* holds included, is on the next key.
PlanOK == planned =>
    /\ api = "current" => \A x \in Rotator : pc[x] = "idle"
    /\ api = "stopped" =>
         /\ copied = None
         /\ \A x \in Rotator :
              pc[x] \in {"list", "update", "done"} => before[x] = Present
    /\ api = "next" =>
         /\ \A x \in Rotator : pc[x] \in {"idle", "done"}
         /\ \A i \in Present : rows[i].wrapped.under = "next"
         /\ copied # None => copied.wrapped.under = "next"

IInv ==
    /\ TypeOK
    /\ DataKeyPreserved
    /\ \A x \in Rotator : UpdatesOK(x) /\ Covered(x)
    /\ CopyOK
    /\ PlanOK

-----------------------------------------------------------------------------
(* Sets of numbers *)

\* Every non-empty set of naturals has a smallest element: the segments below
\* its elements are finite, and finite sets are well-founded under inclusion.
LEMMA Smallest ==
  ASSUME NEW T, T \subseteq Nat, T # {}
  PROVE  \E x \in T : \A y \in T : x <= y
<1> DEFINE upTo(x) == {y \in T : y <= x}
           segments == {upTo(x) : x \in T}
<1>1. \A x \in T : IsFiniteSet(upTo(x))
  <2> SUFFICES ASSUME NEW x \in T PROVE IsFiniteSet(upTo(x))
    OBVIOUS
  <2>1. upTo(x) \in SUBSET Nat /\ \A y \in upTo(x) : y <= x
    OBVIOUS
  <2>2. QED
    BY <2>1, FS_BoundedSetOfNaturals
<1>2. segments \subseteq FiniteSubsetsOf(Nat) /\ segments # {}
  BY <1>1 DEF FiniteSubsetsOf
<1>3. PICK s \in segments : \A u \in segments : <<u, s>> \notin StrictSubsetOrdering(Nat)
  <2> HIDE DEF segments
  <2>1. IsWellFoundedOn(StrictSubsetOrdering(Nat), FiniteSubsetsOf(Nat))
    BY FS_StrictSubsetOrderingWellFounded
  <2>2. QED
    BY <1>2, <2>1, WFMin
<1>4. PICK x \in T : s = upTo(x)
  OBVIOUS
<1>5. ASSUME NEW y \in T, y < x PROVE FALSE
  <2>1. x \in Nat /\ y \in Nat /\ \A z \in T : z \in Nat
    OBVIOUS
  <2>2. ~(x <= y) /\ x <= x /\ \A z \in Nat : z <= y => z <= x
    BY <1>5, <2>1
  <2>3. upTo(y) \subseteq upTo(x) /\ x \notin upTo(y) /\ x \in upTo(x)
    BY <2>1, <2>2, Zenon
  <2>4. upTo(y) \subseteq Nat /\ upTo(x) \subseteq Nat /\ upTo(y) \in segments
    OBVIOUS
  <2> HIDE DEF upTo, segments
  <2>5. <<upTo(y), upTo(x)>> \in StrictSubsetOrdering(Nat)
    BY <2>3, <2>4 DEF StrictSubsetOrdering
  <2>6. QED
    BY <1>3, <1>4, <2>4, <2>5
<1>6. QED
  BY <1>5

\* And a largest one if it is bounded.
LEMMA Largest ==
  ASSUME NEW n \in Nat, NEW T, T \subseteq 1..n, T # {}
  PROVE  \E x \in T : \A y \in T : y <= x
<1> DEFINE U == {n - y : y \in T}
<1>1. U \subseteq Nat /\ U # {}
  <2>1. ASSUME NEW y \in T PROVE n - y \in Nat
    <3>1. y \in 1..n
      OBVIOUS
    <3>2. QED
      BY ONLY <3>1, n \in Nat
  <2>2. QED
    BY ONLY <2>1, T # {}, Zenon
<1>2. PICK d \in U : \A y \in U : d <= y
  <2> HIDE DEF U
  <2>1. QED
    BY <1>1, Smallest
<1>3. PICK x \in T : d = n - x
  BY <1>2
<1>4. ASSUME NEW y \in T PROVE y <= x
  <2>1. n - x <= n - y
    BY <1>2, <1>3
  <2>2. x \in Int /\ y \in Int /\ n \in Int
    OBVIOUS
  <2>3. QED
    BY ONLY <2>1, <2>2
<1>5. QED
  BY <1>4

\* The query with its LIMIT: what it leaves out comes after what it returns, and
\* it returns nothing only if nothing is left.
LEMMA BatchTakes ==
  ASSUME NEW after \in 0..N
  PROVE  LET batch == ListSecretVersionsForRotation(after) IN
         /\ batch = {} => \A i \in Present : i <= after
         /\ batch # {} =>
              /\ LastOf(batch) \in batch
              /\ \A i \in Present : after < i /\ i <= LastOf(batch) => i \in batch
<1> DEFINE upTo(i) == {j \in Present : after < j /\ j <= i}
           batch == ListSecretVersionsForRotation(after)
<1>1. Present \subseteq 1..N /\ N \in Nat /\ BatchSize \in Nat \ {0}
  BY KeyRotationAssumption DEF KeyRotationAssumption, Present, Id
<1>2. batch = {i \in Present : i > after /\ Cardinality(upTo(i)) <= BatchSize}
  BY DEF ListSecretVersionsForRotation
<1>3. \A i \in Present : IsFiniteSet(upTo(i)) /\ Cardinality(upTo(i)) \in Nat
  <2>1. IsFiniteSet(1..N)
    BY <1>1, FS_Interval
  <2>2. \A i \in Present : upTo(i) \subseteq 1..N
    BY <1>1
  <2> HIDE DEF upTo
  <2>3. QED
    BY <2>1, <2>2, FS_Subset, FS_CardinalityType
<1>4. ASSUME batch = {}, NEW k \in Present, after < k PROVE FALSE
  <2> DEFINE T == {i \in Present : after < i}
  <2>1. \A i \in Present : i \in Nat
    BY <1>1
  <2>2. T \subseteq Nat /\ T # {}
    BY <2>1, <1>4, Zenon
  <2>3. PICK i \in T : \A j \in T : i <= j
    <3> HIDE DEF T
    <3>1. QED
      BY <2>2, Smallest
  <2>4. upTo(i) = {i}
    <3>1. ASSUME NEW j \in upTo(i) PROVE j = i
      <4>1. j \in Nat /\ i \in Nat /\ j <= i /\ j \in T
        BY <2>1
      <4>2. i <= j
        BY <2>3, <4>1
      <4>3. QED
        BY ONLY <4>1, <4>2
    <3>2. i \in upTo(i)
      BY <2>1
    <3>3. QED
      BY <3>1, <3>2, Zenon
  <2>5. Cardinality(upTo(i)) = 1
    BY <2>4, FS_Singleton
  <2>6. i \in batch
    BY <1>1, <1>2, <2>3, <2>5
  <2>7. QED
    BY <1>4, <2>6
<1>5. ASSUME batch # {}
      PROVE  /\ LastOf(batch) \in batch
             /\ \A i \in Present : after < i /\ i <= LastOf(batch) => i \in batch
  <2>1. batch \subseteq 1..N
    BY <1>1, <1>2
  <2> DEFINE last == LastOf(batch)
  <2>2. last \in batch /\ \A j \in batch : j <= last
    <3> HIDE DEF batch
    <3>1. \E i \in batch : \A j \in batch : j <= i
      BY <1>1, <1>5, <2>1, Largest
    <3>2. QED
      BY <3>1 DEF LastOf
  <2>3. ASSUME NEW i \in Present, after < i, i <= last PROVE i \in batch
    <3>1. last \in Present /\ Cardinality(upTo(last)) <= BatchSize
      BY <1>2, <2>2
    <3>2. upTo(i) \subseteq upTo(last)
      <4> HIDE DEF last
      <4>1. ASSUME NEW j \in upTo(i) PROVE j <= last
        <5>1. j \in Int /\ i \in Int /\ last \in Int /\ j <= i
          BY <1>1, <3>1
        <5>2. QED
          BY ONLY <5>1, <2>3
      <4>2. QED
        BY <4>1, Zenon
    <3>3. Cardinality(upTo(i)) <= Cardinality(upTo(last))
      <4> HIDE DEF upTo, last, batch
      <4>1. QED
        BY <1>3, <3>1, <3>2, FS_Subset
    <3>4. Cardinality(upTo(i)) <= BatchSize
      <4> HIDE DEF upTo, last, batch
      <4>1. QED
        BY <1>1, <1>3, <3>1, <3>3
    <3>5. QED
      BY <1>2, <2>3, <3>4
  <2>4. QED
    BY <2>2, <2>3
<1>6. QED
  <2>1. batch = {} => \A i \in Present : i <= after
    BY <1>1, <1>4
  <2> HIDE DEF batch
  <2>2. QED
    BY <1>5, <2>1 DEF batch

-----------------------------------------------------------------------------
(* What a step does to the table *)

\* No step deletes a row, changes the ciphertext, or touches a rotated row.
RowsKept == \A i \in Id : rows[i] # None =>
    /\ rows'[i] # None
    /\ rows'[i].sealedWith = rows[i].sealedWith
    /\ rows[i].wrapped.under = "next" => rows'[i] = rows[i]

\* The transaction of a batch, row by row.
LEMMA BatchWrites ==
  ASSUME NEW x \in Rotator, TypeOK, UpdatesOK(x), UpdateBatch(x), NEW i \in Id
  PROVE  IF \E u \in updates[x] : u.id = i
         THEN /\ rows[i] # None
              /\ rows'[i] = Seal(rows[i].sealedWith, "next")
         ELSE rows'[i] = rows[i]
<1>1. CASE \E u \in updates[x] : u.id = i
  <2> DEFINE w == CHOOSE u \in updates[x] : u.id = i
  <2>1. w \in updates[x] /\ w.id = i
    BY <1>1
  <2> HIDE DEF w
  <2>2. rows[i] # None /\ w.wrapped = [dek |-> rows[i].sealedWith, under |-> "next"]
    BY <2>1 DEF UpdatesOK
  <2>3. rows'[i] = [rows[i] EXCEPT !.wrapped = w.wrapped]
    BY <1>1 DEF UpdateBatch, w
  <2>4. rows[i] \in Row
    BY <2>2 DEF TypeOK
  <2>5. QED
    BY <1>1, <2>2, <2>3, <2>4 DEF Row, Seal
<1>2. CASE ~\E u \in updates[x] : u.id = i
  BY <1>2 DEF UpdateBatch
<1>3. QED
  BY <1>1, <1>2

LEMMA RowsAreKept ==
  ASSUME IInv, Next
  PROVE  RowsKept
<1> SUFFICES ASSUME NEW i \in Id, rows[i] # None
             PROVE  /\ rows'[i] # None
                    /\ rows'[i].sealedWith = rows[i].sealedWith
                    /\ rows[i].wrapped.under = "next" => rows'[i] = rows[i]
  BY DEF RowsKept
<1>1. ASSUME NEW k \in Id, ApiWrite(k) \/ ApiCopyWrite(k) PROVE rows'[i] = rows[i]
  BY <1>1 DEF IInv, TypeOK, ApiWrite, ApiCopyWrite
<1>2. ASSUME NEW x \in Rotator, UpdateBatch(x), \E u \in updates[x] : u.id = i
      PROVE  /\ rows'[i] = Seal(rows[i].sealedWith, "next")
             /\ rows[i].wrapped.under = "next" => rows'[i] = rows[i]
  <2>1. rows'[i] = Seal(rows[i].sealedWith, "next")
    BY <1>2, BatchWrites DEF IInv
  <2>2. rows[i] \in Row /\ rows[i].wrapped.dek = rows[i].sealedWith
    BY DEF IInv, TypeOK, DataKeyPreserved, Present
  <2>3. QED
    BY <2>1, <2>2 DEF Seal, Row, Wrapped
<1>3. ASSUME NEW x \in Rotator, UpdateBatch(x), ~\E u \in updates[x] : u.id = i
      PROVE  rows'[i] = rows[i]
  BY <1>3, BatchWrites DEF IInv
<1>4. None # Seal(rows[i].sealedWith, "next")
  <2>1. rows[i] \in Row
    BY DEF IInv, TypeOK
  <2>2. Seal(rows[i].sealedWith, "next") \in Row
    BY <2>1 DEF Row, Seal, Wrapped
  <2>3. QED
    BY <2>2, KeyRotationAssumption DEF KeyRotationAssumption
<1>5. CASE UNCHANGED rows
  BY <1>5
<1>6. QED
  BY <1>1, <1>2, <1>3, <1>4, <1>5
     DEF Next, Seal, ApiCopyRead, ApiStop, ApiRestart, Run, List, Interrupt, Acknowledge

\* Overlapping runs: what a run relies on survives every step that is not its
\* own.
LEMMA RunUndisturbed ==
  ASSUME NEW x \in Rotator, TypeOK, UpdatesOK(x), Covered(x), RowsKept,
         UNCHANGED <<pc[x], dry[x], cursor[x], updates[x], before[x]>>
  PROVE  UpdatesOK(x)' /\ Covered(x)'
<1>1. \A u \in updates[x] : u.id \in Id
  BY DEF TypeOK
<1>2. UpdatesOK(x)'
  BY <1>1 DEF UpdatesOK, RowsKept
<1>3. Present \subseteq Present'
  BY DEF Present, RowsKept
<1>4. \A i \in before[x] : i \in Id /\ rows[i] # None
  BY DEF Covered, Present
<1>5. \A i \in before[x] : rows[i].wrapped.under = "next" => rows'[i].wrapped.under = "next"
  BY <1>4 DEF RowsKept
<1>6. \A i \in before[x] : Rotated(x, i) => Rotated(x, i)'
  BY <1>5 DEF Rotated
<1>7. Covered(x)'
  BY <1>3, <1>5, <1>6 DEF Covered
<1>8. QED
  BY <1>2, <1>7

-----------------------------------------------------------------------------
(* The invariant, action by action *)

LEMMA TypeStep ==
  ASSUME TypeOK, \A x \in Rotator : UpdatesOK(x), [Next]_vars
  PROVE  TypeOK'
<1> USE DEF TypeOK
<1>1. ASSUME NEW i \in Id, ApiWrite(i) \/ ApiCopyRead(i) \/ ApiCopyWrite(i) PROVE TypeOK'
  <2>1. api # "stopped" => Seal(i, api) \in Row
    BY DEF Seal, Row, Wrapped
  <2>2. CASE ApiWrite(i)
    BY <2>1, <2>2 DEF ApiWrite, apiVars, runVars
  <2>3. CASE ApiCopyRead(i)
    BY <2>3 DEF ApiCopyRead, runVars
  <2>4. CASE ApiCopyWrite(i)
    BY <2>4 DEF ApiCopyWrite, runVars
  <2>5. QED
    BY <1>1, <2>2, <2>3, <2>4
<1>2. CASE ApiStop \/ ApiRestart
  BY <1>2 DEF ApiStop, ApiRestart, runVars
<1>3. ASSUME NEW x \in Rotator, NEW dryRun \in BOOLEAN, Run(x, dryRun) PROVE TypeOK'
  <2>1. Present \subseteq Id /\ 0 \in 0..N
    BY KeyRotationAssumption DEF KeyRotationAssumption, Present
  <2>2. QED
    BY <1>3, <2>1 DEF Run, apiVars
<1>4. ASSUME NEW x \in Rotator, List(x) PROVE TypeOK'
  <2> DEFINE batch == ListSecretVersionsForRotation(cursor[x])
             new == {Rewrap(i) : i \in {j \in batch : rows[j].wrapped.under = "current"}}
  <2>1. batch \subseteq Id /\ \A i \in batch : rows[i] \in Row
    BY DEF ListSecretVersionsForRotation, Present
  <2>2. new \subseteq [id : Id, wrapped : Wrapped]
    BY <2>1 DEF Rewrap, Row, Wrapped
  <2>3. cursor[x] \in 0..N
    OBVIOUS
  <2>4. batch # {} => LastOf(batch) \in 0..N
    <3> HIDE DEF batch
    <3>1. Id \subseteq 0..N
      BY KeyRotationAssumption DEF KeyRotationAssumption, Id
    <3>2. batch # {} => LastOf(batch) \in batch
      BY <2>3, BatchTakes DEF batch
    <3>3. QED
      BY <2>1, <3>1, <3>2
  <2>5. /\ pc' \in [Rotator -> {"idle", "list", "update", "done", "failed"}]
        /\ cursor' \in [Rotator -> 0..N]
    <3> HIDE DEF new, batch
    <3>1. QED
      BY <1>4, <2>4 DEF List, CursorAfter, batch
  <2>6. updates' = updates \/ updates' = [updates EXCEPT ![x] = IF dry[x] THEN {} ELSE new]
    BY <1>4 DEF List
  <2>7. updates' \in [Rotator -> SUBSET [id : Id, wrapped : Wrapped]]
    <3> HIDE DEF new
    <3>1. QED
      BY <2>2, <2>6
  <2>8. QED
    BY <1>4, <2>5, <2>7 DEF List, apiVars
<1>5. ASSUME NEW x \in Rotator, UpdateBatch(x) PROVE TypeOK'
  <2>1. \A i \in Id : rows'[i] \in Row \cup {None}
    <3> SUFFICES ASSUME NEW i \in Id PROVE rows'[i] \in Row \cup {None}
      OBVIOUS
    <3>1. rows[i] \in Row => Seal(rows[i].sealedWith, "next") \in Row
      BY DEF Seal, Row, Wrapped
    <3>2. QED
      BY <1>5, <3>1, BatchWrites
  <2>2. rows' \in [Id -> Row \cup {None}]
    BY <1>5, <2>1 DEF UpdateBatch
  <2>3. QED
    BY <1>5, <2>2 DEF UpdateBatch, apiVars
<1>6. ASSUME NEW x \in Rotator, Interrupt(x) \/ Acknowledge(x) PROVE TypeOK'
  BY <1>6 DEF Interrupt, Acknowledge, apiVars
<1>7. CASE UNCHANGED vars
  BY <1>7 DEF vars, apiVars, runVars
<1>8. QED
  BY <1>1, <1>2, <1>3, <1>4, <1>5, <1>6, <1>7 DEF Next

\* Every row a step writes, and the copy it takes, keeps data key and
\* ciphertext together.
LEMMA DataKeyStep ==
  ASSUME IInv, Next
  PROVE  /\ DataKeyPreserved'
         /\ copied' # None => copied'.wrapped.dek = copied'.sealedWith
<1>1. /\ \A i \in Id : rows[i] # None => rows[i].wrapped.dek = rows[i].sealedWith
      /\ copied # None => copied.wrapped.dek = copied.sealedWith
  BY DEF IInv, DataKeyPreserved, Present, CopyOK
<1>2. \A i \in Id : rows'[i] # None => rows'[i].wrapped.dek = rows'[i].sealedWith
  <2> SUFFICES ASSUME NEW i \in Id, rows'[i] # None
               PROVE  rows'[i].wrapped.dek = rows'[i].sealedWith
    OBVIOUS
  <2>1. ASSUME NEW k \in Id, ApiWrite(k)
        PROVE  rows'[i].wrapped.dek = rows'[i].sealedWith
    BY <1>1, <2>1 DEF IInv, TypeOK, ApiWrite, Seal
  <2>2. ASSUME NEW k \in Id, ApiCopyWrite(k)
        PROVE  rows'[i].wrapped.dek = rows'[i].sealedWith
    BY <1>1, <2>2 DEF IInv, TypeOK, ApiCopyWrite
  <2>3. ASSUME NEW x \in Rotator, UpdateBatch(x)
        PROVE  rows'[i].wrapped.dek = rows'[i].sealedWith
    <3>1. Seal(rows[i].sealedWith, "next").wrapped.dek = Seal(rows[i].sealedWith, "next").sealedWith
      BY DEF Seal
    <3>2. rows'[i] = rows[i] \/ rows'[i] = Seal(rows[i].sealedWith, "next")
      BY <2>3, BatchWrites DEF IInv
    <3>3. CASE rows'[i] = rows[i]
      BY <1>1, <3>3
    <3>4. QED
      BY <3>1, <3>2, <3>3
  <2>4. CASE UNCHANGED rows
    BY <1>1, <2>4
  <2>5. QED
    BY <2>1, <2>2, <2>3, <2>4
       DEF Next, ApiCopyRead, ApiStop, ApiRestart, Run, List, Interrupt, Acknowledge
<1>3. copied' = copied \/ copied' = None \/ \E i \in Id : copied' = rows[i]
  BY DEF Next, ApiWrite, ApiCopyRead, ApiCopyWrite, ApiStop, ApiRestart, Run, List,
         UpdateBatch, Interrupt, Acknowledge, apiVars
<1>4. QED
  BY <1>1, <1>2, <1>3 DEF DataKeyPreserved, Present

\* A turn of the loop: the batch takes up everything between the old cursor and
\* the new one, and an empty batch says there was nothing after the old one.
LEMMA ListStep ==
  ASSUME IInv, NEW x \in Rotator, List(x)
  PROVE  UpdatesOK(x)' /\ Covered(x)'
<1> DEFINE batch == ListSecretVersionsForRotation(cursor[x])
           new == {Rewrap(i) : i \in {j \in batch : rows[j].wrapped.under = "current"}}
<1>1. /\ cursor[x] \in 0..N /\ pc[x] = "list" /\ rows' = rows /\ dry' = dry /\ before' = before
      /\ before[x] \subseteq Present /\ UpdatesOK(x)
  BY DEF IInv, TypeOK, List, Covered
<1>2. ~dry[x] => \A i \in before[x] : i <= cursor[x] => rows[i].wrapped.under = "next"
  BY <1>1 DEF IInv, Covered, Rotated
<1>3. /\ batch = {} => \A i \in Present : i <= cursor[x]
      /\ batch # {} => \A i \in Present :
           cursor[x] < i /\ i <= LastOf(batch) => i \in batch
  BY <1>1, BatchTakes
<1>4. \A i \in batch : /\ i \in Id /\ rows[i] # None /\ rows[i] \in Row
                       /\ rows[i].wrapped.dek = rows[i].sealedWith
  BY DEF ListSecretVersionsForRotation, Present, IInv, TypeOK, DataKeyPreserved
<1>5. \A i \in batch : Rewrap(i) = [id |-> i, wrapped |-> [dek |-> rows[i].sealedWith, under |-> "next"]]
  BY <1>4 DEF Rewrap, Row, Wrapped
<1>6. Present' = Present
  BY <1>1 DEF Present
<1> HIDE DEF batch
<1>7. CASE batch = {}
  <2>1. /\ pc'[x] = IF dry[x] THEN "idle" ELSE "done"
        /\ updates' = updates
    BY <1>7 DEF List, IInv, TypeOK, batch
  <2>2. UpdatesOK(x)'
    BY <1>1, <2>1 DEF UpdatesOK
  <2>3. ~dry[x] => \A i \in before[x] : rows[i].wrapped.under = "next"
    BY <1>1, <1>2, <1>3, <1>7
  <2>4. Covered(x)'
    BY <1>1, <1>6, <2>1, <2>3 DEF Covered
  <2>5. QED
    BY <2>2, <2>4
<1>8. CASE batch # {} /\ \E i \in batch : rows[i].wrapped.under = "other"
  <2>1. pc'[x] = "failed" /\ updates' = updates
    BY <1>8 DEF List, IInv, TypeOK, batch
  <2>2. UpdatesOK(x)'
    BY <1>1, <2>1 DEF UpdatesOK
  <2>3. Covered(x)'
    BY <1>1, <1>6, <2>1 DEF Covered
  <2>4. QED
    BY <2>2, <2>3
<1>9. CASE batch # {} /\ \A i \in batch : rows[i].wrapped.under # "other"
  <2>1. /\ updates'[x] = IF dry[x] THEN {} ELSE new
        /\ cursor'[x] = LastOf(batch)
        /\ pc'[x] = IF dry[x] THEN "list" ELSE "update"
    BY <1>9 DEF List, IInv, TypeOK, CursorAfter, batch
  <2>2. \A u \in new : \E i \in batch :
          u = [id |-> i, wrapped |-> [dek |-> rows[i].sealedWith, under |-> "next"]]
    BY <1>5
  <2>3. UpdatesOK(x)'
    BY <1>1, <1>4, <2>1, <2>2 DEF UpdatesOK
  <2>4. \A i \in batch : rows[i].wrapped.under = "next" \/ \E u \in new : u.id = i
    <3> SUFFICES ASSUME NEW i \in batch, rows[i].wrapped.under # "next"
                 PROVE  \E u \in new : u.id = i
      OBVIOUS
    <3>1. rows[i].wrapped.under = "current"
      BY <1>4, <1>9 DEF Row, Wrapped
    <3>2. Rewrap(i) \in new /\ Rewrap(i).id = i
      BY <1>5, <3>1
    <3>3. QED
      BY <3>2
  <2>5. ~dry[x] => \A i \in before[x] : i <= LastOf(batch) =>
          rows[i].wrapped.under = "next" \/ \E u \in new : u.id = i
    <3> SUFFICES ASSUME ~dry[x], NEW i \in before[x], i <= LastOf(batch)
                 PROVE  rows[i].wrapped.under = "next" \/ \E u \in new : u.id = i
      OBVIOUS
    <3>1. CASE i <= cursor[x]
      BY <1>2, <3>1
    <3>2. CASE cursor[x] < i
      BY <1>1, <1>3, <1>9, <2>4, <3>2
    <3>3. i \in Int /\ cursor[x] \in Int
      BY <1>1, KeyRotationAssumption DEF KeyRotationAssumption, Present, Id
    <3>4. i <= cursor[x] \/ cursor[x] < i
      BY ONLY <3>3
    <3>5. QED
      BY <3>1, <3>2, <3>4
  <2> HIDE DEF new
  <2>6. Covered(x)'
    BY <1>1, <1>6, <2>1, <2>5 DEF Covered, Rotated
  <2>7. QED
    BY <2>3, <2>6
<1>10. QED
  BY <1>7, <1>8, <1>9

\* The commit: what was about to be rotated is.
LEMMA UpdateStep ==
  ASSUME IInv, NEW x \in Rotator, UpdateBatch(x), RowsKept
  PROVE  UpdatesOK(x)' /\ Covered(x)'
<1>1. /\ pc[x] = "update" /\ pc'[x] = "list" /\ updates'[x] = {}
      /\ dry'[x] = dry[x] /\ cursor'[x] = cursor[x] /\ before'[x] = before[x]
      /\ UpdatesOK(x) /\ Covered(x)
  BY DEF IInv, TypeOK, UpdateBatch
<1>2. UpdatesOK(x)'
  BY <1>1 DEF UpdatesOK
<1>3. \A i \in before[x] : i \in Id /\ rows[i] # None
  BY <1>1 DEF Covered, Present
<1>4. Present \subseteq Present'
  BY DEF Present, RowsKept
<1>5. \A i \in before[x] : i <= cursor[x] => rows'[i].wrapped.under = "next"
  <2> SUFFICES ASSUME NEW i \in before[x], i <= cursor[x]
               PROVE  rows'[i].wrapped.under = "next"
    OBVIOUS
  <2>1. CASE rows[i].wrapped.under = "next"
    BY <1>3, <2>1 DEF RowsKept
  <2>2. CASE \E u \in updates[x] : u.id = i
    <3>1. rows'[i] = Seal(rows[i].sealedWith, "next")
      BY <1>1, <1>3, <2>2, BatchWrites DEF IInv
    <3>2. Seal(rows[i].sealedWith, "next").wrapped.under = "next"
      BY DEF Seal
    <3>3. QED
      BY <3>1, <3>2
  <2>3. QED
    BY <1>1, <2>1, <2>2 DEF Covered, Rotated
<1>6. Covered(x)'
  BY <1>1, <1>4, <1>5 DEF Covered, Rotated
<1>7. QED
  BY <1>2, <1>6

LEMMA RunsStep ==
  ASSUME IInv, Next, NEW x \in Rotator
  PROVE  UpdatesOK(x)' /\ Covered(x)'
<1>1. RowsKept
  BY RowsAreKept
<1>2. TypeOK /\ UpdatesOK(x) /\ Covered(x)
  BY DEF IInv
<1>3. CASE UNCHANGED <<pc[x], dry[x], cursor[x], updates[x], before[x]>>
  BY <1>1, <1>2, <1>3, RunUndisturbed
<1>4. ASSUME NEW dryRun \in BOOLEAN, Run(x, dryRun) PROVE UpdatesOK(x)' /\ Covered(x)'
  <2>1. /\ updates'[x] = {} /\ cursor'[x] = 0 /\ before'[x] = Present /\ rows' = rows
        /\ pc'[x] \in {"idle", "list"}
    BY <1>2, <1>4 DEF TypeOK, Run
  <2>2. \A i \in Present : ~(i <= 0)
    BY KeyRotationAssumption DEF KeyRotationAssumption, Present, Id
  <2>3. QED
    BY <2>1, <2>2 DEF UpdatesOK, Covered, Present
<1>5. CASE List(x)
  BY <1>5, ListStep
<1>6. CASE UpdateBatch(x)
  BY <1>1, <1>6, UpdateStep
<1>7. CASE Interrupt(x) \/ Acknowledge(x)
  <2>1. /\ updates'[x] = {} \/ updates'[x] = updates[x]
        /\ before'[x] = before[x] /\ rows' = rows /\ pc'[x] \in {"idle", "failed"}
    BY <1>2, <1>7 DEF TypeOK, Interrupt, Acknowledge
  <2>2. QED
    BY <1>2, <2>1 DEF UpdatesOK, Covered, Present
<1>8. ASSUME NEW y \in Rotator, y # x, NEW dryRun \in BOOLEAN,
             Run(y, dryRun) \/ List(y) \/ UpdateBatch(y) \/ Interrupt(y) \/ Acknowledge(y)
      PROVE  UNCHANGED <<pc[x], dry[x], cursor[x], updates[x], before[x]>>
  <2> HIDE DEF IInv
  <2>1. CASE Run(y, dryRun)
    BY <1>2, <1>8, <2>1 DEF TypeOK, Run
  <2>2. CASE List(y)
    BY <1>2, <1>8, <2>2 DEF TypeOK, List
  <2>3. CASE UpdateBatch(y) \/ Interrupt(y) \/ Acknowledge(y)
    BY <1>2, <1>8, <2>3 DEF TypeOK, UpdateBatch, Interrupt, Acknowledge
  <2>4. QED
    BY <1>8, <2>1, <2>2, <2>3
<1>9. ASSUME NEW i \in Id, ApiWrite(i) \/ ApiCopyRead(i) \/ ApiCopyWrite(i) \/ ApiStop \/ ApiRestart
      PROVE  UNCHANGED <<pc[x], dry[x], cursor[x], updates[x], before[x]>>
  BY <1>9 DEF ApiWrite, ApiCopyRead, ApiCopyWrite, ApiStop, ApiRestart, runVars
<1>10. CASE ApiStop \/ ApiRestart
  BY <1>3, <1>10 DEF ApiStop, ApiRestart, runVars
<1>11. QED
  BY <1>3, <1>4, <1>5, <1>6, <1>7, <1>8, <1>9, <1>10 DEF Next

\* A planned rotation: each step leaves its phase as it was or begins the next.
LEMMA PlanStep ==
  ASSUME IInv, Next, planned
  PROVE  PlanOK'
<1>1. /\ TypeOK /\ RowsKept
      /\ api = "current" => \A x \in Rotator : pc[x] = "idle"
      /\ api = "stopped" =>
           /\ copied = None
           /\ \A x \in Rotator :
                pc[x] \in {"list", "update", "done"} => before[x] = Present
      /\ api = "next" =>
           /\ \A x \in Rotator : pc[x] \in {"idle", "done"}
           /\ \A i \in Present : rows[i].wrapped.under = "next"
           /\ copied # None => copied.wrapped.under = "next"
  BY RowsAreKept DEF IInv, PlanOK
<1>2. api \in {"current", "next", "stopped"}
  BY <1>1 DEF TypeOK
<1>3. ASSUME NEW i \in Id, ApiWrite(i) PROVE PlanOK'
  <2>1. Seal(i, api).wrapped.under = api
    BY DEF Seal
  <2>2. QED
    BY <1>1, <1>3, <2>1 DEF ApiWrite, TypeOK, PlanOK, Present, apiVars, runVars
<1>4. ASSUME NEW i \in Id, ApiCopyRead(i) PROVE PlanOK'
  BY <1>1, <1>4 DEF ApiCopyRead, PlanOK, Present, runVars
<1>5. ASSUME NEW i \in Id, ApiCopyWrite(i) PROVE PlanOK'
  BY <1>1, <1>5 DEF ApiCopyWrite, TypeOK, PlanOK, Present, runVars
<1>6. CASE ApiStop
  BY <1>1, <1>6 DEF ApiStop, PlanOK, runVars
<1>7. CASE ApiRestart
  <2>1. api = "stopped" /\ api' = "next" /\ copied' = None /\ rows' = rows /\ pc' = pc
    BY <1>7 DEF ApiRestart, runVars
  <2>2. PICK x \in Rotator : pc[x] = "done"
    BY <1>7 DEF ApiRestart
  <2>3. \A i \in Present : rows[i].wrapped.under = "next"
    BY <1>1, <2>1, <2>2 DEF IInv, Covered
  <2>4. \A y \in Rotator : pc[y] \in {"idle", "done"}
    BY <1>7 DEF ApiRestart
  <2>5. QED
    BY <2>1, <2>3, <2>4 DEF PlanOK, Present
<1>8. ASSUME NEW x \in Rotator, NEW dryRun \in BOOLEAN, Run(x, dryRun) PROVE PlanOK'
  <2>1. api = "stopped" /\ UNCHANGED <<rows, api, copied>>
    BY <1>8 DEF Run, apiVars
  <2>2. \A y \in Rotator : pc'[y] \in {"list", "update", "done"} => before'[y] = Present
    BY <1>1, <1>8, <2>1 DEF Run, TypeOK
  <2>3. QED
    BY <1>1, <2>1, <2>2 DEF PlanOK, Present
<1>9. ASSUME NEW x \in Rotator, List(x) PROVE PlanOK'
  <2>1. pc[x] = "list" /\ UNCHANGED <<rows, api, copied, before>>
    BY <1>9 DEF List, apiVars
  <2>2. \A y \in Rotator : pc'[y] \in {"list", "update", "done"} => pc[y] \in {"list", "update", "done"}
    BY <1>1, <1>9 DEF List, TypeOK
  <2>3. api = "stopped"
    BY <1>1, <1>2, <2>1
  <2>4. QED
    BY <1>1, <2>1, <2>2, <2>3 DEF PlanOK, Present
<1>10. ASSUME NEW x \in Rotator, UpdateBatch(x) PROVE PlanOK'
  <2>1. pc[x] = "update" /\ UNCHANGED <<api, copied, before>>
    BY <1>10 DEF UpdateBatch, apiVars
  <2>2. \A y \in Rotator : pc'[y] \in {"list", "update", "done"} => pc[y] \in {"list", "update", "done"}
    BY <1>1, <1>10 DEF UpdateBatch, TypeOK
  <2>3. api = "stopped"
    BY <1>1, <1>2, <2>1
  <2>4. \A i \in Id : rows[i] = None => rows'[i] = None
    BY <1>1, <1>10, BatchWrites DEF IInv
  <2>5. Present' = Present
    BY <1>1, <2>4 DEF Present, RowsKept
  <2>6. QED
    BY <1>1, <2>1, <2>2, <2>3, <2>5 DEF PlanOK
<1>11. ASSUME NEW x \in Rotator, Interrupt(x) PROVE PlanOK'
  <2>1. UNCHANGED <<rows, api, copied, before>> /\ api = "stopped"
    BY <1>1, <1>11 DEF Interrupt, TypeOK, apiVars
  <2>2. \A y \in Rotator : pc'[y] \in {"list", "update", "done"} => pc[y] \in {"list", "update", "done"}
    BY <1>1, <1>11 DEF Interrupt, TypeOK
  <2>3. QED
    BY <1>1, <2>1, <2>2 DEF PlanOK, Present
<1>12. ASSUME NEW x \in Rotator, Acknowledge(x) PROVE PlanOK'
  <2>1. UNCHANGED <<rows, api, copied, before>> /\ api = "next"
    BY <1>12 DEF Acknowledge, apiVars
  <2>2. \A y \in Rotator : pc'[y] \in {"idle", "done"}
    BY <1>1, <1>12, <2>1 DEF Acknowledge, TypeOK
  <2>3. QED
    BY <1>1, <2>1, <2>2 DEF PlanOK, Present
<1>13. QED
  BY <1>3, <1>4, <1>5, <1>6, <1>7, <1>8, <1>9, <1>10, <1>11, <1>12 DEF Next

LEMMA InitOK == Init => IInv
<1> SUFFICES ASSUME Init PROVE IInv
  OBVIOUS
<1>1. PICK present \in SUBSET Id : \E foreign \in {{}} \cup {{i} : i \in present} :
        rows = [i \in Id |-> IF i \notin present THEN None
                             ELSE IF i \in foreign THEN Seal(i, "other")
                             ELSE Seal(i, "current")]
  BY DEF Init
<1>2. \A i \in Id : rows[i] \in {None, Seal(i, "other"), Seal(i, "current")}
  BY <1>1
<1>3. \A i \in Id, key \in {"other", "current"} :
        Seal(i, key) \in Row /\ Seal(i, key).wrapped.dek = Seal(i, key).sealedWith
  BY DEF Seal, Row, Wrapped
<1>4. rows \in [Id -> Row \cup {None}]
  <2> HIDE DEF Seal
  <2>1. \A i \in Id : rows[i] \in Row \cup {None}
    BY <1>2, <1>3
  <2>2. DOMAIN rows = Id /\ rows = [i \in Id |-> rows[i]]
    BY <1>1
  <2>3. QED
    BY <2>1, <2>2
<1>5. DataKeyPreserved
  BY <1>2, <1>3 DEF DataKeyPreserved, Present
<1>6. TypeOK
  <2>1. 0 \in 0..N /\ Plans \subseteq BOOLEAN
    BY KeyRotationAssumption DEF KeyRotationAssumption
  <2>2. QED
    BY <1>4, <2>1 DEF Init, TypeOK
<1>7. \A x \in Rotator : UpdatesOK(x) /\ Covered(x)
  BY DEF Init, UpdatesOK, Covered
<1>8. CopyOK /\ PlanOK
  BY DEF Init, CopyOK, PlanOK
<1>9. QED
  BY <1>5, <1>6, <1>7, <1>8 DEF IInv

LEMMA StepOK == IInv /\ [Next]_vars => IInv'
<1>1. ASSUME IInv, Next PROVE IInv'
  <2>1. TypeOK'
    BY <1>1, TypeStep DEF IInv
  <2>2. \A x \in Rotator : UpdatesOK(x)' /\ Covered(x)'
    BY <1>1, RunsStep
  <2>3. ~planned => ~planned'
    BY <1>1 DEF Next, ApiWrite, ApiCopyRead, ApiCopyWrite, ApiStop, ApiRestart, Run, List,
           UpdateBatch, Interrupt, Acknowledge, apiVars
  <2>4. CopyOK' /\ PlanOK' /\ DataKeyPreserved'
    <3>1. CASE planned
      BY <1>1, <3>1, DataKeyStep, PlanStep DEF CopyOK
    <3>2. CASE ~planned
      BY <1>1, <2>3, <3>2, DataKeyStep DEF CopyOK, PlanOK
    <3>3. QED
      BY <3>1, <3>2
  <2>5. QED
    BY <2>1, <2>2, <2>4 DEF IInv
<1>2. ASSUME IInv, UNCHANGED vars PROVE IInv'
  BY <1>2 DEF IInv, vars, apiVars, runVars, TypeOK, DataKeyPreserved, Present, UpdatesOK,
              Covered, Rotated, CopyOK, PlanOK
<1>3. QED
  BY <1>1, <1>2

-----------------------------------------------------------------------------
(* The theorems *)

LEMMA Inductive == Spec => []IInv
  BY InitOK, StepOK, PTL DEF Spec

\* The tables, the commands' locals and the operator's view of them keep their
\* types.
THEOREM RotationTypeCorrect == Spec => []TypeOK
<1>1. IInv => TypeOK
  BY DEF IInv
<1>2. QED
  BY <1>1, Inductive, PTL

\* Rotation never separates a ciphertext from the data key that opens it,
\* however runs overlap, stop half-way or meet copies by the API.
THEOREM DataKeysSurvive == Spec => []DataKeyPreserved
<1>1. IInv => DataKeyPreserved
  BY DEF IInv
<1>2. QED
  BY <1>1, Inductive, PTL

\* A run that ends with success has rotated every row there was when it
\* started, for any batch size and whatever was inserted around its cursor.
THEOREM SuccessCoversTheStart == Spec => []RunCoversItsStart
<1>1. IInv => RunCoversItsStart
  BY DEF IInv, Covered, RunCoversItsStart
<1>2. QED
  BY <1>1, Inductive, PTL

\* With the API stopped first, one started on the next key after a successful
\* run can open every row.
THEOREM PlannedRestartIsSafe == Spec => []PlannedRestartReadsAll
<1>1. IInv => PlannedRestartReadsAll
  BY DEF IInv, PlanOK, PlannedRestartReadsAll
<1>2. QED
  BY <1>1, Inductive, PTL

\* What one run has rotated no other run, no interruption and no write of the
\* API undoes.
THEOREM RotatedStaysRotated == Spec => NeverUnrotated
<1>1. ASSUME IInv, [Next]_vars
      PROVE  [\A i \in Present : rows[i].wrapped.under = "next" => rows'[i] = rows[i]]_vars
  <2>1. CASE Next
    BY <1>1, <2>1, RowsAreKept DEF RowsKept, Present
  <2>2. QED
    BY <1>1, <2>1
<1>2. QED
  BY <1>1, Inductive, PTL DEF Spec, NeverUnrotated
=============================================================================
