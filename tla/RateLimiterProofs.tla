-------------------------- MODULE RateLimiterProofs --------------------------
(***************************************************************************)
(* Proofs about the rate limiter, for any number of keys, requests and     *)
(* buckets, any burst and any idle time that lets a bucket fill.           *)
(*                                                                         *)
(* IInv relates the history (ideal) to the tokens of the bucket in the     *)
(* map, to the reservations that are still open, and to the age of its     *)
(* lastSeen.                                                               *)
(***************************************************************************)
EXTENDS RateLimiter, TLAPS, FiniteSetTheorems

\* The requests of key k that have touched its bucket and not left yet.
Using(k) == {r \in Inside(k) : pc[r] \in {"reserve", "delay", "cancel"}}

\* A request with a reservation, and one whose reservation is not due yet or can
\* still be given back.
Reserved(r) == pc[r] \in {"delay", "cancel"}
Open(r) ==
    \/ pc[r] = "delay" /\ wait[r] > 0
    \/ pc[r] = "cancel" /\ wait[r] >= 0

\* A bucket in the map is held for its own key, and an undisturbed key's requests
\* hold the bucket in the map.
HeldOK ==
    /\ \A r \in Request, k \in Key :
          held[r] # None /\ held[r] = buckets[k] => key[r] = k
    /\ \A r \in Request :
          held[r] # None /\ ~disturbed[key[r]] => held[r] = buckets[key[r]]

\* Open reservations of one bucket are for different promised tokens.
WaitOK ==
    /\ \A r \in Request : ~Reserved(r) => wait[r] = 0
    /\ \A r \in Request : Open(r) => wait[r] <= -tokens[held[r]]
    /\ \A r, q \in Request :
          Open(r) /\ Open(q) /\ r # q /\ held[r] = held[q] => wait[r] # wait[q]

\* The ideal bucket has at least what the real one has, is full when there is no
\* real one, and has filled by the time the real one can be reclaimed.  A token
\* that comes due and is then given back was never taken from it.
AheadOK(k) ==
    /\ ideal[k] >= 0
    /\ buckets[k] = None => ideal[k] = Burst
    /\ buckets[k] # None => ideal[k] >= tokens[buckets[k]]
    /\ buckets[k] # None /\ Using(k) = {} =>
          \/ ideal[k] = Burst
          \/ ideal[k] >= seen[buckets[k]] - (IdleTTL - Burst)
    /\ \A r \in Inside(k) : pc[r] = "cancel" /\ wait[r] = 0 => ideal[k] >= 1

\* Without overlapping reservations the two differ by the one token that an
\* undecided request is promised and will give back.
EvenOK(k) ==
    /\ \A r, q \in Inside(k) : Reserved(r) /\ Reserved(q) => r = q
    /\ buckets[k] # None /\ (\A r \in Inside(k) : ~Reserved(r)) =>
          ideal[k] = tokens[buckets[k]]
    /\ \A r \in Inside(k) : Reserved(r) =>
          \/ pc[r] = "delay" /\ wait[r] = 0 /\ ideal[k] = tokens[held[r]]
          \/ wait[r] > 0 /\ wait[r] = -tokens[held[r]] /\ ideal[k] = tokens[held[r]] + 1

IInv ==
    /\ TypeOK
    /\ HeldOK
    /\ WaitOK
    /\ \A k \in Key : ~disturbed[k] => AheadOK(k)
    /\ \A k \in Key : ~disturbed[k] /\ ~crowded[k] => EvenOK(k)

LEMMA InitHolds == Init => IInv
<1> SUFFICES ASSUME Init PROVE IInv
  OBVIOUS
<1>1. TypeOK
  BY RateLimiterAssumption DEF Init, TypeOK, Ages
<1>2. HeldOK /\ WaitOK
  BY DEF Init, HeldOK, WaitOK, Reserved, Open
<1>3. ASSUME NEW k \in Key
      PROVE  AheadOK(k) /\ EvenOK(k)
  BY RateLimiterAssumption DEF Init, AheadOK, EvenOK, Inside, Reserved
<1>4. QED
  BY <1>1, <1>2, <1>3 DEF IInv

-----------------------------------------------------------------------------
(* Time.                                                                   *)

\* The requests of key k that a tick serves.
Due(k) == {r \in Inside(k) : pc[r] = "delay" /\ wait[r] = 1}

\* A tick serves one request of an undisturbed key at most, and then the bucket
\* owes its token.
LEMMA OneComesDue ==
  ASSUME IInv, NEW k \in Key, ~disturbed[k]
  PROVE  \/ Due(k) = {} /\ Cardinality(Due(k)) = 0
         \/ \E r \in Inside(k) :
               /\ pc[r] = "delay" /\ wait[r] = 1 /\ held[r] = buckets[k]
               /\ tokens[buckets[k]] <= -1 /\ buckets[k] # None
               /\ Cardinality(Due(k)) = 1
<1>1. CASE Due(k) = {}
  BY <1>1, FS_EmptySet
<1>2. CASE Due(k) # {}
  <2>1. PICK r \in Due(k) : TRUE
    BY <1>2
  <2>2. /\ r \in Request /\ key[r] = k
        /\ pc[r] = "delay" /\ wait[r] = 1 /\ held[r] = buckets[k] /\ held[r] # None
        /\ held[r] \in Bucket
    BY <2>1 DEF Due, Inside, IInv, TypeOK, HeldOK
  <2>3. tokens[buckets[k]] \in Int /\ 1 <= -tokens[buckets[k]]
    BY <2>2, RateLimiterAssumption DEF IInv, TypeOK, WaitOK, Open
  <2>4. ASSUME NEW q \in Due(k)
        PROVE  q = r
    <3>1. /\ q \in Request /\ key[q] = k
          /\ pc[q] = "delay" /\ wait[q] = 1 /\ held[q] = buckets[k]
      BY <2>4 DEF Due, Inside, IInv, TypeOK, HeldOK
    <3>2. QED
      BY <2>2, <3>1 DEF IInv, WaitOK, Open
  <2>5. Due(k) = {r}
    BY <2>1, <2>4
  <2>6. Cardinality(Due(k)) = 1
    BY <2>5, FS_Singleton
  <2>7. QED
    BY <2>2, <2>3, <2>6 DEF Inside
<1>3. QED
  BY <1>1, <1>2

\* What a tick does to the ideal bucket of an undisturbed key.
LEMMA IdealAtTick ==
  ASSUME IInv, Tick, NEW k \in Key, ~disturbed[k]
  PROVE  \/ Due(k) = {} /\ ideal'[k] = Refilled(ideal[k])
         \/ \E r \in Inside(k) :
               /\ pc[r] = "delay" /\ wait[r] = 1 /\ held[r] = buckets[k]
               /\ tokens[buckets[k]] <= -1 /\ buckets[k] # None
               /\ ideal'[k] = Refilled(ideal[k]) - 1
<1>1. ideal'[k] = Refilled(ideal[k]) - Cardinality(Due(k))
  BY DEF Tick, Due
<1>2. Refilled(ideal[k]) \in Int
  BY RateLimiterAssumption DEF Refilled, IInv, TypeOK
<1>3. QED
  BY <1>1, <1>2, OneComesDue

-----------------------------------------------------------------------------
(* What the steps do to the types and to who holds which bucket.           *)

LEMMA TypeStep == ASSUME IInv, Next PROVE TypeOK'
<1> USE RateLimiterAssumption DEF IInv, TypeOK
<1>1. ASSUME NEW r \in Request, NEW k \in Key, Reserve(r, k)
      PROVE  TypeOK'
  BY <1>1 DEF Reserve, history, Ages
<1>2. ASSUME NEW r \in Request, Lookup(r)
      PROVE  TypeOK'
  BY <1>2 DEF Lookup, history
<1>3. ASSUME NEW r \in Request, Touch(r)
      PROVE  TypeOK'
  BY <1>3 DEF Touch, locals, history
<1>4. ASSUME NEW r \in Request, Create(r)
      PROVE  TypeOK'
  BY <1>4 DEF Create, NewBucket, Unused, history
<1>5. ASSUME NEW r \in Request, ReserveN(r)
      PROVE  TypeOK'
  BY <1>5 DEF ReserveN
<1>6. ASSUME NEW r \in Request, Admit(r)
      PROVE  TypeOK'
  BY <1>6 DEF Admit, Leave, Ages
<1>7. ASSUME NEW r \in Request, Refuse(r)
      PROVE  TypeOK'
  BY <1>7 DEF Refuse, locals, history
<1>8. ASSUME NEW r \in Request, Cancel(r)
      PROVE  TypeOK'
  BY <1>8 DEF Cancel, Leave, Restores, Ages
<1>9. CASE Tick
  <2>1. ideal' \in [Key -> Int] /\ \A k \in Key : ideal'[k] <= Burst
    <3>1. ASSUME NEW k \in Key
          PROVE  ideal'[k] \in Int /\ ideal'[k] <= Burst
      <4>1. CASE disturbed[k]
        BY <1>9, <4>1 DEF Tick
      <4>2. CASE ~disturbed[k]
        BY <1>9, <4>2, IdealAtTick DEF Refilled
      <4>3. QED
        BY <4>1, <4>2
    <3>2. QED
      BY <1>9, <3>1 DEF Tick
  <2>2. /\ tokens' \in [Bucket -> (-MaxDebt)..Burst]
        /\ wait' \in [Request -> (-1)..MaxDebt]
    BY <1>9 DEF Tick, Refilled
  <2>3. seen' \in [Bucket -> Ages] /\ age' \in [Request -> Ages]
    BY <1>9 DEF Tick, Ages, Older
  <2>4. QED
    BY <1>9, <2>1, <2>2, <2>3 DEF Tick
<1>10. CASE Reclaim
  BY <1>10 DEF Reclaim, locals
<1>11. QED
  BY <1>1, <1>2, <1>3, <1>4, <1>5, <1>6, <1>7, <1>8, <1>9, <1>10 DEF Next, Step

LEMMA HeldStep == ASSUME IInv, Next PROVE HeldOK'
<1> USE RateLimiterAssumption DEF IInv, TypeOK, HeldOK
<1>1. ASSUME NEW r \in Request, NEW k \in Key, Reserve(r, k)
      PROVE  HeldOK'
  BY <1>1 DEF Reserve, history
<1>2. ASSUME NEW r \in Request, Lookup(r)
      PROVE  HeldOK'
  BY <1>2 DEF Lookup, history
<1>3. ASSUME NEW r \in Request, Touch(r)
      PROVE  HeldOK'
  BY <1>3 DEF Touch, locals, history
<1>4. ASSUME NEW r \in Request, Create(r)
      PROVE  HeldOK'
  BY <1>4 DEF Create, NewBucket, Unused, history
<1>5. ASSUME NEW r \in Request, ReserveN(r)
      PROVE  HeldOK'
  BY <1>5 DEF ReserveN
<1>6. ASSUME NEW r \in Request, Admit(r)
      PROVE  HeldOK'
  BY <1>6 DEF Admit, Leave
<1>7. ASSUME NEW r \in Request, Refuse(r)
      PROVE  HeldOK'
  BY <1>7 DEF Refuse, locals, history
<1>8. ASSUME NEW r \in Request, Cancel(r)
      PROVE  HeldOK'
  BY <1>8 DEF Cancel, Leave
<1>9. CASE Tick
  BY <1>9 DEF Tick
<1>10. CASE Reclaim
  <2>1. UNCHANGED <<pc, key, held>>
    BY <1>10 DEF Reclaim, locals
  <2>2. ASSUME NEW r \in Request, NEW k \in Key, held[r] # None, held[r] = buckets'[k]
        PROVE  key[r] = k
    BY <1>10, <2>2 DEF Reclaim
  <2>3. ASSUME NEW r \in Request, held[r] # None, ~disturbed'[key[r]]
        PROVE  held[r] = buckets'[key[r]]
    <3>1. key[r] \in Key /\ Inside(key[r]) # {}
      BY <2>3 DEF Inside
    <3>2. ~disturbed[key[r]] /\ buckets'[key[r]] = buckets[key[r]]
      BY <1>10, <2>3, <3>1 DEF Reclaim
    <3>3. QED
      BY <2>3, <3>2
  <2>4. QED
    BY <2>1, <2>2, <2>3
<1>11. QED
  BY <1>1, <1>2, <1>3, <1>4, <1>5, <1>6, <1>7, <1>8, <1>9, <1>10 DEF Next, Step

LEMMA WaitStep == ASSUME IInv, Next PROVE WaitOK'
<1> USE RateLimiterAssumption DEF IInv, TypeOK, WaitOK, Open, Reserved
<1>1. ASSUME NEW r \in Request, NEW k \in Key, Reserve(r, k)
      PROVE  WaitOK'
  BY <1>1 DEF Reserve, history
<1>2. ASSUME NEW r \in Request, Lookup(r)
      PROVE  WaitOK'
  BY <1>2 DEF Lookup, history
<1>3. ASSUME NEW r \in Request, Touch(r)
      PROVE  WaitOK'
  BY <1>3 DEF Touch, locals, history
<1>4. ASSUME NEW r \in Request, Create(r)
      PROVE  WaitOK'
  BY <1>4 DEF Create, NewBucket, Unused, history
<1>5. ASSUME NEW r \in Request, ReserveN(r)
      PROVE  WaitOK'
  <2>1. /\ held[r] \in Bucket /\ tokens[held[r]] \in Int
        /\ tokens' = [tokens EXCEPT ![held[r]] = tokens[held[r]] - 1]
        /\ pc' = [pc EXCEPT ![r] = "delay"]
        /\ UNCHANGED held
    BY <1>5 DEF ReserveN
  <2>2. \A q \in Request : q # r => pc'[q] = pc[q] /\ wait'[q] = wait[q]
    BY <1>5 DEF ReserveN
  <2>3. wait'[r] > 0 => wait'[r] = -tokens'[held[r]]
    BY <1>5, <2>1 DEF ReserveN
  <2>4. \A q \in Request : q # r /\ Open(q) /\ held[q] = held[r] =>
          wait[q] < -tokens'[held[r]]
    BY <2>1
  <2>5. \A q \in Request : q # r => (Open(q)' <=> Open(q))
    BY <2>2
  <2>6. \A q \in Request : Open(q)' => wait'[q] <= -tokens'[held'[q]]
    BY <2>1, <2>2, <2>3, <2>4
  <2>7. \A p, q \in Request :
          Open(p)' /\ Open(q)' /\ p # q /\ held[p] = held[q] => wait'[p] # wait'[q]
    BY <2>1, <2>2, <2>3, <2>4
  <2>8. QED
    BY <1>5, <2>1, <2>2, <2>6, <2>7
<1>6. ASSUME NEW r \in Request, Admit(r)
      PROVE  WaitOK'
  BY <1>6 DEF Admit, Leave
<1>7. ASSUME NEW r \in Request, Refuse(r)
      PROVE  WaitOK'
  BY <1>7 DEF Refuse, locals, history
<1>8. ASSUME NEW r \in Request, Cancel(r)
      PROVE  WaitOK'
  <2>1. \A q \in Request : q # r =>
          pc'[q] = pc[q] /\ wait'[q] = wait[q] /\ held'[q] = held[q]
    BY <1>8 DEF Cancel, Leave
  <2>2. pc'[r] = "idle" /\ wait'[r] = 0
    BY <1>8 DEF Cancel, Leave
  <2>3. \A q \in Request : q # r /\ Open(q) => wait[q] <= -tokens'[held[q]]
    BY <1>8 DEF Cancel, Restores
  <2>4. QED
    BY <2>1, <2>2, <2>3
<1>9. CASE Tick
  <2>1. \A r \in Request : Open(r)' =>
          /\ Open(r) /\ wait'[r] = wait[r] - 1
          /\ tokens[held[r]] < 0 /\ tokens'[held[r]] = tokens[held[r]] + 1
    <3>1. ASSUME NEW r \in Request, Open(r)'
          PROVE  /\ Open(r) /\ wait'[r] = wait[r] - 1
                 /\ tokens[held[r]] < 0 /\ tokens'[held[r]] = tokens[held[r]] + 1
      <4>1. /\ Open(r) /\ wait[r] >= 1 /\ wait'[r] = wait[r] - 1
            /\ held[r] \in Bucket
        BY <1>9, <3>1 DEF Tick
      <4>2. tokens[held[r]] \in Int /\ tokens[held[r]] < 0
        BY <4>1
      <4>3. tokens'[held[r]] = Refilled(tokens[held[r]])
        BY <1>9, <4>1 DEF Tick
      <4>4. QED
        BY <4>1, <4>2, <4>3 DEF Refilled
    <3>2. QED
      BY <3>1
  <2>2. \A r \in Request : ~Reserved(r) => wait'[r] = 0 /\ ~Reserved(r)'
    BY <1>9 DEF Tick
  <2>3. \A r \in Request : wait[r] \in Int
    OBVIOUS
  <2>4. UNCHANGED <<pc, held>>
    BY <1>9 DEF Tick
  <2>5. ASSUME NEW r \in Request, NEW q \in Request,
               Open(r)', Open(q)', r # q, held[r] = held[q]
        PROVE  wait'[r] # wait'[q]
    <3>1. wait[r] # wait[q]
      BY <2>1, <2>5
    <3>2. /\ wait[r] \in Int /\ wait[q] \in Int
          /\ wait'[r] = wait[r] - 1 /\ wait'[q] = wait[q] - 1
      BY <2>1, <2>3, <2>5
    <3>3. QED
      BY <3>1, <3>2
  <2>6. ASSUME NEW r \in Request, Open(r)'
        PROVE  wait'[r] <= -tokens'[held[r]]
    <3>1. /\ wait[r] \in Int /\ tokens[held[r]] \in Int
          /\ wait[r] <= -tokens[held[r]]
      BY <2>1, <2>6
    <3>2. wait'[r] = wait[r] - 1 /\ tokens'[held[r]] = tokens[held[r]] + 1
      BY <2>1, <2>6
    <3>3. QED
      BY <3>1, <3>2
  <2>7. QED
    BY <2>2, <2>4, <2>5, <2>6
<1>10. CASE Reclaim
  BY <1>10 DEF Reclaim, locals
<1>11. QED
  BY <1>1, <1>2, <1>3, <1>4, <1>5, <1>6, <1>7, <1>8, <1>9, <1>10 DEF Next, Step

-----------------------------------------------------------------------------
(* The two buckets.                                                        *)

\* A step that changes nothing that AheadOK(k) and EvenOK(k) are about.
Same(k) ==
    /\ ideal'[k] = ideal[k] /\ buckets'[k] = buckets[k]
    /\ buckets[k] # None =>
          tokens'[buckets[k]] = tokens[buckets[k]] /\ seen'[buckets[k]] = seen[buckets[k]]
    /\ Inside(k)' = Inside(k)
    /\ \A r \in Inside(k) : pc'[r] = pc[r] /\ wait'[r] = wait[r] /\ held'[r] = held[r]

LEMMA SameKeeps ==
  ASSUME IInv, NEW k \in Key, ~disturbed[k], Same(k)
  PROVE  /\ AheadOK(k) => AheadOK(k)'
         /\ EvenOK(k) => EvenOK(k)'
<1>1. AheadOK(k) => AheadOK(k)'
  BY DEF Same, AheadOK, Using
<1>2. \A r \in Inside(k) : Reserved(r) => held[r] = buckets[k] /\ buckets[k] # None
  BY DEF IInv, TypeOK, HeldOK, Inside, Reserved
<1>3. EvenOK(k) => EvenOK(k)'
  BY <1>2 DEF Same, EvenOK, Reserved
<1>4. QED
  BY <1>1, <1>3

\* A request's step is felt by its own key only: no other key's bucket is the one
\* it holds, or the one it makes.
LEMMA OthersSame ==
  ASSUME IInv, NEW r \in Request, Step(r), NEW k \in Key, k # key[r], k # key'[r]
  PROVE  Same(k) /\ disturbed'[k] = disturbed[k] /\ crowded'[k] = crowded[k]
<1> USE RateLimiterAssumption DEF IInv, TypeOK
<1>1. r \notin Inside(k) /\ Inside(k)' = Inside(k)
  BY DEF Step, Reserve, Lookup, Touch, Create, ReserveN, Admit, Leave, Refuse, Cancel,
         Inside, locals
<1>2. \A q \in Inside(k) : pc'[q] = pc[q] /\ wait'[q] = wait[q] /\ held'[q] = held[q]
  BY <1>1 DEF Step, Reserve, Lookup, Touch, Create, ReserveN, Admit, Leave, Refuse, Cancel,
         Inside, locals
<1>3. /\ ideal'[k] = ideal[k] /\ buckets'[k] = buckets[k]
      /\ disturbed'[k] = disturbed[k] /\ crowded'[k] = crowded[k]
  BY DEF Step, Reserve, Lookup, Touch, Create, NewBucket, ReserveN, Admit, Leave, Refuse,
         Cancel, locals, history
<1>4. ASSUME buckets[k] # None
      PROVE  tokens'[buckets[k]] = tokens[buckets[k]] /\ seen'[buckets[k]] = seen[buckets[k]]
  <2>1. buckets[k] \in Bucket /\ buckets[k] # held[r] /\ buckets[k] \notin Unused
        /\ (key[r] \in Key => buckets[k] # buckets[key[r]])
    BY <1>4 DEF HeldOK, Unused
  <2>2. CASE Create(r)
    BY <1>4, <2>1, <2>2 DEF Create, NewBucket
  <2>3. CASE Touch(r) \/ ReserveN(r) \/ Cancel(r)
    BY <1>4, <2>1, <2>3 DEF Touch, ReserveN, Cancel, Leave
  <2>4. CASE Lookup(r) \/ Admit(r) \/ Refuse(r) \/ \E l \in Key : Reserve(r, l)
    BY <2>4 DEF Lookup, Admit, Leave, Refuse, Reserve
  <2>5. QED
    BY <2>2, <2>3, <2>4 DEF Step
<1>5. QED
  BY <1>1, <1>2, <1>3, <1>4 DEF Same

\* A step is for key k when the request comes in with k or has it; a request that
\* has a key does not come in.
LEMMA WhoseStep ==
  ASSUME IInv, NEW r \in Request, Step(r), NEW k \in Key
  PROVE  \/ Reserve(r, k)
         \/ /\ key[r] = k
            /\ \/ Lookup(r) \/ Touch(r) \/ Create(r) \/ ReserveN(r)
               \/ Admit(r) \/ Refuse(r) \/ Cancel(r)
         \/ k # key[r] /\ k # key'[r]
<1> USE RateLimiterAssumption DEF IInv, TypeOK
<1>1. ASSUME NEW l \in Key, Reserve(r, l), l # k
      PROVE  k # key[r] /\ k # key'[r]
  BY <1>1 DEF Reserve
<1>2. CASE Admit(r) \/ Cancel(r)
  BY <1>2 DEF Admit, Cancel, Leave
<1>3. CASE Lookup(r) \/ Touch(r) \/ Create(r) \/ ReserveN(r) \/ Refuse(r)
  BY <1>3 DEF Lookup, Touch, Create, ReserveN, Refuse, locals
<1>4. QED
  BY <1>1, <1>2, <1>3 DEF Step

\* Who of an undisturbed key holds a bucket holds the one in the map.
LEMMA HoldsTheBucket ==
  ASSUME IInv, NEW k \in Key, ~disturbed[k], NEW r \in Inside(k),
         pc[r] \in {"touch", "reserve", "delay", "cancel"}
  PROVE  /\ r \in Request /\ key[r] = k /\ held[r] = buckets[k] /\ buckets[k] # None
         /\ buckets[k] \in Bucket /\ tokens[buckets[k]] \in Int
  BY RateLimiterAssumption DEF IInv, TypeOK, HeldOK, Inside

LEMMA AheadStep ==
  ASSUME IInv, Next, NEW k \in Key, ~disturbed'[k]
  PROVE  AheadOK(k)'
<1> USE RateLimiterAssumption DEF IInv, TypeOK
<1>1. ~disturbed[k] /\ AheadOK(k)
  BY DEF Next, Step, Reserve, Lookup, Touch, Create, ReserveN, Admit, Leave, Refuse,
         Cancel, Tick, Reclaim, locals, history
<1>2. ASSUME NEW r \in Request, Step(r), k # key[r], k # key'[r]
      PROVE  AheadOK(k)'
  BY <1>1, <1>2, OthersSame, SameKeeps
<1>3. ASSUME NEW r \in Request, Reserve(r, k)
      PROVE  AheadOK(k)'
  <2>1. UNCHANGED <<ideal, buckets, tokens, seen, wait>> /\ Using(k)' = Using(k)
    BY <1>3 DEF Reserve, Using, Inside, history
  <2>2. \A q \in Inside(k)' : pc'[q] = "cancel" => q \in Inside(k) /\ pc[q] = "cancel"
    BY <1>3 DEF Reserve, Inside
  <2>3. QED
    BY <1>1, <2>1, <2>2 DEF AheadOK
<1>4. ASSUME NEW r \in Request, Lookup(r), key[r] = k
      PROVE  AheadOK(k)'
  <2>1. UNCHANGED <<ideal, buckets, tokens, seen, wait, key>> /\ Using(k)' = Using(k)
    BY <1>4 DEF Lookup, Using, Inside, history
  <2>2. \A q \in Inside(k)' : pc'[q] = "cancel" => q \in Inside(k) /\ pc[q] = "cancel"
    BY <1>4 DEF Lookup, Inside
  <2>3. QED
    BY <1>1, <2>1, <2>2 DEF AheadOK
<1>5. ASSUME NEW r \in Request, Touch(r), key[r] = k
      PROVE  AheadOK(k)'
  <2>1. UNCHANGED <<ideal, buckets, tokens, wait, key>> /\ r \in Using(k)'
    BY <1>5 DEF Touch, Using, Inside, locals, history
  <2>2. \A q \in Inside(k)' : pc'[q] = "cancel" => q \in Inside(k) /\ pc[q] = "cancel"
    BY <1>5 DEF Touch, Inside, locals
  <2>3. QED
    BY <1>1, <2>1, <2>2 DEF AheadOK
<1>6. ASSUME NEW r \in Request, Create(r), key[r] = k
      PROVE  AheadOK(k)'
  <2>1. UNCHANGED <<ideal, wait, key>> /\ r \in Using(k)'
    BY <1>6 DEF Create, Using, Inside, history
  <2>2. \A q \in Inside(k)' : pc'[q] = "cancel" => q \in Inside(k) /\ pc[q] = "cancel"
    BY <1>6 DEF Create, Inside
  <2>3. buckets'[k] # None
    BY <1>6 DEF Create, NewBucket
  <2>4. ideal[k] >= tokens'[buckets'[k]]
    BY <1>1, <1>6 DEF Create, NewBucket, AheadOK
  <2>5. QED
    BY <1>1, <2>1, <2>2, <2>3, <2>4 DEF AheadOK
<1>7. ASSUME NEW r \in Request, ReserveN(r), key[r] = k
      PROVE  AheadOK(k)'
  <2>1. /\ held[r] = buckets[k] /\ buckets[k] # None /\ tokens[buckets[k]] \in Int
        /\ tokens'[buckets[k]] = tokens[buckets[k]] - 1
        /\ UNCHANGED <<buckets, seen, key, held>> /\ r \in Using(k)'
    BY <1>1, <1>7, HoldsTheBucket DEF ReserveN, Using, Inside
  <2>2. ideal'[k] = IF tokens[buckets[k]] >= 1 THEN ideal[k] - 1 ELSE ideal[k]
    BY <1>1, <1>7, <2>1 DEF ReserveN
  <2>3. ideal'[k] >= 0 /\ ideal'[k] >= tokens'[buckets[k]]
    BY <1>1, <2>1, <2>2 DEF AheadOK
  <2>4. ASSUME NEW q \in Inside(k)', pc'[q] = "cancel", wait'[q] = 0
        PROVE  ideal'[k] >= 1
    <3>1. q \in Inside(k) /\ q # r /\ pc[q] = "cancel" /\ wait[q] = 0
      BY <1>7, <2>4 DEF ReserveN, Inside
    <3>2. tokens[buckets[k]] <= 0
      BY <1>1, <2>1, <3>1, HoldsTheBucket DEF WaitOK, Open
    <3>3. QED
      BY <1>1, <2>1, <2>2, <3>1, <3>2 DEF AheadOK
  <2>5. QED
    BY <1>1, <2>1, <2>3, <2>4 DEF AheadOK
<1>8. ASSUME NEW r \in Request, Refuse(r), key[r] = k
      PROVE  AheadOK(k)'
  <2>1. UNCHANGED <<ideal, buckets, tokens, seen, wait, key>> /\ Using(k)' = Using(k)
    BY <1>8 DEF Refuse, Using, Inside, locals, history
  <2>2. \A q \in Inside(k)' : pc'[q] = "cancel" /\ wait'[q] = 0 =>
          q \in Inside(k) /\ pc[q] = "cancel" /\ wait[q] = 0
    BY <1>8 DEF Refuse, Inside, locals
  <2>3. QED
    BY <1>1, <2>1, <2>2 DEF AheadOK
<1>9. ASSUME NEW r \in Request, Admit(r) \/ Cancel(r), key[r] = k
      PROVE  AheadOK(k)'
  <2>1. /\ held[r] = buckets[k] /\ buckets[k] # None /\ tokens[buckets[k]] \in Int
        /\ UNCHANGED <<ideal, buckets, seen>> /\ seen[buckets[k]] \in Int
    BY <1>1, <1>9, HoldsTheBucket DEF Admit, Cancel, Leave, Inside, Ages
  <2>2. seen[buckets[k]] <= IdleTTL - Burst
    <3>1. ~Stale(r)
      BY <1>9 DEF Admit, Cancel, Leave
    <3>2. QED
      BY <2>1, <3>1 DEF Stale
  <2>3. \A q \in Inside(k)' : q # r /\ q \in Inside(k) /\ pc'[q] = pc[q] /\ wait'[q] = wait[q]
    BY <1>9 DEF Admit, Cancel, Leave, Inside
  <2>4. ideal[k] >= tokens'[buckets[k]]
    <3>1. CASE pc[r] = "cancel" /\ Restores(r)
      <4>1. tokens'[buckets[k]] = tokens[buckets[k]] + 1
        BY <1>9, <2>1, <3>1 DEF Admit, Cancel
      <4>2. CASE wait[r] = 0
        BY <1>1, <1>9, <2>1, <3>1, <4>1, <4>2 DEF AheadOK, Restores, Inside
      <4>3. CASE wait[r] > 0
        BY <1>1, <2>1, <3>1, <4>1, <4>3 DEF AheadOK, Restores
      <4>4. QED
        BY <3>1, <4>2, <4>3 DEF Restores
    <3>2. CASE ~(pc[r] = "cancel" /\ Restores(r))
      BY <1>1, <1>9, <2>1, <3>2 DEF Admit, Cancel, AheadOK
    <3>3. QED
      BY <3>1, <3>2
  <2>5. QED
    BY <1>1, <2>1, <2>2, <2>3, <2>4 DEF AheadOK
<1>10. CASE Tick
  <2>1. /\ UNCHANGED <<buckets, pc, key, held>>
        /\ ideal[k] \in Int /\ ideal[k] <= Burst
        /\ Inside(k)' = Inside(k) /\ Using(k)' = Using(k)
    BY <1>10 DEF Tick, Inside, Using
  <2>2. ASSUME buckets[k] # None
        PROVE  /\ buckets[k] \in Bucket
               /\ tokens[buckets[k]] \in Int /\ tokens[buckets[k]] <= Burst
               /\ tokens'[buckets[k]] = Refilled(tokens[buckets[k]])
               /\ seen[buckets[k]] \in Ages
               /\ seen'[buckets[k]] = Older(seen[buckets[k]])
    BY <1>10, <2>2 DEF Tick
  <2>3. CASE Due(k) = {} /\ ideal'[k] = Refilled(ideal[k])
    <3>1. ideal'[k] >= 0 /\ (ideal[k] = Burst => ideal'[k] = Burst)
      BY <1>1, <2>1, <2>3 DEF Refilled, AheadOK
    <3>2. buckets[k] # None => ideal'[k] >= tokens'[buckets[k]]
      BY <1>1, <2>1, <2>2, <2>3 DEF Refilled, AheadOK
    <3>3. ASSUME buckets[k] # None, Using(k) = {}
          PROVE  ideal'[k] = Burst \/ ideal'[k] >= seen'[buckets[k]] - (IdleTTL - Burst)
      BY <1>1, <2>1, <2>2, <2>3, <3>3 DEF Refilled, Older, Ages, AheadOK
    <3>4. ASSUME NEW q \in Inside(k), pc[q] = "cancel", wait'[q] = 0
          PROVE  ideal'[k] >= 1
      BY <1>1, <2>1, <2>3 DEF Refilled, AheadOK
    <3>5. QED
      BY <1>1, <2>1, <3>1, <3>2, <3>3, <3>4 DEF AheadOK
  <2>4. CASE /\ ideal'[k] = Refilled(ideal[k]) - 1
             /\ \E r \in Inside(k) :
                   /\ pc[r] = "delay" /\ wait[r] = 1 /\ held[r] = buckets[k]
                   /\ tokens[buckets[k]] <= -1 /\ buckets[k] # None
    <3>1. PICK r \in Inside(k) :
             /\ pc[r] = "delay" /\ wait[r] = 1 /\ held[r] = buckets[k]
             /\ tokens[buckets[k]] <= -1 /\ buckets[k] # None
      BY <2>4
    <3>2. r \in Using(k)
      BY <3>1 DEF Using
    <3>3. ideal'[k] >= 0 /\ ideal'[k] \in Int
      BY <1>1, <2>1, <2>4 DEF Refilled, AheadOK
    <3>4. tokens'[buckets[k]] <= 0 /\ tokens'[buckets[k]] \in Int
      BY <2>2, <3>1 DEF Refilled
    <3>5. ASSUME NEW q \in Inside(k), pc[q] = "cancel", wait'[q] = 0
          PROVE  FALSE
      <4>1. wait[q] = 1 /\ held[q] = buckets[k] /\ q \in Request /\ r \in Request
        BY <1>1, <1>10, <3>5, HoldsTheBucket DEF Tick, Inside
      <4>2. Open(q) /\ Open(r) /\ q # r
        BY <3>1, <3>5, <4>1 DEF Open
      <4>3. QED
        BY <3>1, <4>1, <4>2 DEF WaitOK
    <3>6. ideal'[k] >= tokens'[buckets[k]]
      BY <3>3, <3>4
    <3>7. QED
      BY <2>1, <3>1, <3>2, <3>3, <3>5, <3>6 DEF AheadOK
  <2>5. QED
    BY <1>1, <1>10, <2>3, <2>4, IdealAtTick
<1>11. CASE Reclaim
  <2>1. UNCHANGED <<ideal, tokens, seen, pc, key, wait>>
    BY <1>11 DEF Reclaim, locals
  <2>2. CASE buckets'[k] = buckets[k]
    BY <1>1, <2>1, <2>2 DEF AheadOK, Inside, Using
  <2>3. CASE buckets'[k] # buckets[k]
    <3>1. buckets[k] # None /\ buckets'[k] = None /\ Idle(buckets[k]) /\ Inside(k) = {}
      BY <1>11, <2>3 DEF Reclaim
    <3>2. ideal[k] = Burst
      <4>1. Using(k) = {}
        BY <3>1 DEF Using
      <4>2. seen[buckets[k]] \in Int /\ ideal[k] \in Int /\ ideal[k] <= Burst
        BY <3>1 DEF Ages
      <4>3. QED
        BY <1>1, <3>1, <4>1, <4>2 DEF AheadOK, Idle
    <3>3. QED
      BY <2>1, <3>1, <3>2 DEF AheadOK, Inside
  <2>4. QED
    BY <2>2, <2>3
<1>12. QED
  <2> HIDE DEF IInv, TypeOK
  <2>1. ASSUME NEW r \in Request, Step(r)
        PROVE  AheadOK(k)'
    BY <1>2, <1>3, <1>4, <1>5, <1>6, <1>7, <1>8, <1>9, <2>1, WhoseStep
  <2>2. QED
    BY <1>10, <1>11, <2>1 DEF Next

LEMMA EvenStep ==
  ASSUME IInv, Next, NEW k \in Key, ~disturbed'[k], ~crowded'[k]
  PROVE  EvenOK(k)'
<1> USE RateLimiterAssumption DEF IInv, TypeOK
<1>1. ~disturbed[k] /\ ~crowded[k] /\ AheadOK(k) /\ EvenOK(k)
  BY DEF Next, Step, Reserve, Lookup, Touch, Create, ReserveN, Admit, Leave, Refuse,
         Cancel, Tick, Reclaim, locals, history
<1>2. ASSUME NEW r \in Request, Step(r), k # key[r], k # key'[r]
      PROVE  EvenOK(k)'
  BY <1>1, <1>2, OthersSame, SameKeeps
<1>3. ASSUME UNCHANGED <<ideal, tokens>>,
             buckets'[k] = buckets[k],
             \A q \in Inside(k)' : Reserved(q)' =>
               q \in Inside(k) /\ pc'[q] = pc[q] /\ wait'[q] = wait[q] /\ held'[q] = held[q],
             \A q \in Inside(k) : Reserved(q) => q \in Inside(k)' /\ Reserved(q)'
      PROVE  EvenOK(k)'
  BY <1>1, <1>3 DEF EvenOK, Reserved
<1>4. ASSUME NEW r \in Request, Reserve(r, k)
      PROVE  EvenOK(k)'
  BY <1>3, <1>4 DEF Reserve, Inside, Reserved, history
<1>5. ASSUME NEW r \in Request, Lookup(r) \/ Touch(r), key[r] = k
      PROVE  EvenOK(k)'
  BY <1>3, <1>5 DEF Lookup, Touch, Inside, Reserved, locals, history
<1>6. ASSUME NEW r \in Request, Create(r), key[r] = k
      PROVE  EvenOK(k)'
  <2>1. UNCHANGED <<ideal, wait, key>>
    BY <1>6 DEF Create, history
  <2>2. ~Reserved(r) /\ ~Reserved(r)'
    BY <1>6 DEF Create, Reserved
  <2>3. \A q \in Request : q # r => pc'[q] = pc[q] /\ held'[q] = held[q]
    BY <1>6 DEF Create
  <2>4. CASE buckets[k] # None
    BY <1>3, <1>6, <2>1, <2>3, <2>4 DEF Create, Inside, Reserved
  <2>5. CASE buckets[k] = None
    <3>1. \A q \in Inside(k)' : ~Reserved(q)'
      BY <1>1, <1>6, <2>1, <2>3, <2>5, HoldsTheBucket DEF Create, Inside, Reserved
    <3>2. ideal'[k] = tokens'[buckets'[k]]
      BY <1>1, <1>6, <2>5 DEF Create, NewBucket, AheadOK, history
    <3>3. QED
      BY <3>1, <3>2 DEF EvenOK
  <2>6. QED
    BY <2>4, <2>5
<1>7. ASSUME NEW r \in Request, ReserveN(r), key[r] = k
      PROVE  EvenOK(k)'
  <2>1. /\ held[r] = buckets[k] /\ buckets[k] # None /\ tokens[buckets[k]] \in Int
        /\ tokens'[buckets[k]] = tokens[buckets[k]] - 1
        /\ UNCHANGED <<buckets, key, held>>
        /\ r \in Inside(k)
    BY <1>1, <1>7, HoldsTheBucket DEF ReserveN, Inside
  <2>2. ideal'[k] = IF tokens[buckets[k]] >= 1 THEN ideal[k] - 1 ELSE ideal[k]
    BY <1>1, <1>7, <2>1 DEF ReserveN
  <2>3. \A q \in Inside(k) : ~Reserved(q)
    <3>1. Undecided(held[r]) = {}
      BY <1>7 DEF ReserveN
    <3>2. ASSUME NEW q \in Inside(k), Reserved(q)
          PROVE  q \in Undecided(held[r])
      BY <1>1, <2>1, <3>2, HoldsTheBucket DEF Reserved, Undecided
    <3>3. QED
      BY <3>1, <3>2
  <2>4. ideal[k] = tokens[buckets[k]]
    BY <1>1, <2>1, <2>3 DEF EvenOK
  <2>5. \A q \in Inside(k)' : q \in Inside(k) /\ (Reserved(q)' => q = r)
    BY <1>7, <2>1, <2>3 DEF ReserveN, Reserved, Inside
  <2>6. Reserved(r)' /\ pc'[r] = "delay" /\ r \in Inside(k)'
    BY <1>7, <2>1 DEF ReserveN, Reserved, Inside
  <2>7. wait'[r] = IF tokens[buckets[k]] >= 1 THEN 0 ELSE 1 - tokens[buckets[k]]
    BY <1>7, <2>1 DEF ReserveN
  <2>8. \/ wait'[r] = 0 /\ ideal'[k] = tokens'[buckets[k]]
        \/ /\ wait'[r] > 0 /\ wait'[r] = -tokens'[buckets[k]]
           /\ ideal'[k] = tokens'[buckets[k]] + 1
    BY <2>1, <2>2, <2>4, <2>7
  <2>9. QED
    BY <2>1, <2>5, <2>6, <2>8 DEF EvenOK
<1>8. ASSUME NEW r \in Request, Refuse(r), key[r] = k
      PROVE  EvenOK(k)'
  <2>1. /\ UNCHANGED <<ideal, buckets, tokens, wait, held>> /\ Inside(k)' = Inside(k)
        /\ pc' = [pc EXCEPT ![r] = "cancel"] /\ Reserved(r) /\ wait[r] > 0
        /\ r \in Inside(k)
    BY <1>8 DEF Refuse, Inside, Reserved, locals, history
  <2>2. \A q \in Inside(k) : Reserved(q)' <=> Reserved(q)
    BY <2>1 DEF Reserved, Inside
  <2>3. wait[r] = -tokens[held[r]] /\ ideal[k] = tokens[held[r]] + 1
    BY <1>1, <2>1 DEF EvenOK
  <2>4. \A q \in Inside(k) : Reserved(q) => q = r
    BY <1>1, <2>1 DEF EvenOK
  <2>5. QED
    BY <1>1, <2>1, <2>2, <2>3, <2>4 DEF EvenOK
<1>9. ASSUME NEW r \in Request, Admit(r) \/ Cancel(r), key[r] = k
      PROVE  EvenOK(k)'
  <2>1. /\ held[r] = buckets[k] /\ buckets[k] # None /\ tokens[buckets[k]] \in Int
        /\ UNCHANGED <<ideal, buckets>> /\ r \in Inside(k) /\ Reserved(r)
    BY <1>1, <1>9, HoldsTheBucket DEF Admit, Cancel, Leave, Inside, Reserved
  <2>2. \A q \in Inside(k)' : ~Reserved(q)'
    BY <1>1, <1>9, <2>1 DEF Admit, Cancel, Leave, Inside, Reserved, EvenOK
  <2>3. \/ pc[r] = "delay" /\ wait[r] = 0 /\ ideal[k] = tokens[buckets[k]]
        \/ /\ wait[r] > 0 /\ wait[r] = -tokens[buckets[k]]
           /\ ideal[k] = tokens[buckets[k]] + 1
    BY <1>1, <2>1 DEF EvenOK
  <2>4. ideal[k] = tokens'[buckets[k]]
    <3>1. CASE Admit(r)
      BY <2>1, <2>3, <3>1 DEF Admit
    <3>2. CASE Cancel(r)
      BY <2>1, <2>3, <3>2 DEF Cancel, Restores
    <3>3. QED
      BY <1>9, <3>1, <3>2
  <2>5. QED
    BY <2>1, <2>2, <2>4 DEF EvenOK
<1>10. CASE Tick
  <2>1. /\ UNCHANGED <<buckets, pc, key, held>> /\ Inside(k)' = Inside(k)
    BY <1>10 DEF Tick, Inside
  <2>2. \A q \in Inside(k) : ~Reserved(q)
    BY <1>10 DEF Tick, Reserved
  <2>3. ideal'[k] = Refilled(ideal[k])
    BY <1>1, <1>10, <2>2, IdealAtTick DEF Reserved
  <2>4. buckets[k] # None => tokens'[buckets[k]] = Refilled(tokens[buckets[k]])
    BY <1>10 DEF Tick
  <2>5. QED
    BY <1>1, <2>1, <2>2, <2>3, <2>4 DEF EvenOK, Reserved
<1>11. CASE Reclaim
  <2>1. UNCHANGED <<ideal, tokens, pc, key, wait, held>>
    BY <1>11 DEF Reclaim, locals
  <2>2. CASE buckets'[k] = buckets[k]
    BY <1>3, <2>1, <2>2 DEF Inside, Reserved
  <2>3. CASE buckets'[k] # buckets[k]
    <3>1. buckets'[k] = None /\ Inside(k) = {}
      BY <1>11, <2>3 DEF Reclaim
    <3>2. QED
      BY <2>1, <3>1 DEF EvenOK, Inside
  <2>4. QED
    BY <2>2, <2>3
<1>12. QED
  <2> HIDE DEF IInv, TypeOK
  <2>1. ASSUME NEW r \in Request, Step(r)
        PROVE  EvenOK(k)'
    BY <1>2, <1>4, <1>5, <1>6, <1>7, <1>8, <1>9, <2>1, WhoseStep
  <2>2. QED
    BY <1>10, <1>11, <2>1 DEF Next

-----------------------------------------------------------------------------

LEMMA StutterStep == ASSUME IInv, UNCHANGED vars PROVE IInv'
  BY DEF vars, IInv, TypeOK, Ages, HeldOK, WaitOK, AheadOK, EvenOK, Reserved, Open, Using,
         Inside

LEMMA LimiterInvariant == Spec => []IInv
<1>1. Init => IInv
  BY InitHolds
<1>2. IInv /\ [Next]_vars => IInv'
  <2> SUFFICES ASSUME IInv, [Next]_vars PROVE IInv'
    OBVIOUS
  <2>1. CASE Next
    <3>1. \A k \in Key : ~disturbed'[k] => AheadOK(k)'
      BY <2>1, AheadStep
    <3>2. \A k \in Key : ~disturbed'[k] /\ ~crowded'[k] => EvenOK(k)'
      BY <2>1, EvenStep
    <3>3. QED
      BY <2>1, <3>1, <3>2, TypeStep, HeldStep, WaitStep DEF IInv
  <2>2. CASE UNCHANGED vars
    BY <2>2, StutterStep
  <2>3. QED
    BY <2>1, <2>2
<1>3. QED
  BY <1>1, <1>2, PTL DEF Spec

\* Every variable keeps its type: a request holds a bucket exactly between finding
\* it and leaving, and no two keys share one.
THEOREM LimiterTypeCorrect == Spec => []TypeOK
<1>1. IInv => TypeOK
  BY DEF IInv
<1>2. QED
  BY <1>1, LimiterInvariant, PTL

\* No more is let through than an undisturbed token bucket would let through, for
\* any number of requests that create, share, lose or find buckets.
THEOREM LimitsHold == Spec => []RateHolds
<1>1. IInv => RateHolds
  BY DEF IInv, AheadOK, RateHolds
<1>2. QED
  BY <1>1, LimiterInvariant, PTL

\* Refusals that do not overlap leave the bucket as if they had never asked.
THEOREM RefusalsCostNothing == Spec => []RefusalIsFree
<1>1. IInv => RefusalIsFree
  BY DEF IInv, AheadOK, EvenOK, RefusalIsFree
<1>2. QED
  BY <1>1, LimiterInvariant, PTL
=============================================================================
