----------------------------- MODULE RateLimiter -----------------------------
(***************************************************************************)
(* The in-process rate limiter (internal/ratelimit/limiter.go): one token  *)
(* bucket per key, looked up under a read lock, touched or created under   *)
(* the write lock, and reclaimed by a janitor when idle.  Requests run     *)
(* between these critical sections as they like, so a bucket can be        *)
(* reclaimed while a request is about to use it.                           *)
(*                                                                         *)
(* One tick is the time in which a bucket gains one token.  All times are  *)
(* kept relative to now, so that nothing grows with the clock: an age      *)
(* stops counting once it is past IdleTTL.  A key is an access token, whose*)
(* rate never changes after it is created; the branch of bucketFor that    *)
(* rebuilds a bucket at another rate is never taken.                       *)
(***************************************************************************)
EXTENDS Integers, FiniteSets

CONSTANTS
    Key,        \* access tokens that present themselves
    Request,    \* requests that can be in the limiter at once
    Bucket,     \* addresses of buckets
    Burst,      \* Config.Burst
    IdleTTL,    \* Config.IdleTTL, in ticks
    MaxDebt,    \* bound: tokens a bucket may have promised ahead
    None        \* no bucket; no request

\* With the defaults (10 tokens, 10 minutes) an idle bucket is full again before
\* it is reclaimed, at every rate a token may have (at least one per minute).
ASSUME RateLimiterAssumption ==
    /\ Burst \in Nat \ {0}
    /\ IdleTTL \in Nat
    /\ IdleTTL >= Burst
    /\ MaxDebt \in Nat \ {0}
    /\ None \notin Bucket \cup Key

VARIABLES
    buckets,    \* l.buckets: the bucket of each key, or None
    tokens,     \* tokens in each bucket; below zero they are promised
    seen,       \* age of each bucket's lastSeen
    pc,         \* next step of each request inside Reserve
    key,        \* the key it was called with
    age,        \* age of the time it read on entry
    held,       \* the bucket it has got hold of
    wait,       \* its reservation: ticks until it may act; negative if past
    ideal,      \* history: a bucket of each key that nothing disturbs
    disturbed,  \* history: a stale lastSeen, or a bucket reclaimed in use
    crowded     \* history: a reservation was made while another was undecided

vars == <<buckets, tokens, seen, pc, key, age, held, wait,
          ideal, disturbed, crowded>>
locals == <<key, age, held, wait>>
history == <<ideal, disturbed, crowded>>

Ages == 0..(IdleTTL + 1)
Older(a) == IF a > IdleTTL THEN a ELSE a + 1
Refilled(n) == IF n < Burst THEN n + 1 ELSE n

\* The type of the state.  A request holds a bucket exactly between finding it
\* and leaving, and no two keys share one.
TypeOK ==
    /\ buckets \in [Key -> Bucket \cup {None}]
    /\ tokens \in [Bucket -> (-MaxDebt)..Burst]
    /\ seen \in [Bucket -> Ages]
    /\ pc \in [Request -> {"idle", "lookup", "touch", "create",
                           "reserve", "delay", "cancel"}]
    /\ key \in [Request -> Key \cup {None}]
    /\ age \in [Request -> Ages]
    /\ held \in [Request -> Bucket \cup {None}]
    /\ wait \in [Request -> (-1)..MaxDebt]
    /\ ideal \in [Key -> Int]
    /\ \A k \in Key : ideal[k] <= Burst
    /\ disturbed \in [Key -> BOOLEAN]
    /\ crowded \in [Key -> BOOLEAN]
    /\ \A r \in Request : pc[r] = "idle" <=> key[r] = None
    /\ \A r \in Request :
          pc[r] \in {"touch", "reserve", "delay", "cancel"} <=> held[r] # None
    /\ \A k, l \in Key : buckets[k] = buckets[l] /\ k # l => buckets[k] = None

Init ==
    /\ buckets = [k \in Key |-> None]
    /\ tokens = [b \in Bucket |-> Burst]
    /\ seen = [b \in Bucket |-> 0]
    /\ pc = [r \in Request |-> "idle"]
    /\ key = [r \in Request |-> None]
    /\ age = [r \in Request |-> 0]
    /\ held = [r \in Request |-> None]
    /\ wait = [r \in Request |-> 0]
    /\ ideal = [k \in Key |-> Burst]
    /\ disturbed = [k \in Key |-> FALSE]
    /\ crowded = [k \in Key |-> FALSE]

-----------------------------------------------------------------------------
(* Bookkeeping of the history variables.                                   *)

Inside(k) == {r \in Request : key[r] = k}
Undecided(b) == {r \in Request : held[r] = b /\ pc[r] \in {"delay", "cancel"}}

\* The bucket r leaves may be reclaimed before it is full again: r was slow, or
\* a slower request put lastSeen back to the time it had read on entry.
Stale(r) == seen[held[r]] > IdleTTL - Burst

-----------------------------------------------------------------------------
(* bucketFor                                                               *)

Reserve(r, k) ==
    /\ pc[r] = "idle"
    /\ pc' = [pc EXCEPT ![r] = "lookup"]
    /\ key' = [key EXCEPT ![r] = k]
    /\ age' = [age EXCEPT ![r] = 0]
    /\ UNCHANGED <<buckets, tokens, seen, held, wait, history>>

\* Under the read lock.
Lookup(r) ==
    LET b == buckets[key[r]] IN
    /\ pc[r] = "lookup"
    /\ pc' = [pc EXCEPT ![r] = IF b # None THEN "touch" ELSE "create"]
    /\ held' = [held EXCEPT ![r] = b]
    /\ UNCHANGED <<buckets, tokens, seen, key, age, wait, history>>

\* Under the write lock: the bucket found before may have been reclaimed since.
Touch(r) ==
    /\ pc[r] = "touch"
    /\ pc' = [pc EXCEPT ![r] = "reserve"]
    /\ seen' = [seen EXCEPT ![held[r]] = age[r]]
    /\ UNCHANGED <<buckets, tokens, locals, history>>

\* Addresses nothing points to.
Unused == Bucket \ ({buckets[k] : k \in Key} \cup {held[r] : r \in Request})

NewBucket(r, b) ==
    /\ b \in Unused
    /\ b = CHOOSE free \in Unused : TRUE
    /\ buckets' = [buckets EXCEPT ![key[r]] = b]
    /\ tokens' = [tokens EXCEPT ![b] = Burst]

\* Mutant: no second look.
CreateBlindly(r) ==
    /\ pc[r] = "create"
    /\ pc' = [pc EXCEPT ![r] = "reserve"]
    /\ \E b \in Bucket :
          /\ NewBucket(r, b)
          /\ seen' = [seen EXCEPT ![b] = age[r]]
          /\ held' = [held EXCEPT ![r] = b]
    /\ UNCHANGED <<key, age, wait, history>>

\* Under the write lock, with the second look at the map.
Create(r) ==
    /\ pc[r] = "create"
    /\ pc' = [pc EXCEPT ![r] = "reserve"]
    /\ \E b \in Bucket :
          /\ IF buckets[key[r]] # None
             THEN b = buckets[key[r]] /\ UNCHANGED <<buckets, tokens>>
             ELSE NewBucket(r, b)
          /\ seen' = [seen EXCEPT ![b] = age[r]]
          /\ held' = [held EXCEPT ![r] = b]
    /\ UNCHANGED <<key, age, wait, history>>

-----------------------------------------------------------------------------
(* golang.org/x/time/rate as the limiter uses it, and the rest of Reserve. *)

\* limiter.Reserve(): takes a token at once, or promises the next one.  A
\* reservation of one token is always granted.  The ideal bucket is charged when
\* a request that will be served falls due: here, or at a tick that makes the
\* delay of an undecided one zero.
ReserveN(r) ==
    LET left == tokens[held[r]] - 1 IN
    /\ pc[r] = "reserve"
    /\ left >= -MaxDebt
    /\ pc' = [pc EXCEPT ![r] = "delay"]
    /\ tokens' = [tokens EXCEPT ![held[r]] = left]
    /\ wait' = [wait EXCEPT ![r] = IF left < 0 THEN -left ELSE 0]
    /\ crowded' = [crowded EXCEPT ![key[r]] = @ \/ Undecided(held[r]) # {}]
    /\ ideal' = [ideal EXCEPT ![key[r]] =
          IF left >= 0 /\ ~disturbed[key[r]] THEN @ - 1 ELSE @]
    /\ UNCHANGED <<buckets, seen, key, age, held, disturbed>>

Leave(r) ==
    /\ pc' = [pc EXCEPT ![r] = "idle"]
    /\ key' = [key EXCEPT ![r] = None]
    /\ held' = [held EXCEPT ![r] = None]
    /\ age' = [age EXCEPT ![r] = 0]
    /\ wait' = [wait EXCEPT ![r] = 0]
    /\ disturbed' = [disturbed EXCEPT ![key[r]] = @ \/ Stale(r)]

\* The delay is over: the request is served.
Admit(r) ==
    /\ pc[r] = "delay"
    /\ wait[r] <= 0
    /\ Leave(r)
    /\ UNCHANGED <<buckets, tokens, seen, ideal, crowded>>

Refuse(r) ==
    /\ pc[r] = "delay"
    /\ wait[r] > 0
    /\ pc' = [pc EXCEPT ![r] = "cancel"]
    /\ UNCHANGED <<buckets, tokens, seen, locals, history>>

\* reservation.Cancel(): the token goes back unless its time is past or a later
\* reservation counts on it.  The last reservation is the one that waits for
\* exactly as many tokens as are promised.
Restores(r) == wait[r] >= 0 /\ wait[r] = -tokens[held[r]]

\* Mutant: a refused request keeps its reservation.
CancelNothing(r) ==
    /\ pc[r] = "cancel"
    /\ Leave(r)
    /\ UNCHANGED <<buckets, tokens, seen, ideal, crowded>>

Cancel(r) ==
    /\ pc[r] = "cancel"
    /\ tokens' = [tokens EXCEPT ![held[r]] = IF Restores(r) THEN @ + 1 ELSE @]
    /\ Leave(r)
    /\ UNCHANGED <<buckets, seen, ideal, crowded>>

-----------------------------------------------------------------------------
(* Time and the janitor.                                                   *)

\* A tick that finds a refused request with its reservation still open counts as
\* crowding too: the token may come due before it is given back.
Tick ==
    /\ tokens' = [b \in Bucket |-> Refilled(tokens[b])]
    /\ seen' = [b \in Bucket |-> Older(seen[b])]
    /\ age' = [r \in Request |-> IF pc[r] = "idle" THEN 0 ELSE Older(age[r])]
    /\ wait' = [r \in Request |->
          IF pc[r] \in {"delay", "cancel"} /\ wait[r] >= 0
          THEN wait[r] - 1 ELSE wait[r]]
    /\ ideal' = [k \in Key |->
          IF disturbed[k] THEN ideal[k]
          ELSE Refilled(ideal[k])
                 - Cardinality({r \in Inside(k) : pc[r] = "delay" /\ wait[r] = 1})]
    /\ crowded' = [k \in Key |->
          crowded[k] \/ \E r \in Inside(k) : pc[r] \in {"delay", "cancel"}]
    /\ UNCHANGED <<buckets, pc, key, held, disturbed>>

\* Mutant: the comparison the other way round.
IdleSwapped(b) == seen[b] < IdleTTL

\* lastSeen is before the cutoff.
Idle(b) == seen[b] > IdleTTL

Reclaim ==
    LET gone == {k \in Key : buckets[k] # None /\ Idle(buckets[k])} IN
    /\ gone # {}
    /\ buckets' = [k \in Key |-> IF k \in gone THEN None ELSE buckets[k]]
    /\ disturbed' = [k \in Key |->
          disturbed[k] \/ (k \in gone /\ Inside(k) # {})]
    /\ UNCHANGED <<tokens, seen, pc, locals, ideal, crowded>>

Step(r) ==
    \/ \E k \in Key : Reserve(r, k)
    \/ Lookup(r)
    \/ Touch(r)
    \/ Create(r)
    \/ ReserveN(r)
    \/ Admit(r)
    \/ Refuse(r)
    \/ Cancel(r)

Next ==
    \/ \E r \in Request : Step(r)
    \/ Tick
    \/ Reclaim

\* Time passes and the janitor's ticker fires.  Nothing makes requests come.
Spec == Init /\ [][Next]_vars /\ WF_vars(Tick) /\ WF_vars(Reclaim)

-----------------------------------------------------------------------------
(* Properties                                                              *)

\* The limiter never lets through more than an undisturbed token bucket would:
\* Burst at once and one per tick after that, whichever requests create, share
\* or find the bucket gone.  The exceptions are the windows the locking leaves
\* open: the janitor reclaims a bucket under a request, or a request leaves a
\* lastSeen so old that the bucket is reclaimed before it is full again, because
\* it, or one that touched the bucket after it, was that slow (bucketFor, reclaim).
RateHolds == \A k \in Key : disturbed[k] \/ ideal[k] >= 0

\* A refused request costs its caller nothing: once nobody is in the limiter for
\* a key, its bucket holds exactly what those let through have left, and a
\* reclaimed bucket would have been full (Reserve, "give the token back").
\* Refusals that overlap may lose a token and are excepted.
RefusalIsFree ==
    \A k \in Key :
        Inside(k) = {} /\ ~disturbed[k] /\ ~crowded[k] =>
            ideal[k] = IF buckets[k] = None THEN Burst ELSE tokens[buckets[k]]

\* The map does not grow without bound: a bucket that nobody uses any more is
\* reclaimed (sweep, "without it, every token that ever authenticates would
\* leave a bucket behind").
IdleBucketsGo == \A k \in Key : []<>(buckets[k] = None \/ Inside(k) # {})
=============================================================================
