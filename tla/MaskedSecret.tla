---------------------------- MODULE MaskedSecret ----------------------------
(***************************************************************************)
(* MaskedSecret (components/MaskedSecret.tsx): a value shown as dots until *)
(* clicked, fetched on demand, hidden again by a countdown, by the user,   *)
(* or when the user leaves the tab.                                        *)
(*                                                                         *)
(* React runs an effect some time after the render that showed the value,  *)
(* so the countdown and the listeners start a little later than the value  *)
(* appears.  Both exist only while a value is shown.                       *)
(***************************************************************************)
EXTENDS Integers

CONSTANTS
    RevealSeconds,  \* REVEAL_SECONDS
    MaxReveals      \* bound on the numbers of requests

VARIABLES
    revealed,       \* value # null
    loading,
    requestRef,     \* number of the request whose answer still counts
    inFlight,       \* requests that were sent and not answered
    remaining,      \* seconds left of the countdown
    armed,          \* the effects ran: interval and listeners are in place
    focused,        \* the user is on this tab
    leftEarly       \* history: the tab was last left with a value on its way or
                    \* shown but not armed

maskVars == <<revealed, loading, requestRef, inFlight, remaining, armed,
              focused, leftEarly>>

ASSUME MaskedSecretAssumption == RevealSeconds \in Nat \ {0} /\ MaxReveals \in Nat

MaskTypeOK ==
    /\ revealed \in BOOLEAN /\ loading \in BOOLEAN /\ armed \in BOOLEAN
    /\ focused \in BOOLEAN /\ leftEarly \in BOOLEAN
    /\ requestRef \in Nat
    /\ inFlight \subseteq 1..requestRef
    /\ remaining \in 1..RevealSeconds

MaskInit ==
    /\ revealed = FALSE /\ loading = FALSE /\ armed = FALSE
    /\ requestRef = 0
    /\ inFlight = {}
    /\ remaining = RevealSeconds
    /\ focused = TRUE
    /\ leftEarly = FALSE

-----------------------------------------------------------------------------

\* hide: abandons the request on its way and clears the value.  The effects'
\* cleanup takes the interval and the listeners away.
Hide ==
    /\ requestRef' = requestRef + 1
    /\ revealed' = FALSE
    /\ remaining' = RevealSeconds
    /\ armed' = FALSE

\* show, up to the await: the button is there while nothing is shown, and is
\* disabled while loading.
Show ==
    /\ focused /\ ~revealed /\ ~loading
    /\ requestRef < MaxReveals
    /\ requestRef' = requestRef + 1
    /\ loading' = TRUE
    /\ inFlight' = inFlight \cup {requestRef'}
    /\ UNCHANGED <<revealed, remaining, armed, focused, leftEarly>>

\* The rest of show.  An answer that is no longer awaited changes nothing; an
\* error ends the loading and shows no value.
Answer(n, ok) ==
    /\ n \in inFlight
    /\ inFlight' = inFlight \ {n}
    /\ IF requestRef = n
       THEN /\ loading' = FALSE
            /\ revealed' = (revealed \/ ok)
            /\ remaining' = IF ok THEN RevealSeconds ELSE remaining
       ELSE UNCHANGED <<loading, revealed, remaining>>
    /\ UNCHANGED <<requestRef, armed, focused, leftEarly>>

RunEffects ==
    /\ revealed /\ ~armed
    /\ armed' = TRUE
    /\ UNCHANGED <<revealed, loading, requestRef, inFlight, remaining, focused,
                   leftEarly>>

\* Mutant: the interval is paused while the user is away.
CountDownFocused ==
    /\ armed /\ focused
    /\ \/ remaining <= 1 /\ Hide
       \/ /\ remaining > 1 /\ remaining' = remaining - 1
          /\ UNCHANGED <<revealed, requestRef, armed>>
    /\ UNCHANGED <<loading, inFlight, focused, leftEarly>>

\* The interval of one second.
CountDown ==
    /\ armed
    /\ \/ remaining <= 1 /\ Hide
       \/ /\ remaining > 1 /\ remaining' = remaining - 1
          /\ UNCHANGED <<revealed, requestRef, armed>>
    /\ UNCHANGED <<loading, inFlight, focused, leftEarly>>

\* The button Hide.
HideClick ==
    /\ focused /\ revealed
    /\ Hide
    /\ UNCHANGED <<loading, inFlight, focused, leftEarly>>

\* Mutant: only the switch to another tab hides, not that to another window.
LeaveUnseen ==
    /\ focused
    /\ focused' = FALSE
    /\ leftEarly' = (loading \/ (revealed /\ ~armed))
    /\ UNCHANGED <<revealed, loading, requestRef, inFlight, remaining, armed>>

\* blur, or visibilitychange to hidden: hides if the listeners are in place.
Leave ==
    /\ focused
    /\ focused' = FALSE
    /\ leftEarly' = (loading \/ (revealed /\ ~armed))
    /\ IF armed THEN Hide ELSE UNCHANGED <<revealed, requestRef, remaining, armed>>
    /\ UNCHANGED <<loading, inFlight>>

Return ==
    /\ ~focused
    /\ focused' = TRUE
    /\ UNCHANGED <<revealed, loading, requestRef, inFlight, remaining, armed,
                   leftEarly>>

\* The component goes away with its page; what is on its way no longer counts.
\* The numbers of its successor go on where its own ended.
Unmount ==
    /\ focused /\ requestRef < MaxReveals
    /\ requestRef' = requestRef + 1
    /\ revealed' = FALSE /\ loading' = FALSE /\ armed' = FALSE
    /\ remaining' = RevealSeconds
    /\ UNCHANGED <<inFlight, focused, leftEarly>>

MaskNext ==
    \/ Show \/ RunEffects \/ CountDown \/ HideClick \/ Leave \/ Return
    \/ \E n \in 1..requestRef, ok \in BOOLEAN : Answer(n, ok)

-----------------------------------------------------------------------------

\* "A revealed value must not be sitting on a tab the user has walked away
\* from": a value is on an abandoned tab only if the user left before it was
\* there, or before React ran the effects of showing it.
AwayOnlyIfLeftEarly == revealed /\ ~focused => leftEarly

\* However the value came to be on the screen, and wherever the user is, it
\* goes away again without anybody's doing.
RevealEnds == revealed ~> ~revealed
=============================================================================
