------------------------ MODULE RefreshSessionProofs ------------------------
(***************************************************************************)
(* Proofs about RefreshSession, for any number of tokens and of page loads *)
(* in flight, whether or not queries fail and replies are lost.            *)
(*                                                                         *)
(* IInv describes the tokens on their way: a token in a reply is live and  *)
(* the browser has never shown it to anybody (RequestOK); a cookie that is *)
(* no longer live is about to be replaced (RenewalComes); and the requests *)
(* that can still exchange a token, together with its exchanges, never     *)
(* outnumber the requests in flight (WindowOK).  After a logout whatever   *)
(* is still under way is harmless, because the tokens it presents are dead *)
(* (SignedOutOK, LogoutOK).                                                *)
(***************************************************************************)
EXTENDS RefreshSession, FiniteSetTheorems, TLAPS

\* A request of the browser that is under way.
InFlight(l) == req[l] # None

\* Its reply will hand the browser a token.
Bears(l) == InFlight(l) /\ req[l].result # None

\* The tokens requests present were issued.  One that is still on its way to the
\* browser is live, in no other reply, and nobody can have presented it yet.
RequestOK(l) == InFlight(l) =>
    /\ req[l].op # "login" => req[l].token # None
    /\ req[l].token # None => token[req[l].token] # "unissued"
    /\ req[l].result # None =>
         /\ req[l].pc = "reply" /\ req[l].op # "logout"
         /\ token[req[l].result] = "active"
         /\ cookie # req[l].result
         /\ \A m \in Load : InFlight(m) => req[m].token # req[l].result
         /\ \A m \in Load \ {l} : InFlight(m) => req[m].result # req[l].result

CookieOK == cookie # None => token[cookie] # "unissued"

\* While the cookie holds a token that is not live any more, a reply is coming
\* that replaces or deletes it.
Relieved(l) == InFlight(l) /\ req[l].pc = "reply" /\
               (req[l].op = "logout" \/ req[l].result # None)

RenewalComes == (~lost /\ cookie # None /\ token[cookie] # "active") =>
    \E l \in Load : Relieved(l)

\* Requests that looked token t up while it was live and have not rotated it.
Rotating(t) == {l \in Load : InFlight(l) /\ req[l].op = "refresh"
                               /\ req[l].pc = "rotate" /\ req[l].token = t}

\* Each exchange of t uses up one of them, and none is added once t has been
\* exchanged.
WindowOK(t) ==
    /\ IsFiniteSet(Successors(t))
    /\ token[t] \in {"unissued", "active"} => Successors(t) = {}
    /\ Cardinality(Successors(t)) + Cardinality(Rotating(t)) <= Cardinality(Load)

\* A token that is over never works again, and a logout that was served has
\* made sure of its own.
Dead(t) == token[t] \in {"revoked", "expired"}
LogoutOK(l) == InFlight(l) /\ req[l].op = "logout" /\ req[l].pc = "reply" =>
    Dead(req[l].token)

\* A request whose reply will not sign the browser in.
Harmless(l) == InFlight(l) =>
    \/ req[l].op = "logout"
    \/ req[l].op = "refresh" /\ req[l].pc = "lookup" /\ Dead(req[l].token)
    \/ req[l].pc = "reply" /\ req[l].result = None

\* Signed out, the browser has nothing to send, and nothing is on its way to it.
SignedOutOK == signedOut => cookie = None /\ ~access /\ \A l \in Load : Harmless(l)

\* The inductive invariant.
IInv ==
    /\ TypeOK
    /\ \A l \in Load : RequestOK(l) /\ LogoutOK(l)
    /\ CookieOK /\ RenewalComes /\ SignedOutOK
    /\ \A t \in Token : WindowOK(t)
-----------------------------------------------------------------------------
(* The window in which a token can be exchanged                             *)

\* Requests are finitely many, so those that rotate a token can be counted.
LEMMA RotatingIsSmall ==
    ASSUME NEW t \in Token
    PROVE  /\ IsFiniteSet(Rotating(t))
           /\ Cardinality(Rotating(t)) \in Nat
           /\ Cardinality(Rotating(t)) <= Cardinality(Load)
<1>1. Rotating(t) \subseteq Load BY DEF Rotating
<1>2. IsFiniteSet(Load) BY RefreshSessionAssumption
<1> QED BY <1>1, <1>2, FS_Subset, FS_CardinalityType

\* A step that adds no exchange, no request that rotates t and no new life to t
\* keeps its window.
LEMMA WindowShrinks ==
    ASSUME NEW t \in Token, WindowOK(t),
           Successors(t)' = Successors(t), Rotating(t)' \subseteq Rotating(t),
           token'[t] \in {"unissued", "active"} => token[t] \in {"unissued", "active"}
    PROVE  WindowOK(t)'
<1>1. IsFiniteSet(Rotating(t)) /\ Cardinality(Rotating(t)) \in Nat BY RotatingIsSmall
<1>2. /\ IsFiniteSet(Rotating(t)') /\ Cardinality(Rotating(t)') \in Nat
      /\ Cardinality(Rotating(t)') <= Cardinality(Rotating(t))
  BY <1>1, FS_Subset, FS_CardinalityType
<1>3. Cardinality(Successors(t)) \in Nat BY FS_CardinalityType DEF WindowOK
<1>4. Cardinality(Load) \in Nat BY FS_CardinalityType, RefreshSessionAssumption
<1>5. Cardinality(Successors(t)') = Cardinality(Successors(t))
      /\ IsFiniteSet(Successors(t)')
  BY DEF WindowOK
<1>6. Cardinality(Successors(t)') + Cardinality(Rotating(t)') <= Cardinality(Load)
  BY <1>1, <1>2, <1>3, <1>4, <1>5 DEF WindowOK
<1> QED BY <1>5, <1>6 DEF WindowOK

\* A live token was never exchanged: any number of requests may look it up.
LEMMA LiveWindow ==
    ASSUME NEW t \in Token, Successors(t)' = {}
    PROVE  WindowOK(t)'
<1>0. Rotating(t)' \subseteq Load BY DEF Rotating
<1>1. /\ Cardinality(Rotating(t)') \in Nat
      /\ Cardinality(Rotating(t)') <= Cardinality(Load)
  BY <1>0, FS_Subset, FS_CardinalityType, RefreshSessionAssumption
<1>2. IsFiniteSet({}) /\ Cardinality({}) = 0 BY FS_EmptySet
<1>3. Cardinality(Load) \in Nat BY FS_CardinalityType, RefreshSessionAssumption
<1> QED BY <1>1, <1>2, <1>3 DEF WindowOK

\* The exchange of t by request l uses up that request.
LEMMA WindowMoves ==
    ASSUME NEW t \in Token, WindowOK(t), NEW l \in Rotating(t), NEW next,
           Successors(t)' = Successors(t) \cup {next},
           Rotating(t)' = Rotating(t) \ {l},
           token'[t] \notin {"unissued", "active"}
    PROVE  WindowOK(t)'
<1>1. IsFiniteSet(Rotating(t)) /\ Cardinality(Rotating(t)) \in Nat BY RotatingIsSmall
<1>2. IsFiniteSet(Successors(t)) /\ Cardinality(Successors(t)) \in Nat
  BY FS_CardinalityType DEF WindowOK
<1>3. Cardinality(Rotating(t) \ {l}) = Cardinality(Rotating(t)) - 1
  BY <1>1, FS_RemoveElement
<1>4. /\ IsFiniteSet(Successors(t) \cup {next})
      /\ Cardinality(Successors(t) \cup {next}) =
           IF next \in Successors(t) THEN Cardinality(Successors(t))
                                     ELSE Cardinality(Successors(t)) + 1
  BY <1>2, FS_AddElement
<1>5. Cardinality(Load) \in Nat BY FS_CardinalityType, RefreshSessionAssumption
<1>6. Cardinality(Successors(t)') + Cardinality(Rotating(t)') <= Cardinality(Load)
  BY <1>1, <1>2, <1>3, <1>4, <1>5 DEF WindowOK
<1> QED BY <1>4, <1>6 DEF WindowOK

-----------------------------------------------------------------------------
(* The actions                                                              *)

\* Only load l's request changes.
Alone(l) == \A m \in Load \ {l} : req'[m] = req[m]

\* A request is sent, with the cookie of this moment.
LEMMA SendPreserves ==
    ASSUME IInv, NEW l \in Load, NEW op \in {"refresh", "logout", "login"},
           NEW pc \in {"lookup", "rotate"}, Send(l, op, pc),
           op = "login" => pc = "rotate",
           op = "login" => cookie = None /\ \A m \in Load : ~InFlight(m),
           op # "login" => cookie # None /\ pc = "lookup",
           op # "login" => UNCHANGED <<signedOut, lost>>,
           op = "login" => signedOut' = FALSE /\ lost' = FALSE
    PROVE  IInv'
<1> DEFINE new == [op |-> op, token |-> cookie, pc |-> pc, result |-> None]
<1>0. TypeOK BY DEF IInv
<1>1. /\ req[l] = None /\ req'[l] = new /\ Alone(l)
      /\ UNCHANGED <<token, parent, cookie, access>>
  BY <1>0 DEF Send, TypeOK, Alone
<1>2. new \in Requests /\ new # None
  <2>1. new \in Requests BY <1>0 DEF TypeOK, Requests
  <2> HIDE DEF new
  <2> QED BY <2>1, RefreshSessionAssumption
<1>3. TypeOK' BY <1>0, <1>1, <1>2 DEF TypeOK, Send
<1>4. ASSUME NEW m \in Load PROVE RequestOK(m)'
  <2>1. CookieOK /\ \A n \in Load : RequestOK(n) BY DEF IInv
  <2>2. CASE m = l BY <1>1, <2>1, <2>2 DEF RequestOK, CookieOK
  <2>3. CASE m # l
    <3>1. req'[m] = req[m] BY <1>1, <2>3 DEF Alone
    <3>2. ASSUME InFlight(m), req[m].result # None, NEW n \in Load, InFlight(n)'
          PROVE  /\ req'[n].token # req[m].result
                 /\ n # m => req'[n].result # req[m].result
      <4>1. CASE n = l BY <1>1, <2>1, <3>2, <4>1 DEF RequestOK
      <4>2. CASE n # l BY <1>1, <2>1, <3>2, <4>2 DEF RequestOK, Alone, InFlight
      <4> QED BY <4>1, <4>2
    <3> QED BY <1>1, <2>1, <3>1, <3>2 DEF RequestOK, InFlight
  <2> QED BY <2>2, <2>3
<1>5. CookieOK' BY <1>1 DEF IInv, CookieOK
<1>6. RenewalComes'
  <2>1. CASE op = "login" BY <1>1, <2>1 DEF RenewalComes
  <2>2. CASE op # "login"
    <3>1. ASSUME NEW m \in Load, Relieved(m) PROVE Relieved(m)'
      <4>1. m # l BY <1>1, <3>1 DEF Relieved, InFlight
      <4> QED BY <1>1, <3>1, <4>1 DEF Relieved, InFlight, Alone
    <3> QED BY <1>1, <2>2, <3>1 DEF IInv, RenewalComes
  <2> QED BY <2>1, <2>2
<1>7. SignedOutOK' BY DEF IInv, SignedOutOK
<1>9. \A m \in Load : LogoutOK(m)'
  BY <1>1 DEF IInv, LogoutOK, InFlight, Alone, Dead
<1>8. ASSUME NEW t \in Token PROVE WindowOK(t)'
  <2>1. WindowOK(t) BY DEF IInv
  <2>2. Successors(t)' = Successors(t) BY <1>1 DEF Successors
  <2>3. Rotating(t)' \subseteq Rotating(t)
    BY <1>1 DEF Rotating, Alone, InFlight
  <2> QED BY <1>1, <2>1, <2>2, <2>3, WindowShrinks
<1> QED BY <1>3, <1>4, <1>5, <1>6, <1>7, <1>8, <1>9 DEF IInv

\* A step of load l alone keeps what is known of the requests, if the tokens on
\* their way stay live and unseen, and a token l's reply now bears is new.
LEMMA RequestsKept ==
    ASSUME IInv, NEW l \in Load, Alone(l),
           \A m \in Load \ {l} : Bears(m) =>
               token'[req[m].result] = "active" /\ cookie' # req[m].result,
           \A t \in Token : token[t] # "unissued" => token'[t] # "unissued",
           InFlight(l)' => /\ InFlight(l)
                           /\ req'[l].token = req[l].token /\ req'[l].op = req[l].op,
           Bears(l)' =>
             /\ req'[l].pc = "reply" /\ req[l].op # "logout"
             /\ token'[req'[l].result] = "active"
             /\ cookie' # req'[l].result
             /\ \A m \in Load : InFlight(m) => req[m].token # req'[l].result
             /\ \A m \in Load \ {l} : InFlight(m) => req[m].result # req'[l].result
    PROVE  \A m \in Load : RequestOK(m)'
<1>0. TypeOK /\ \A m \in Load : RequestOK(m) BY DEF IInv
<1>1. ASSUME NEW m \in Load, InFlight(m)', req'[m].token # None
      PROVE  token'[req'[m].token] # "unissued"
  <2>1. InFlight(m) /\ req'[m].token = req[m].token
    BY <1>1 DEF Alone, InFlight
  <2>2. req[m].token \in Token
    BY <1>0, <1>1, <2>1 DEF TypeOK, Requests, InFlight
  <2> QED BY <1>0, <1>1, <2>1, <2>2 DEF RequestOK
<1>2. RequestOK(l)'
  <2>1. ASSUME Bears(l)', NEW m \in Load, InFlight(m)'
        PROVE  /\ req'[m].token # req'[l].result
               /\ m # l => req'[m].result # req'[l].result
    <3>1. InFlight(m) /\ req'[m].token = req[m].token /\ (m # l => req'[m] = req[m])
      BY <2>1 DEF Alone, InFlight
    <3> QED BY <2>1, <3>1
  <2>2. InFlight(l)' /\ req'[l].op # "login" => req'[l].token # None
    BY <1>0 DEF RequestOK
  <2> QED BY <1>1, <2>1, <2>2 DEF RequestOK, Bears, InFlight
<1>3. ASSUME NEW m \in Load \ {l} PROVE RequestOK(m)'
  <2>1. req'[m] = req[m] BY DEF Alone
  <2>2. ASSUME Bears(m), NEW n \in Load, InFlight(n)'
        PROVE  /\ req'[n].token # req[m].result
               /\ n # m => req'[n].result # req[m].result
    <3>1. InFlight(n) /\ req'[n].token = req[n].token /\ (n # l => req'[n] = req[n])
      BY <2>2 DEF Alone, InFlight
    <3>2. req'[n].token # req[m].result BY <1>0, <2>2, <3>1 DEF RequestOK, Bears
    <3>3. CASE n # l BY <1>0, <2>2, <3>1, <3>2, <3>3 DEF RequestOK, Bears
    <3>4. CASE n = l
      <4>1. CASE req'[l].result = None BY <2>2, <3>2, <3>4, <4>1 DEF Bears
      <4>2. CASE req'[l].result # None
        <5>1. Bears(l)' BY <2>2, <3>4, <4>2 DEF Bears, InFlight
        <5> QED BY <2>2, <3>2, <3>4, <5>1 DEF Bears
      <4> QED BY <4>1, <4>2
    <3> QED BY <3>3, <3>4
  <2> QED BY <1>0, <1>1, <2>1, <2>2 DEF RequestOK, Bears, InFlight
<1> QED BY <1>2, <1>3

\* The replies that relieve a dead cookie are still coming.
LEMMA RenewalKept ==
    ASSUME IInv, NEW l \in Load, Alone(l), ~Relieved(l),
           cookie' = cookie, lost' = lost,
           cookie # None /\ token'[cookie] # "active" => token[cookie] # "active"
    PROVE  RenewalComes'
<1>1. ASSUME NEW m \in Load, Relieved(m) PROVE Relieved(m)'
  <2>1. req'[m] = req[m] BY <1>1 DEF Alone
  <2> QED BY <1>1, <2>1 DEF Relieved, InFlight
<1> QED BY <1>1 DEF IInv, RenewalComes

\* While a request may still sign the browser in, it does not count as signed out.
LEMMA SignedInWhileHarmful ==
    ASSUME IInv, NEW l \in Load, ~Harmless(l)
    PROVE  ~signedOut
BY DEF IInv, SignedOutOK

\* A step of load l alone by which no token comes back to life keeps what served
\* logouts and harmless requests are.
LEMMA HarmlessKept ==
    ASSUME IInv, NEW l \in Load, Alone(l), \A t \in Token : Dead(t) => Dead(t)'
    PROVE  /\ LogoutOK(l)' => \A m \in Load : LogoutOK(m)'
           /\ \A m \in Load \ {l} : Harmless(m) => Harmless(m)'
<1>1. ASSUME NEW m \in Load \ {l}, InFlight(m)', Dead(req[m].token),
             req[m].op # "login"
      PROVE  Dead(req[m].token)'
  <2>1. req'[m] = req[m] BY DEF Alone
  <2>2. req[m] \in Requests /\ req[m].token # None
    BY <1>1, <2>1 DEF IInv, TypeOK, RequestOK, InFlight
  <2> QED BY <2>1, <2>2, <1>1 DEF Requests, Dead
<1>2. ASSUME NEW m \in Load \ {l} PROVE LogoutOK(m)'
  BY <1>1 DEF IInv, LogoutOK, InFlight, Alone
<1>3. ASSUME NEW m \in Load \ {l}, Harmless(m) PROVE Harmless(m)'
  BY <1>1, <1>3 DEF Harmless, InFlight, Alone
<1> QED BY <1>2, <1>3

\* The requests that rotate tokens, after a step of load l alone.
LEMMA RotatingFollows ==
    ASSUME NEW l \in Load, Alone(l), NEW t \in Token
    PROVE  /\ Rotating(t)' \subseteq Rotating(t) \cup {l}
           /\ Rotating(t) \ {l} \subseteq Rotating(t)'
BY DEF Rotating, InFlight, Alone

\* A step of load l that decides nothing about tokens: it leaves the tables and
\* the cookie alone and gives l no token.
LEMMA PlainStepPreserves ==
    ASSUME IInv, NEW l \in Load, InFlight(l), Alone(l), TypeOK',
           UNCHANGED <<token, parent, cookie, access, signedOut>>, lost' = lost,
           ~Relieved(l), ~Bears(l)',
           req[l].op # "logout", Harmless(l) => Harmless(l)',
           InFlight(l)' => /\ req'[l].token = req[l].token /\ req'[l].op = req[l].op,
           InFlight(l)' /\ req'[l].pc = "rotate" => token[req[l].token] = "active"
    PROVE  IInv'
<1>0. TypeOK /\ \A m \in Load : RequestOK(m) BY DEF IInv
<1>1. \A m \in Load : RequestOK(m)'
  <2>1. \A m \in Load \ {l} : Bears(m) =>
               token'[req[m].result] = "active" /\ cookie' # req[m].result
    BY <1>0 DEF RequestOK, Bears
  <2> QED BY <2>1, RequestsKept
<1>2. CookieOK' BY DEF IInv, CookieOK
<1>3. RenewalComes' BY RenewalKept
<1>4. SignedOutOK' /\ \A m \in Load : LogoutOK(m)'
  <2>1. \A t \in Token : Dead(t) => Dead(t)' BY DEF Dead
  <2>2. LogoutOK(l)' BY DEF LogoutOK, InFlight
  <2> QED BY <2>1, <2>2, HarmlessKept DEF IInv, SignedOutOK
<1>5. ASSUME NEW t \in Token PROVE WindowOK(t)'
  <2>1. WindowOK(t) /\ Successors(t)' = Successors(t) BY DEF IInv, Successors
  <2>2. CASE l \notin Rotating(t)'
    <3>1. Rotating(t)' \subseteq Rotating(t) BY <2>2, RotatingFollows
    <3> QED BY <2>1, <3>1, WindowShrinks
  <2>3. CASE l \in Rotating(t)'
    <3>1. InFlight(l)' /\ req'[l].pc = "rotate" /\ t = req[l].token
      BY <2>3 DEF Rotating, InFlight
    <3>2. token[t] = "active" BY <3>1
    <3>3. Successors(t)' = {} BY <2>1, <3>2 DEF WindowOK
    <3> QED BY <3>3, LiveWindow
  <2> QED BY <2>2, <2>3
<1> QED BY <1>1, <1>2, <1>3, <1>4, <1>5 DEF IInv

\* A request finds its token live, or is turned away.
LEMMA RefreshLookupPreserves ==
    ASSUME IInv, NEW l \in Load, RefreshLookup(l)
    PROVE  IInv'
<1> USE DEF RefreshLookup, ReplyWith, GetActiveRefreshToken
<1>0. TypeOK /\ RequestOK(l) BY DEF IInv
<1>1. /\ InFlight(l) /\ req[l] \in Requests /\ req[l].result = None
  BY <1>0 DEF InFlight, TypeOK, RequestOK
<1>2. /\ Alone(l) /\ req'[l].token = req[l].token /\ req'[l].op = req[l].op
      /\ req'[l].result = None /\ req'[l] \in Requests
      /\ req'[l].pc = "rotate" => token[req[l].token] = "active"
      /\ req'[l].pc \in {"rotate", "reply"}
  BY <1>0, <1>1 DEF TypeOK, Requests, Alone
<1>3. TypeOK' BY <1>0, <1>2 DEF TypeOK, Alone
<1>4. /\ ~Relieved(l) /\ ~Bears(l)' /\ req[l].op # "logout"
      /\ Harmless(l) => Harmless(l)'
  BY <1>1, <1>2 DEF Relieved, Bears, Harmless, Dead
<1> QED BY <1>1, <1>2, <1>3, <1>4, PlainStepPreserves

\* A query fails.
LEMMA RefreshErrorPreserves ==
    ASSUME IInv, NEW l \in Load, RefreshError(l)
    PROVE  IInv'
<1> USE DEF RefreshError, ReplyWith
<1>0. TypeOK /\ RequestOK(l) BY DEF IInv
<1>1. /\ InFlight(l) /\ req[l] \in Requests
  BY <1>0 DEF InFlight, TypeOK
<1>2. /\ Alone(l) /\ req'[l].token = req[l].token /\ req'[l].op = req[l].op
      /\ req'[l].result = None /\ req'[l] \in Requests /\ req'[l].pc = "reply"
  BY <1>0, <1>1 DEF TypeOK, Requests, Alone
<1>3. TypeOK' BY <1>0, <1>2 DEF TypeOK, Alone
<1>4. ~Relieved(l) /\ ~Bears(l)' /\ req[l].op # "logout" /\ Harmless(l)'
  BY <1>2 DEF Relieved, Bears, Harmless
<1> QED BY <1>1, <1>2, <1>3, <1>4, PlainStepPreserves

\* The reply is lost: if it bore a token, so is the renewal.
LEMMA LoseReplyPreserves ==
    ASSUME IInv, NEW l \in Load, LoseReply(l)
    PROVE  IInv'
<1> USE DEF LoseReply
<1>0. TypeOK /\ RequestOK(l) BY DEF IInv
<1>1. InFlight(l) /\ req[l] \in Requests BY <1>0 DEF InFlight, TypeOK
<1>2. Alone(l) /\ ~InFlight(l)' /\ ~Bears(l)' /\ Harmless(l)'
  BY <1>0 DEF TypeOK, Alone, InFlight, Bears, Harmless
<1>3. TypeOK' BY <1>0 DEF TypeOK
<1>4. CASE req[l].result = None
  <2>1. ~Relieved(l) BY <1>4 DEF Relieved
  <2>2. lost' = lost BY <1>0, <1>4 DEF TypeOK
  <2> QED BY <1>1, <1>2, <1>3, <2>1, <2>2, PlainStepPreserves
<1>5. CASE req[l].result # None
  <2>1. \A m \in Load : RequestOK(m)'
    <3>1. \A m \in Load \ {l} : Bears(m) =>
               token'[req[m].result] = "active" /\ cookie' # req[m].result
      BY DEF IInv, RequestOK, Bears
    <3> QED BY <1>2, <3>1, RequestsKept
  <2>2. CookieOK' BY DEF IInv, CookieOK
  <2>3. lost' BY <1>5
  <2>4. SignedOutOK' /\ \A m \in Load : LogoutOK(m)'
    <3>1. ~signedOut BY <1>1, <1>5, SignedInWhileHarmful DEF Harmless
    <3>2. LogoutOK(l)' /\ \A t \in Token : Dead(t) => Dead(t)'
      BY <1>2 DEF LogoutOK, Dead
    <3> QED BY <1>2, <3>1, <3>2, HarmlessKept DEF SignedOutOK
  <2>5. ASSUME NEW t \in Token PROVE WindowOK(t)'
    <3>1. WindowOK(t) /\ Successors(t)' = Successors(t) BY DEF IInv, Successors
    <3>2. Rotating(t)' \subseteq Rotating(t) BY <1>2, RotatingFollows DEF Rotating
    <3> QED BY <3>1, <3>2, WindowShrinks
  <2> QED BY <1>3, <2>1, <2>2, <2>3, <2>4, <2>5 DEF IInv, RenewalComes
<1> QED BY <1>4, <1>5

\* The exchange: the token presented dies, one nobody has seen is born.
LEMMA RefreshRotatePreserves ==
    ASSUME IInv, NEW l \in Load, RefreshRotate(l)
    PROVE  IInv'
<1>0. TypeOK /\ \A m \in Load : RequestOK(m) BY DEF IInv
<1>1. /\ InFlight(l) /\ req[l] \in Requests /\ req[l].result = None
      /\ req[l].op = "refresh" /\ req[l].pc = "rotate"
      /\ req[l].token \in Token /\ token[req[l].token] # "unissued"
  BY <1>0 DEF RefreshRotate, InFlight, TypeOK, RequestOK, Requests
<1> DEFINE old == req[l].token
<1>2. PICK next \in {t \in Token : token[t] = "unissued"} :
        /\ token' = [token EXCEPT ![old] = Revoked(old), ![next] = "active"]
        /\ parent' = [parent EXCEPT ![next] = old]
        /\ ReplyWith(l, next)
  BY DEF RefreshRotate
<1>3. /\ next \in Token /\ next # old /\ next # None /\ token[next] = "unissued"
      /\ UNCHANGED <<cookie, access, signedOut, lost>>
  BY <1>1, RefreshSessionAssumption DEF RefreshRotate
<1>4. /\ token'[old] \notin {"unissued", "active"} /\ token'[next] = "active"
      /\ \A t \in Token \ {old, next} : token'[t] = token[t]
  BY <1>0, <1>1, <1>2, <1>3 DEF TypeOK, Revoked
<1>5. /\ Alone(l) /\ req'[l].token = old /\ req'[l].op = "refresh"
      /\ req'[l].pc = "reply" /\ req'[l].result = next /\ req'[l] \in Requests
      /\ InFlight(l)'
  <2>1. /\ Alone(l) /\ req'[l] = [req[l] EXCEPT !.pc = "reply", !.result = next]
    BY <1>0, <1>2 DEF TypeOK, ReplyWith, Alone
  <2>2. req'[l] \in Requests BY <1>1, <1>3, <2>1 DEF Requests
  <2> QED BY <1>1, <2>1, <2>2, RefreshSessionAssumption DEF Requests, InFlight
<1>6. TypeOK'
  <2>1. req' \in [Load -> Requests \cup {None}]
    BY <1>0, <1>2, <1>5 DEF TypeOK, ReplyWith
  <2>2. token' \in [Token -> {"unissued", "active", "revoked", "expired"}]
    BY <1>0, <1>1, <1>2, <1>3 DEF TypeOK, Revoked
  <2>3. parent' \in [Token -> Token \cup {None}] BY <1>0, <1>1, <1>2 DEF TypeOK
  <2>4. \A t \in Token : token'[t] = "unissued" => parent'[t] = None
    BY <1>0, <1>2, <1>3, <1>4 DEF TypeOK
  <2> QED BY <1>0, <1>3, <2>1, <2>2, <2>3, <2>4 DEF TypeOK
<1>7. \A m \in Load : RequestOK(m)'
  <2>1. ASSUME NEW m \in Load \ {l}, Bears(m)
        PROVE  token'[req[m].result] = "active" /\ cookie' # req[m].result
    <3>1. /\ token[req[m].result] = "active" /\ cookie # req[m].result
          /\ req[m].result # old /\ req[m].result \in Token
      BY <1>0, <1>1, <2>1 DEF RequestOK, Bears, InFlight, TypeOK, Requests
    <3> QED BY <1>3, <1>4, <3>1
  <2>2. \A t \in Token : token[t] # "unissued" => token'[t] # "unissued"
    BY <1>3, <1>4
  <2>3. /\ cookie' # next
        /\ \A m \in Load : InFlight(m) => req[m].token # next
        /\ \A m \in Load \ {l} : InFlight(m) => req[m].result # next
    BY <1>0, <1>3 DEF IInv, CookieOK, RequestOK
  <2> QED BY <1>1, <1>4, <1>5, <2>1, <2>2, <2>3, RequestsKept
<1>8. CookieOK' BY <1>0, <1>3, <1>4 DEF IInv, CookieOK, TypeOK
<1>9. RenewalComes'
  <2>1. Relieved(l)' BY <1>3, <1>5 DEF Relieved
  <2> QED BY <2>1 DEF RenewalComes
<1>10. SignedOutOK' /\ \A m \in Load : LogoutOK(m)'
  <2>1. ~signedOut BY <1>1, SignedInWhileHarmful DEF Harmless
  <2>2. LogoutOK(l)' BY <1>1, <1>5 DEF LogoutOK
  <2>3. \A t \in Token : Dead(t) => Dead(t)' BY <1>0, <1>3, <1>4, <1>6 DEF Dead, TypeOK
  <2> QED BY <1>3, <1>5, <2>1, <2>2, <2>3, HarmlessKept DEF SignedOutOK
<1>11. ASSUME NEW t \in Token PROVE WindowOK(t)'
  <2>1. WindowOK(t) BY DEF IInv
  <2>2. parent[next] = None /\ \A s \in Token : parent'[s] = IF s = next THEN old ELSE parent[s]
    BY <1>0, <1>2, <1>3 DEF TypeOK
  <2>3. l \notin Rotating(t)' BY <1>5 DEF Rotating
  <2>4. Rotating(t)' = Rotating(t) \ {l} BY <1>5, <2>3, RotatingFollows
  <2>5. CASE t = old
    <3>1. l \in Rotating(t) BY <1>1, <2>5 DEF Rotating
    <3>2. Successors(t)' = Successors(t) \cup {next}
      BY <1>3, <2>2, <2>5 DEF Successors
    <3> QED BY <1>4, <2>1, <2>4, <2>5, <3>1, <3>2, WindowMoves
  <2>6. CASE t # old
    <3>1. Successors(t)' = Successors(t)
      BY <2>2, <2>6, RefreshSessionAssumption DEF Successors
    <3> QED BY <1>3, <1>4, <2>1, <2>4, <2>6, <3>1, WindowShrinks
  <2> QED BY <2>5, <2>6
<1> QED BY <1>6, <1>7, <1>8, <1>9, <1>10, <1>11 DEF IInv

\* Sign-in issues a token nobody has seen.
LEMMA NewSessionPreserves ==
    ASSUME IInv, NEW l \in Load, NewSession(l)
    PROVE  IInv'
<1>0. TypeOK /\ \A m \in Load : RequestOK(m) BY DEF IInv
<1>1. /\ InFlight(l) /\ req[l] \in Requests /\ req[l].op = "login" /\ req[l].pc = "rotate"
  BY <1>0 DEF NewSession, InFlight, TypeOK
<1>2. PICK next \in {t \in Token : token[t] = "unissued"} :
        /\ token' = [token EXCEPT ![next] = "active"]
        /\ ReplyWith(l, next)
  BY DEF NewSession
<1>3. /\ next \in Token /\ next # None /\ token[next] = "unissued"
      /\ UNCHANGED <<parent, cookie, access, signedOut, lost>>
  BY RefreshSessionAssumption DEF NewSession
<1>4. /\ token'[next] = "active" /\ \A t \in Token \ {next} : token'[t] = token[t]
  BY <1>0, <1>2 DEF TypeOK
<1>5. /\ Alone(l) /\ req'[l].token = req[l].token /\ req'[l].op = req[l].op
      /\ req'[l].pc = "reply" /\ req'[l].result = next /\ req'[l] \in Requests
  <2>1. /\ Alone(l) /\ req'[l] = [req[l] EXCEPT !.pc = "reply", !.result = next]
    BY <1>0, <1>2 DEF TypeOK, ReplyWith, Alone
  <2> QED BY <1>1, <1>3, <2>1 DEF Requests
<1>6. TypeOK'
  <2>1. req' \in [Load -> Requests \cup {None}]
    BY <1>0, <1>2, <1>5 DEF TypeOK, ReplyWith
  <2> QED BY <1>0, <1>2, <1>3, <1>4, <2>1 DEF TypeOK
<1>7. \A m \in Load : RequestOK(m)'
  <2>1. ASSUME NEW m \in Load \ {l}, Bears(m)
        PROVE  token'[req[m].result] = "active" /\ cookie' # req[m].result
    <3>1. /\ token[req[m].result] = "active" /\ cookie # req[m].result
          /\ req[m].result \in Token
      BY <1>0, <2>1 DEF RequestOK, Bears, InFlight, TypeOK, Requests
    <3> QED BY <1>3, <1>4, <3>1
  <2>2. \A t \in Token : token[t] # "unissued" => token'[t] # "unissued"
    BY <1>3, <1>4
  <2>3. /\ cookie' # next
        /\ \A m \in Load : InFlight(m) => req[m].token # next
        /\ \A m \in Load \ {l} : InFlight(m) => req[m].result # next
    BY <1>0, <1>3 DEF IInv, CookieOK, RequestOK
  <2> QED BY <1>1, <1>4, <1>5, <2>1, <2>2, <2>3, RequestsKept
<1>8. CookieOK' BY <1>0, <1>3, <1>4 DEF IInv, CookieOK, TypeOK
<1>9. RenewalComes'
  <2>1. ~Relieved(l) BY <1>1 DEF Relieved
  <2>2. cookie # None /\ token'[cookie] # "active" => token[cookie] # "active"
    BY <1>0, <1>4 DEF TypeOK
  <2> QED BY <1>3, <1>5, <2>1, <2>2, RenewalKept
<1>10. SignedOutOK' /\ \A m \in Load : LogoutOK(m)'
  <2>1. ~signedOut BY <1>1, SignedInWhileHarmful DEF Harmless
  <2>2. LogoutOK(l)' BY <1>1, <1>5 DEF LogoutOK
  <2>3. \A t \in Token : Dead(t) => Dead(t)' BY <1>0, <1>3, <1>4 DEF Dead, TypeOK
  <2> QED BY <1>3, <1>5, <2>1, <2>2, <2>3, HarmlessKept DEF SignedOutOK
<1>11. ASSUME NEW t \in Token PROVE WindowOK(t)'
  <2>1. WindowOK(t) /\ Successors(t)' = Successors(t) BY <1>3 DEF IInv, Successors
  <2>2. l \notin Rotating(t)' BY <1>5 DEF Rotating
  <2>3. Rotating(t)' \subseteq Rotating(t) BY <1>5, <2>2, RotatingFollows
  <2> QED BY <1>3, <1>4, <2>1, <2>3, WindowShrinks
<1> QED BY <1>6, <1>7, <1>8, <1>9, <1>10, <1>11 DEF IInv

\* Logout revokes the token presented; its reply will delete the cookie.
LEMMA LogoutPreserves ==
    ASSUME IInv, NEW l \in Load, Logout(l)
    PROVE  IInv'
<1>0. TypeOK /\ \A m \in Load : RequestOK(m) BY DEF IInv
<1>1. /\ InFlight(l) /\ req[l] \in Requests /\ req[l].op = "logout" /\ req[l].pc = "lookup"
      /\ req[l].token \in Token /\ token[req[l].token] # "unissued"
      /\ UNCHANGED <<parent, cookie, access, signedOut, lost>>
  BY <1>0 DEF Logout, InFlight, TypeOK, RequestOK, Requests
<1> DEFINE old == req[l].token
<1>2. /\ token'[old] \notin {"unissued", "active"}
      /\ \A t \in Token \ {old} : token'[t] = token[t]
      /\ token' \in [Token -> {"unissued", "active", "revoked", "expired"}]
  BY <1>0, <1>1 DEF Logout, TypeOK, Revoked
<1>3. /\ Alone(l) /\ req'[l].token = old /\ req'[l].op = "logout"
      /\ req'[l].pc = "reply" /\ req'[l].result = None /\ req'[l] \in Requests
      /\ InFlight(l)'
  <2>1. /\ Alone(l) /\ req'[l] = [req[l] EXCEPT !.pc = "reply", !.result = None]
    BY <1>0 DEF TypeOK, Logout, ReplyWith, Alone
  <2>2. req'[l] \in Requests BY <1>1, <2>1 DEF Requests
  <2> QED BY <1>1, <2>1, <2>2, RefreshSessionAssumption DEF Requests, InFlight
<1>4. TypeOK'
  <2>1. req' \in [Load -> Requests \cup {None}]
    BY <1>0, <1>3 DEF TypeOK, Logout, ReplyWith
  <2> QED BY <1>0, <1>1, <1>2, <2>1 DEF TypeOK
<1>5. \A m \in Load : RequestOK(m)'
  <2>1. ASSUME NEW m \in Load \ {l}, Bears(m)
        PROVE  token'[req[m].result] = "active" /\ cookie' # req[m].result
    <3>1. /\ token[req[m].result] = "active" /\ cookie # req[m].result
          /\ req[m].result # old /\ req[m].result \in Token
      BY <1>0, <1>1, <2>1 DEF RequestOK, Bears, InFlight, TypeOK, Requests
    <3> QED BY <1>1, <1>2, <3>1
  <2>2. \A t \in Token : token[t] # "unissued" => token'[t] # "unissued" BY <1>2
  <2>3. ~Bears(l)' BY <1>3 DEF Bears
  <2> QED BY <1>1, <1>3, <2>1, <2>2, <2>3, RequestsKept
<1>6. CookieOK' BY <1>0, <1>1, <1>2 DEF IInv, CookieOK, TypeOK
<1>7. RenewalComes'
  <2>1. Relieved(l)' BY <1>3 DEF Relieved
  <2> QED BY <2>1 DEF RenewalComes
<1>8. SignedOutOK' /\ \A m \in Load : LogoutOK(m)'
  <2>1. LogoutOK(l)' /\ Harmless(l)' BY <1>1, <1>2, <1>3 DEF LogoutOK, Harmless, Dead
  <2>2. \A t \in Token : Dead(t) => Dead(t)' BY <1>1, <1>2 DEF Dead
  <2> QED BY <1>1, <1>3, <2>1, <2>2, HarmlessKept DEF IInv, SignedOutOK
<1>9. ASSUME NEW t \in Token PROVE WindowOK(t)'
  <2>1. WindowOK(t) /\ Successors(t)' = Successors(t) BY <1>1 DEF IInv, Successors
  <2>2. l \notin Rotating(t)' BY <1>3 DEF Rotating
  <2>3. Rotating(t)' \subseteq Rotating(t) BY <1>3, <2>2, RotatingFollows
  <2> QED BY <1>2, <2>1, <2>3, WindowShrinks
<1> QED BY <1>4, <1>5, <1>6, <1>7, <1>8, <1>9 DEF IInv

\* A reply arrives and decides the cookie: it is deleted, or holds a live token
\* that was in no other request and no other reply.
LEMMA CookieSet ==
    ASSUME IInv, NEW l \in Load, InFlight(l), req' = [req EXCEPT ![l] = None],
           UNCHANGED <<token, parent, lost>>, access' \in BOOLEAN, signedOut' \in BOOLEAN,
           NEW t \in {None, req[l].result}, cookie' = t,
           signedOut' => t = None /\ ~access' /\ \A m \in Load \ {l} : Harmless(m)
    PROVE  IInv'
<1>0. TypeOK /\ \A m \in Load : RequestOK(m) BY DEF IInv
<1>1. /\ Alone(l) /\ ~InFlight(l)' /\ ~Bears(l)'
  BY <1>0 DEF TypeOK, Alone, InFlight, Bears
<1>2. req[l] \in Requests /\ t \in Token \cup {None} /\ (t # None => token[t] = "active")
  BY <1>0 DEF TypeOK, InFlight, Requests, RequestOK
<1>3. TypeOK' BY <1>0, <1>2 DEF TypeOK
<1>4. \A m \in Load : RequestOK(m)'
  <2>1. ASSUME NEW m \in Load \ {l}, Bears(m)
        PROVE  token'[req[m].result] = "active" /\ cookie' # req[m].result
    BY <1>0, <2>1 DEF RequestOK, Bears
  <2> QED BY <1>1, <2>1, RequestsKept
<1>5. CookieOK' BY <1>2 DEF CookieOK
<1>6. RenewalComes' BY <1>2 DEF RenewalComes
<1>7. SignedOutOK' /\ \A m \in Load : LogoutOK(m)'
  <2>1. LogoutOK(l)' /\ Harmless(l)' BY <1>1 DEF LogoutOK, Harmless
  <2>2. \A s \in Token : Dead(s) => Dead(s)' BY DEF Dead
  <2> QED BY <1>1, <2>1, <2>2, HarmlessKept DEF SignedOutOK
<1>8. ASSUME NEW s \in Token PROVE WindowOK(s)'
  <2>1. WindowOK(s) /\ Successors(s)' = Successors(s) BY DEF IInv, Successors
  <2>2. Rotating(s)' \subseteq Rotating(s) BY <1>1, RotatingFollows DEF Rotating
  <2> QED BY <2>1, <2>2, WindowShrinks
<1> QED BY <1>3, <1>4, <1>5, <1>6, <1>7, <1>8 DEF IInv

\* What a served logout spares is harmless: its token is dead, and the token
\* that was exchanged for it has been so since.
LEMMA SparedAreHarmless ==
    ASSUME IInv, NEW l \in Load, LogoutReply(l), NEW m \in Load, Spared(l, m)
    PROVE  Harmless(m)
<1>0. TypeOK /\ RequestOK(m) /\ RequestOK(l) /\ LogoutOK(l) BY DEF IInv
<1>1. CASE \/ req[m] = None \/ req[m].op = "logout"
           \/ req[m].pc = "reply" /\ req[m].result = None
  BY <1>1 DEF Harmless, InFlight
<1>2. CASE /\ req[m] # None /\ req[m].op = "refresh" /\ req[m].pc = "lookup"
           /\ req[l].pc = "reply"
           /\ req[m].token \in {req[l].token, parent[req[l].token]}
  <2>1. InFlight(l) /\ req[l].op = "logout" /\ InFlight(m)
    BY <1>2 DEF LogoutReply, InFlight
  <2>2. /\ req[l].token \in Token /\ Dead(req[l].token) /\ req[m].token \in Token
    BY <1>0, <1>2, <2>1 DEF LogoutOK, RequestOK, TypeOK, Requests, InFlight
  <2>3. CASE req[m].token = req[l].token BY <1>2, <2>2, <2>3 DEF Harmless
  <2>4. CASE req[m].token = parent[req[l].token]
    <3>1. req[l].token \in Successors(req[m].token) BY <2>2, <2>4 DEF Successors
    <3>2. token[req[m].token] \notin {"unissued", "active"}
      BY <2>2, <3>1 DEF IInv, WindowOK
    <3>3. Dead(req[m].token) BY <1>0, <2>2, <3>2 DEF Dead, TypeOK
    <3> QED BY <1>2, <3>3 DEF Harmless
  <2> QED BY <1>2, <2>3, <2>4
<1> QED BY <1>1, <1>2 DEF Spared

\* Both kinds of reply do that, whether it renews a session, ends it or failed.
LEMMA ReplyPreserves ==
    ASSUME IInv, NEW l \in Load, SessionReply(l) \/ LogoutReply(l)
    PROVE  IInv'
<1>0. TypeOK BY DEF IInv
<1>1. CASE SessionReply(l)
  <2>1. InFlight(l) /\ access' \in BOOLEAN BY <1>0, <1>1 DEF SessionReply, InFlight, TypeOK
  <2>2. signedOut => /\ req[l].result = None /\ ~access
                     /\ \A m \in Load : Harmless(m)
    BY <1>1, <2>1 DEF IInv, SignedOutOK, Harmless, SessionReply
  <2>3. signedOut' = signedOut /\ cookie' = req[l].result
        /\ access' = (access \/ req[l].result # None)
    BY <1>1 DEF SessionReply
  <2>4. signedOut' \in BOOLEAN BY <1>0, <2>3 DEF TypeOK
  <2>5. signedOut' => /\ req[l].result = None /\ ~access'
                      /\ \A m \in Load \ {l} : Harmless(m)
    BY <2>2, <2>3
  <2>6. /\ req' = [req EXCEPT ![l] = None]
        /\ UNCHANGED <<token, parent, lost>>
    BY <1>1 DEF SessionReply
  <2> QED BY <2>1, <2>3, <2>4, <2>5, <2>6, CookieSet
<1>2. CASE LogoutReply(l)
  <2>1. InFlight(l) BY <1>2 DEF LogoutReply, InFlight
  <2>2. signedOut' = (\A m \in Load \ {l} : Spared(l, m)) BY <1>2 DEF LogoutReply
  <2>3. signedOut' \in BOOLEAN /\ (signedOut' => \A m \in Load \ {l} : Harmless(m))
    BY <1>2, <2>2, SparedAreHarmless
  <2> QED BY <1>2, <2>1, <2>3, CookieSet DEF LogoutReply
<1> QED BY <1>1, <1>2

\* A token reaches its expiry together with the cookie that holds it; one on
\* its way to the browser is too young.
LEMMA ExpiryPreserves ==
    ASSUME IInv, NEW t \in Token, RefreshExpires(t)
    PROVE  IInv'
<1> USE DEF RefreshExpires
<1>0. TypeOK /\ \A m \in Load : RequestOK(m) BY DEF IInv
<1>1. /\ token[t] = "active" /\ token'[t] = "expired"
      /\ \A s \in Token \ {t} : token'[s] = token[s]
      /\ cookie' # t /\ (cookie' = cookie \/ cookie' = None)
  BY <1>0, RefreshSessionAssumption DEF TypeOK
<1>2. TypeOK' BY <1>0, <1>1 DEF TypeOK
<1>3. ASSUME NEW m \in Load PROVE RequestOK(m)'
  <2>1. ASSUME InFlight(m), req[m].token # None PROVE token'[req[m].token] # "unissued"
    BY <1>0, <1>1, <2>1 DEF TypeOK, Requests, InFlight, RequestOK
  <2>2. ASSUME InFlight(m), req[m].result # None
        PROVE  token'[req[m].result] = "active" /\ cookie' # req[m].result
    <3>1. req[m].result \in Token /\ req[m].result # t
      BY <1>0, <2>2 DEF TypeOK, Requests, InFlight
    <3> QED BY <1>0, <1>1, <2>2, <3>1 DEF RequestOK
  <2> QED BY <1>0, <2>1, <2>2 DEF RequestOK, InFlight
<1>4. CookieOK' BY <1>0, <1>1 DEF IInv, CookieOK, TypeOK
<1>5. RenewalComes'
  <2>1. \A l \in Load : Relieved(l)' <=> Relieved(l) BY DEF Relieved, InFlight
  <2>2. cookie' # None /\ token'[cookie'] # "active" => cookie' = cookie /\ token[cookie] # "active"
    BY <1>0, <1>1 DEF TypeOK
  <2> QED BY <2>1, <2>2 DEF IInv, RenewalComes
<1>6. SignedOutOK' /\ \A m \in Load : LogoutOK(m)'
  <2>1. ASSUME NEW m \in Load, InFlight(m), Dead(req[m].token)
        PROVE  req[m].op # "login" => Dead(req[m].token)'
    BY <1>0, <1>1, <2>1 DEF Dead, TypeOK, Requests, InFlight, RequestOK
  <2>2. ASSUME NEW m \in Load PROVE LogoutOK(m)' /\ (Harmless(m) => Harmless(m)')
    BY <2>1 DEF IInv, LogoutOK, Harmless, InFlight
  <2> QED BY <1>1, <2>2 DEF IInv, SignedOutOK
<1>7. ASSUME NEW s \in Token PROVE WindowOK(s)'
  <2>1. /\ WindowOK(s) /\ Successors(s)' = Successors(s)
        /\ Rotating(s)' = Rotating(s)
    BY DEF IInv, Successors, Rotating, InFlight
  <2> QED BY <1>1, <2>1, WindowShrinks
<1> QED BY <1>2, <1>3, <1>4, <1>5, <1>6, <1>7 DEF IInv

-----------------------------------------------------------------------------

\* Before the first sign-in there is nothing to describe.
LEMMA InitEstablishes == Init => IInv
<1> SUFFICES ASSUME Init PROVE IInv OBVIOUS
<1> USE DEF Init
<1>1. TypeOK BY DEF TypeOK
<1>2. \A l \in Load : ~InFlight(l) BY DEF InFlight
<1>3. ASSUME NEW t \in Token PROVE WindowOK(t)
  <2>1. Successors(t) = {} BY RefreshSessionAssumption DEF Successors
  <2>2. Rotating(t) = {} BY <1>2 DEF Rotating
  <2>3. IsFiniteSet({}) /\ Cardinality({}) = 0 BY FS_EmptySet
  <2>4. Cardinality(Load) \in Nat BY FS_CardinalityType, RefreshSessionAssumption
  <2> QED BY <2>1, <2>2, <2>3, <2>4 DEF WindowOK
<1> QED BY <1>1, <1>2, <1>3
    DEF IInv, RequestOK, LogoutOK, Harmless, CookieOK, RenewalComes, SignedOutOK

\* Every step keeps the invariant.
LEMMA NextPreserves == IInv /\ [Next]_vars => IInv'
<1> SUFFICES ASSUME IInv, [Next]_vars PROVE IInv' OBVIOUS
<1>1. CASE UNCHANGED vars
  BY <1>1 DEF vars, IInv, TypeOK, RequestOK, InFlight, CookieOK, RenewalComes, Relieved,
              SignedOutOK, LogoutOK, Harmless, Dead, WindowOK, Successors, Rotating
<1>2. CASE AccessExpires
  <2>1. UNCHANGED <<token, parent, cookie, signedOut, lost, req>> /\ access' = FALSE
    BY <1>2 DEF AccessExpires
  <2>2. TypeOK' BY <2>1 DEF IInv, TypeOK
  <2>3. \A l \in Load : RequestOK(l)' /\ LogoutOK(l)'
    BY <2>1 DEF IInv, RequestOK, LogoutOK, Dead, InFlight
  <2>4. CookieOK' /\ SignedOutOK'
    BY <2>1 DEF IInv, CookieOK, SignedOutOK, Harmless, Dead, InFlight
  <2>5. RenewalComes' BY <2>1 DEF IInv, RenewalComes, Relieved, InFlight
  <2>6. ASSUME NEW t \in Token PROVE WindowOK(t)'
    <3>1. WindowOK(t) /\ Successors(t)' = Successors(t) /\ Rotating(t)' = Rotating(t)
      BY <2>1 DEF IInv, Successors, Rotating, InFlight
    <3> QED BY <2>1, <3>1, WindowShrinks
  <2> QED BY <2>2, <2>3, <2>4, <2>5, <2>6 DEF IInv
<1>3. ASSUME NEW l \in Load, PageLoad(l) \/ LogoutAction(l) \/ LoginAction(l) PROVE IInv'
  BY <1>3, SendPreserves DEF PageLoad, LogoutAction, LoginAction, InFlight
<1> QED BY <1>1, <1>2, <1>3, RefreshLookupPreserves, RefreshRotatePreserves,
        RefreshErrorPreserves, LogoutPreserves, NewSessionPreserves, ReplyPreserves,
        LoseReplyPreserves, ExpiryPreserves DEF Next

\* The inductive invariant holds of every reachable state of the session.
LEMMA InvariantHolds == Spec => []IInv
BY InitEstablishes, NextPreserves, PTL DEF Spec

\* The variables keep their types.
THEOREM SessionTypeCorrect == Spec => []TypeOK
<1>1. IInv => TypeOK BY DEF IInv
<1> QED BY <1>1, InvariantHolds, PTL

\* When every reply has arrived, the browser holds no refresh token or one that
\* still works, in whatever order concurrent renewals were answered.
THEOREM QuietBrowsersWork == Spec => []QuietBrowserHoldsLiveToken
<1>1. IInv => QuietBrowserHoldsLiveToken
  BY DEF IInv, RenewalComes, Relieved, InFlight, QuietBrowserHoldsLiveToken
<1> QED BY <1>1, InvariantHolds, PTL

\* A refresh token is exchanged at most once per request that was in flight
\* before its first exchange, however often it is presented afterwards.
THEOREM ReplaysAreBounded == Spec => []ReplayWindowCloses
<1>1. IInv => ReplayWindowCloses
  <2> SUFFICES ASSUME IInv, NEW t \in Token
               PROVE  Cardinality(Successors(t)) <= Cardinality(Load)
    BY DEF ReplayWindowCloses
  <2>1. WindowOK(t) BY DEF IInv
  <2>2. Cardinality(Rotating(t)) \in Nat BY RotatingIsSmall
  <2>3. Cardinality(Successors(t)) \in Nat BY <2>1, FS_CardinalityType DEF WindowOK
  <2>4. Cardinality(Load) \in Nat BY FS_CardinalityType, RefreshSessionAssumption
  <2> QED BY <2>1, <2>2, <2>3, <2>4 DEF WindowOK
<1> QED BY <1>1, InvariantHolds, PTL

\* A logout holds until the next sign-in, even when the API could not be reached
\* and although older page loads come after it, unless a renewal overtook it.
THEOREM LogoutsStick == Spec => []LogoutSticks
<1>1. IInv => LogoutSticks BY DEF IInv, SignedOutOK, LogoutSticks
<1> QED BY <1>1, InvariantHolds, PTL
=============================================================================
