---------------------------- MODULE RefreshSession ----------------------------
(***************************************************************************)
(* One browser's session: the refresh tokens the API keeps for the user    *)
(* (internal/service/auth.go), the handlers that set and clear cookies     *)
(* (internal/http/auth_handler.go) and the Next.js middleware that renews  *)
(* an expired session on a page load (frontend/src/middleware.ts).         *)
(*                                                                         *)
(* The browser may have several page loads in flight, each carrying the    *)
(* refresh cookie it was sent with; replies arrive in any order or, when   *)
(* Lossy, not at all.                                                      *)
(***************************************************************************)
EXTENDS Integers, FiniteSets

CONSTANTS
    Token,      \* refresh tokens: bounds how many sessions are issued
    Load,       \* browser requests that can be in flight at once
    Errors,     \* whether a query of the API may fail
    Lossy,      \* whether a reply may be lost
    None        \* no cookie, no token, no request

VARIABLES
    token,      \* table refresh_tokens: the state of each token
    parent,     \* the token a token was exchanged for
    cookie,     \* the browser's refresh cookie
    access,     \* whether it holds an access cookie
    signedOut,  \* history: it was signed out, no request then under way may bring
                \* it back (Spared), and it has not signed in since
    lost,       \* a renewal was lost since the last sign-in
    req         \* the request of each load

vars == <<token, parent, cookie, access, signedOut, lost, req>>

\* result is the token to set as the cookie, or None to clear it.
Requests == [op : {"refresh", "logout", "login"}, token : Token \cup {None},
             pc : {"lookup", "rotate", "reply"}, result : Token \cup {None}]

ASSUME RefreshSessionAssumption ==
    /\ None \notin Token /\ None \notin Requests
    /\ IsFiniteSet(Load)
    /\ Errors \in BOOLEAN /\ Lossy \in BOOLEAN

TypeOK ==
    /\ token \in [Token -> {"unissued", "active", "revoked", "expired"}]
    /\ parent \in [Token -> Token \cup {None}]
    /\ cookie \in Token \cup {None}
    /\ access \in BOOLEAN
    /\ signedOut \in BOOLEAN /\ lost \in BOOLEAN
    /\ req \in [Load -> Requests \cup {None}]
    /\ \A t \in Token : token[t] = "unissued" => parent[t] = None

Init ==
    /\ token = [t \in Token |-> "unissued"]
    /\ parent = [t \in Token |-> None]
    /\ cookie = None
    /\ access = FALSE
    /\ signedOut = TRUE
    /\ lost = FALSE
    /\ req = [l \in Load |-> None]

-----------------------------------------------------------------------------
(* The browser sends a request *)

Send(l, op, pc) ==
    /\ req[l] = None
    /\ req' = [req EXCEPT ![l] = [op |-> op, token |-> cookie, pc |-> pc,
                                  result |-> None]]
    /\ UNCHANGED <<token, parent, cookie, access>>

\* The middleware: nothing to do while there is an access cookie, or without a
\* refresh cookie.
PageLoad(l) ==
    /\ ~access /\ cookie # None
    /\ Send(l, "refresh", "lookup")
    /\ UNCHANGED <<signedOut, lost>>

\* logoutAction; while the access cookie lives the middleware lets it through.
LogoutAction(l) ==
    /\ access /\ cookie # None
    /\ Send(l, "logout", "lookup")
    /\ UNCHANGED <<signedOut, lost>>

\* The sign-in form, once the pages before it have loaded.
LoginAction(l) ==
    /\ cookie = None /\ \A m \in Load : req[m] = None
    /\ Send(l, "login", "rotate")
    /\ signedOut' = FALSE
    /\ lost' = FALSE

-----------------------------------------------------------------------------
(* The API serves it *)

ReplyWith(l, t) == req' = [req EXCEPT ![l].pc = "reply", ![l].result = t]

\* Mutant: the query forgets revoked_at IS NULL.
GetIssuedRefreshToken(t) == token[t] \in {"active", "revoked"}

GetActiveRefreshToken(t) == token[t] = "active"

RefreshLookup(l) ==
    /\ req[l] # None /\ req[l].op = "refresh" /\ req[l].pc = "lookup"
    /\ IF GetActiveRefreshToken(req[l].token)
       THEN req' = [req EXCEPT ![l].pc = "rotate"]
       ELSE ReplyWith(l, None)                             \* 401
    /\ UNCHANGED <<token, parent, cookie, access, signedOut, lost>>

Revoked(t) == IF token[t] = "active" THEN "revoked" ELSE token[t]

\* The transaction: RevokeRefreshToken, whose row count is not looked at, and
\* CreateRefreshToken.
RefreshRotate(l) ==
    /\ req[l] # None /\ req[l].op = "refresh" /\ req[l].pc = "rotate"
    /\ \E next \in {t \in Token : token[t] = "unissued"} :
          /\ token' = [token EXCEPT ![req[l].token] = Revoked(req[l].token),
                                    ![next] = "active"]
          /\ parent' = [parent EXCEPT ![next] = req[l].token]
          /\ ReplyWith(l, next)
    /\ UNCHANGED <<cookie, access, signedOut, lost>>

\* A query fails: the handler clears the session cookies in its 500 as well.
RefreshError(l) ==
    /\ Errors
    /\ req[l] # None /\ req[l].op = "refresh" /\ req[l].pc # "reply"
    /\ ReplyWith(l, None)
    /\ UNCHANGED <<token, parent, cookie, access, signedOut, lost>>

\* Mutant: the session is only forgotten by the browser.
LogoutUnrevoked(l) ==
    /\ req[l] # None /\ req[l].op = "logout" /\ req[l].pc = "lookup"
    /\ ReplyWith(l, None)
    /\ UNCHANGED <<token, parent, cookie, access, signedOut, lost>>

\* Logout: forgiving, it revokes the presented token if it is still active.
Logout(l) ==
    /\ req[l] # None /\ req[l].op = "logout" /\ req[l].pc = "lookup"
    /\ token' = [token EXCEPT ![req[l].token] = Revoked(req[l].token)]
    /\ ReplyWith(l, None)
    /\ UNCHANGED <<parent, cookie, access, signedOut, lost>>

\* Login with a correct password: newSession.
NewSession(l) ==
    /\ req[l] # None /\ req[l].op = "login" /\ req[l].pc = "rotate"
    /\ \E next \in {t \in Token : token[t] = "unissued"} :
          /\ token' = [token EXCEPT ![next] = "active"]
          /\ ReplyWith(l, next)
    /\ UNCHANGED <<parent, cookie, access, signedOut, lost>>

-----------------------------------------------------------------------------
(* The reply reaches the browser *)

\* Mutant: the middleware forwards only the access cookie.
KeepOldCookie(l) ==
    /\ req[l] # None /\ req[l].pc = "reply" /\ req[l].op # "logout"
    /\ cookie' = IF req[l].result = None THEN None
                 ELSE IF req[l].op = "login" THEN req[l].result ELSE cookie
    /\ access' = (access \/ req[l].result # None)
    /\ req' = [req EXCEPT ![l] = None]
    /\ UNCHANGED <<token, parent, signedOut, lost>>

\* A renewed or new session is stored; an error of any kind clears the refresh
\* cookie, whichever token it holds by now.
SessionReply(l) ==
    /\ req[l] # None /\ req[l].pc = "reply" /\ req[l].op # "logout"
    /\ cookie' = req[l].result
    /\ access' = (access \/ req[l].result # None)
    /\ req' = [req EXCEPT ![l] = None]
    /\ UNCHANGED <<token, parent, signedOut, lost>>

\* A request that must not undo logout l: another logout; a renewal that was
\* refused; or one that presents the token the API has just revoked, or the one
\* that was exchanged for it, and has not been looked up yet.
Spared(l, m) ==
    \/ req[m] = None \/ req[m].op = "logout"
    \/ req[m].pc = "reply" /\ req[m].result = None
    \/ /\ req[m].op = "refresh" /\ req[m].pc = "lookup" /\ req[l].pc = "reply"
       /\ req[m].token \in {req[l].token, parent[req[l].token]}

\* logoutAction deletes both cookies, even if the API was unreachable.
LogoutReply(l) ==
    /\ req[l] # None /\ req[l].op = "logout"
    /\ req[l].pc = "reply" \/ Lossy
    /\ cookie' = None
    /\ access' = FALSE
    /\ signedOut' = \A m \in Load \ {l} : Spared(l, m)
    /\ req' = [req EXCEPT ![l] = None]
    /\ UNCHANGED <<token, parent, lost>>

\* The middleware's fetch throws and the page renders with what it has.
LoseReply(l) ==
    /\ Lossy
    /\ req[l] # None /\ req[l].op # "logout" /\ req[l].pc = "reply"
    /\ lost' = (lost \/ req[l].result # None)
    /\ req' = [req EXCEPT ![l] = None]
    /\ UNCHANGED <<token, parent, cookie, access, signedOut>>

\* The access cookie reaches its Max-Age.
AccessExpires ==
    /\ access
    /\ access' = FALSE
    /\ UNCHANGED <<token, parent, cookie, signedOut, lost, req>>

\* expires_at passes; the cookie that holds the token has the same lifetime,
\* which is far longer than a reply's way to the browser.
RefreshExpires(t) ==
    /\ token[t] = "active"
    /\ \A l \in Load : req[l] # None => req[l].result # t
    /\ token' = [token EXCEPT ![t] = "expired"]
    /\ cookie' = IF cookie = t THEN None ELSE cookie
    /\ UNCHANGED <<parent, access, signedOut, lost, req>>

Next ==
    \/ \E l \in Load :
         \/ PageLoad(l) \/ LogoutAction(l) \/ LoginAction(l)
         \/ RefreshLookup(l) \/ RefreshRotate(l) \/ RefreshError(l)
         \/ Logout(l) \/ NewSession(l)
         \/ SessionReply(l) \/ LogoutReply(l) \/ LoseReply(l)
    \/ AccessExpires
    \/ \E t \in Token : RefreshExpires(t)

Spec == Init /\ [][Next]_vars

-----------------------------------------------------------------------------
(* What rotation promises, and what holds *)

Successors(t) == {s \in Token : parent[s] = t}

\* auth.go, Refresh: "The presented token is revoked and a new one issued in
\* the same transaction": a refresh token is exchanged at most once.
SingleSuccessor == \A t \in Token : Cardinality(Successors(t)) <= 1

\* A replayed token is rejected once rotation is over: however often it is
\* presented, and however many replies are lost, it is exchanged at most once
\* by each request that had looked it up before the first exchange, hence no
\* more often than there are requests in flight at once.
ReplayWindowCloses ==
    \A t \in Token : Cardinality(Successors(t)) <= Cardinality(Load)

\* When every reply has arrived, the browser holds no refresh token or one that
\* still works, in whatever order the replies of concurrent page loads came.
QuietBrowserHoldsLiveToken ==
    (\A l \in Load : req[l] = None) /\ ~lost /\ cookie # None
        => token[cookie] = "active"

\* auth_handler.go, Logout: "logging out always leaves the browser signed out".
\* A logout holds until the user signs in again, whether or not the API could be
\* reached, and although page loads that were sent before its reply, with the token it
\* revoked or an earlier one, reach the API after it.  A renewal that looked its
\* token up before the revocation does bring the session back.
LogoutSticks == signedOut => cookie = None /\ ~access
=============================================================================
