---------------------------- MODULE TokenService ----------------------------
(***************************************************************************)
(* Machine access tokens (internal/service/token.go, RequireToken of       *)
(* internal/http/middleware.go) beside the projects they give access to.   *)
(* A CI job's pull is four steps: the token is looked up and judged, the   *)
(* rate limiter decides, the environment's values are read, and, detached  *)
(* from the request, the last use is noted.  The token can be revoked or   *)
(* expire and its project can be deleted between any two of them.          *)
(*                                                                         *)
(* The rate limiter's decision is free here; module RateLimiter is about   *)
(* it.  Of the events only those of revocations are kept: what becomes of  *)
(* an event is the subject of AuditRecorder.  What is in an environment is *)
(* that of SecretService.                                                  *)
(***************************************************************************)
EXTENDS ProjectService

CONSTANTS
    Token,      \* tokens that may be minted
    Network,    \* where a machine can call from
    Kinds       \* scopes, allowlists and expiry that callers ask for

VARIABLES
    tokens,      \* table access_tokens, or None
    expired,     \* tokens whose expires_at has passed
    reported     \* how many events say that a token was revoked

tokenVars == <<tokens, expired, reported>>
vars == <<projectVars, callVars, tokenVars>>

TokenScopes == {"secrets:read", "secrets:write"}

Kind == [scopes : SUBSET TokenScopes, allow : SUBSET Network, expires : BOOLEAN]

TokenRow == [project : Project, environment : Environment, kind : Kind,
             revoked : BOOLEAN, used : BOOLEAN]

ASSUME TokenServiceAssumption ==
    /\ \A k \in Kinds : k \in Kind /\ k.scopes # {}
    /\ None \notin TokenRow \cup Environment

\* cut is history: the environment was out of the token's reach, because it
\* was revoked or expired or the project was deleted, when the pull came in.
Pull == [token : Token, network : Network, cut : BOOLEAN,
         environment : Environment \cup {None}, scopes : SUBSET TokenScopes]

NewToken == [project : Project, environment : Environment, kind : Kind]

\* The type of the state: each request has the arguments its next statement
\* needs, and only a transaction of Create has uncommitted rows.
TypeOK ==
    /\ ProjectTypeOK
    /\ \A t \in Token : tokens[t] \in TokenRow \cup {None}
    /\ expired \subseteq Token
    /\ reported \in [Token -> Nat]
    /\ \A r \in Request :
          \/ pc[r] = "idle" /\ call[r] = None
          \/ pc[r] \in {"insertProject", "insertDefaults", "commit"}
               /\ call[r] \in [slug : Slug]
          \/ pc[r] \in {"updateProject", "softDelete"} /\ call[r] \in [project : Project]
          \/ pc[r] = "insertEnvironment"
               /\ call[r] \in [project : Project, name : EnvName]
          \/ pc[r] = "insertToken" /\ call[r] \in NewToken
          \/ pc[r] \in {"revokeRow", "recordRevoked"} /\ call[r] \in [token : Token]
          \/ pc[r] = "authenticate" /\ call[r] \in Pull
          \/ pc[r] \in {"reserve", "pull", "touch"}
               /\ call[r] \in Pull /\ call[r].environment # None

Init ==
    /\ ProjectInit
    /\ pc = [r \in Request |-> "idle"]
    /\ call = [r \in Request |-> None]
    /\ tokens = [t \in Token |-> None]
    /\ expired = {}
    /\ reported = [t \in Token |-> 0]

-----------------------------------------------------------------------------
(* Create                                                                  *)

\* Mutant: any environment will do.
ResolveAnyEnvironment(p, e) == e \in environments

\* The environment must belong to the project.
ResolveEnvironment(p, e) == e \in environments /\ e[1] = p

CreateTokenStart(r, u, new) ==
    /\ RequireProjectRole(u, new.project, "admin")
    /\ ResolveEnvironment(new.project, new.environment)
    /\ Begin(r, "insertToken", new)
    /\ UNCHANGED <<projectVars, tokenVars>>

\* CreateAccessToken does not look at the project again.
CreateAccessToken(r) ==
    /\ pc[r] = "insertToken"
    /\ \E t \in Token :
          /\ tokens[t] = None
          /\ tokens' = [tokens EXCEPT ![t] =
                [project |-> call[r].project, environment |-> call[r].environment,
                 kind |-> call[r].kind, revoked |-> FALSE, used |-> FALSE]]
    /\ Finish(r)
    /\ UNCHANGED <<projectVars, expired, reported>>

-----------------------------------------------------------------------------
(* Revoke                                                                  *)

\* RequireTokenRole finds the tokens of a deleted project too.
RevokeStart(r, u, t) ==
    /\ tokens[t] # None
    /\ RequireWorkspaceRole(u, "admin")
    /\ Begin(r, "revokeRow", [token |-> t])
    /\ UNCHANGED <<projectVars, tokenVars>>

\* Mutant: the WHERE clause forgets revoked_at IS NULL.
RevokesAny(t) == TRUE

\* WHERE revoked_at IS NULL
Revokes(t) == ~tokens[t].revoked

\* A token that is revoked already stays as it is, and the answer is success
\* without an event.
RevokeAccessToken(r) ==
    LET t == call[r].token IN
    /\ pc[r] = "revokeRow"
    /\ \/ /\ Revokes(t)
          /\ tokens' = [tokens EXCEPT ![t].revoked = TRUE]
          /\ Goto(r, "recordRevoked")
       \/ ~Revokes(t) /\ UNCHANGED tokens /\ Finish(r)
    /\ UNCHANGED <<projectVars, expired, reported>>

\* A request whose query reported an error after all, or whose process died,
\* does not come this far.
RecordRevoked(r) ==
    /\ pc[r] = "recordRevoked"
    /\ reported' = [reported EXCEPT ![call[r].token] = @ + 1]
    /\ Finish(r)
    /\ UNCHANGED <<projectVars, tokens, expired>>

-----------------------------------------------------------------------------
(* RequireToken and PullSecrets                                            *)

Active(t) == ~tokens[t].revoked /\ t \notin expired

\* An empty list allows every address.
AllowsIP(t, network) ==
    tokens[t].kind.allow = {} \/ network \in tokens[t].kind.allow

\* Whether a pull that comes in now must get nothing.
CutOff(t) == ~Active(t) \/ ~IsLive(tokens[t].environment[1])

\* A machine that was handed the token calls.
PullStart(r, t, network) ==
    /\ tokens[t] # None
    /\ Begin(r, "authenticate",
             [token |-> t, network |-> network, cut |-> CutOff(t),
              environment |-> None, scopes |-> {}])
    /\ UNCHANGED <<projectVars, tokenVars>>

\* GetAccessTokenByHash joins the project, which must be live.
GetAccessTokenByHash(t) == tokens[t] # None /\ IsLive(tokens[t].project)

Authenticate(r) ==
    LET t == call[r].token
        ok == GetAccessTokenByHash(t) /\ Active(t) /\ AllowsIP(t, call[r].network)
    IN
    /\ pc[r] = "authenticate"
    /\ \/ /\ ok
          /\ pc' = [pc EXCEPT ![r] = "reserve"]
          /\ call' = [call EXCEPT ![r].environment = tokens[t].environment,
                                  ![r].scopes = tokens[t].kind.scopes]
       \/ ~ok /\ Finish(r)
    /\ UNCHANGED <<projectVars, tokenVars>>

\* limiter.Reserve, then RequireScope; a request the limiter lets through is
\* noted as a use of the token whatever its scopes.
Reserve(r) ==
    /\ pc[r] = "reserve"
    /\ \/ Finish(r)
       \/ "secrets:read" \in call[r].scopes /\ Goto(r, "pull")
       \/ "secrets:read" \notin call[r].scopes /\ Goto(r, "touch")
    /\ UNCHANGED <<projectVars, tokenVars>>

\* ListCurrentSecretValues of the environment; only the environment is looked at.
PullSecrets(r) ==
    /\ pc[r] = "pull"
    /\ Goto(r, "touch")
    /\ UNCHANGED <<projectVars, tokenVars>>

\* TouchAccessToken, in a goroutine of its own; its failure is ignored.
Touch(r) ==
    /\ pc[r] = "touch"
    /\ tokens' = [tokens EXCEPT ![call[r].token].used = TRUE]
    /\ Finish(r)
    /\ UNCHANGED <<projectVars, expired, reported>>

Expire(t) ==
    /\ tokens[t] # None
    /\ tokens[t].kind.expires
    /\ expired' = expired \cup {t}
    /\ UNCHANGED <<projectVars, callVars, tokens, reported>>

-----------------------------------------------------------------------------

TokenStep(r) ==
    \/ \E u \in User, p \in Project, e \in Environment, k \in Kinds :
          CreateTokenStart(r, u, [project |-> p, environment |-> e, kind |-> k])
    \/ CreateAccessToken(r)
    \/ \E u \in User, t \in Token : RevokeStart(r, u, t)
    \/ RevokeAccessToken(r)
    \/ RecordRevoked(r)
    \/ \E t \in Token, network \in Network : PullStart(r, t, network)
    \/ Authenticate(r)
    \/ Reserve(r)
    \/ PullSecrets(r)
    \/ Touch(r)

Next ==
    \/ \E r \in Request : ProjectStep(r) /\ UNCHANGED tokenVars
    \/ \E r \in Request : TokenStep(r)
    \/ \E t \in Token : Expire(t)

Spec == Init /\ [][Next]_vars

-----------------------------------------------------------------------------
(* Properties                                                              *)

\* Revoking or expiring a token, or deleting the project whose environment it
\* reads, shuts out every pull that comes in afterwards, although reading the
\* values looks at neither (Revoke, Delete, Authenticate, PullSecrets).  Only a
\* pull that was under way may still be served.
CutOffHolds == \A r \in Request : pc[r] \in {"reserve", "pull"} => ~call[r].cut

\* The revocation of a token goes on record once, whatever requests to revoke it
\* race each other or are repeated after an answer was lost: only one of them
\* changes the row, and only that one records an event.  If it dies in between,
\* no event is recorded at all (Revoke).
RevocationReportedOnce ==
    \A t \in Token :
        LET recording == {r \in Request : pc[r] = "recordRevoked" /\ call[r].token = t}
        IN  /\ reported[t] + Cardinality(recording) <= 1
            /\ reported[t] > 0 \/ recording # {} => tokens[t].revoked
=============================================================================
