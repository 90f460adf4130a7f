------------------------------ MODULE Membership ------------------------------
(***************************************************************************)
(* The members of one workspace (internal/service/workspace.go) and the    *)
(* requests that change them.  None of the methods opens a transaction:    *)
(* each query is a step of its own, so what a method has read, its         *)
(* caller's role, the member's role and the number of owners, can be stale *)
(* when it writes.                                                         *)
(*                                                                         *)
(* A handler slot serves one request after another; two slots serve two    *)
(* requests at the same time.  A request that is refused changes nothing,  *)
(* so only admitted ones are steps.  The event each method records at its  *)
(* end goes to the audit recorder, module AuditRecorder.                   *)
(***************************************************************************)
EXTENDS Integers, FiniteSets, AccessRoles

CONSTANTS
    User,       \* accounts that exist, members or not
    Slot,       \* requests that can be in flight at once
    Invites,    \* whether callers use AddMember
    None        \* no membership row; no request in the slot

VARIABLES
    role,       \* table workspace_members: the role of each user, or None
    pc,         \* next query of the request in each slot
    call,       \* its arguments and what it has read
    stale       \* another request wrote since this one was authorised

vars == <<role, pc, call, stale>>

Ops == {"AddMember", "UpdateMemberRole", "RemoveMember"}

\* scope is the caller's role when the request was authorised.
Call == [op : Ops, by : User, member : User, to : Roles, scope : Roles]

ASSUME MembershipAssumption ==
    /\ None \notin Roles
    /\ None \notin Call
    /\ Invites \in BOOLEAN

TypeOK ==
    /\ role \in [User -> Roles \cup {None}]
    /\ pc \in [Slot -> {"idle", "getRole", "countOwners", "write"}]
    /\ call \in [Slot -> Call \cup {None}]
    /\ stale \in [Slot -> BOOLEAN]
    /\ \A r \in Slot : pc[r] = "idle" <=> call[r] = None

\* WorkspaceService.Create and Register make the creator the owner; the members
\* an owner may then have added, with any roles, are there from the start.
Init ==
    /\ role \in [User -> Roles \cup {None}]
    /\ \E creator \in User : role[creator] = "owner"
    /\ pc = [r \in Slot |-> "idle"]
    /\ call = [r \in Slot |-> None]
    /\ stale = [r \in Slot |-> FALSE]

-----------------------------------------------------------------------------

\* RequireWorkspaceRole: not a member, or not enough of one, is refused.
RequireWorkspaceRole(u, minimum) == role[u] # None /\ AtLeast(role[u], minimum)

\* Mutant: any admin may grant ownership.
GrantToAnyone(to, scope) == TRUE

\* Only an owner may create another owner.
MayGrant(to, scope) == to = "owner" => AtLeast(scope, "owner")

Begin(r, op, u, m, to, label) ==
    /\ pc[r] = "idle"
    /\ call' = [call EXCEPT ![r] = [op |-> op, by |-> u, member |-> m,
                                    to |-> to, scope |-> role[u]]]
    /\ pc' = [pc EXCEPT ![r] = label]
    /\ stale' = [stale EXCEPT ![r] = FALSE]
    /\ UNCHANGED role

Finish(r) ==
    /\ pc' = [pc EXCEPT ![r] = "idle"]
    /\ call' = [call EXCEPT ![r] = None]

\* The write of request r, after which it answers; the other requests in
\* flight act on what they read before it.
Write(r, m, to) ==
    /\ role' = [role EXCEPT ![m] = to]
    /\ stale' = [q \in Slot |-> q # r /\ call[q] # None]
    /\ Finish(r)

\* AddMember looks up the account by email and writes; that the invitee may
\* already be a member is not looked at.
AddMember(r, u, m, to) ==
    /\ Invites
    /\ RequireWorkspaceRole(u, "admin") /\ MayGrant(to, role[u])
    /\ Begin(r, "AddMember", u, m, to, "write")

UpdateMemberRole(r, u, m, to) ==
    /\ RequireWorkspaceRole(u, "admin") /\ MayGrant(to, role[u])
    /\ Begin(r, "UpdateMemberRole", u, m, to, "getRole")

\* Members may always remove themselves.  The role argument is unused.
RemoveMember(r, u, m) ==
    /\ RequireWorkspaceRole(u, IF u = m THEN "viewer" ELSE "admin")
    /\ Begin(r, "RemoveMember", u, m, "viewer", "getRole")

\* Whether the write takes an owner's role away, by the role just read.
LosesOwner(c, current) ==
    current = "owner" /\ (c.op = "UpdateMemberRole" => c.to # "owner")

GetWorkspaceRole(r) ==
    /\ pc[r] = "getRole"
    /\ \/ role[call[r].member] = None /\ Finish(r)            \* not found
       \/ /\ role[call[r].member] # None
          /\ pc' = [pc EXCEPT ![r] =
                      IF LosesOwner(call[r], role[call[r].member])
                      THEN "countOwners" ELSE "write"]
          /\ UNCHANGED call
    /\ UNCHANGED <<role, stale>>

Owners == {u \in User : role[u] = "owner"}

\* Mutant: off by one.
OwnersWithoutSelf(r) ==
    /\ pc[r] = "countOwners"
    /\ \/ Cardinality(Owners) < 1 /\ Finish(r)
       \/ /\ Cardinality(Owners) >= 1
          /\ pc' = [pc EXCEPT ![r] = "write"]
          /\ UNCHANGED call
    /\ UNCHANGED <<role, stale>>

EnsureNotLastOwner(r) ==
    /\ pc[r] = "countOwners"
    /\ \/ Cardinality(Owners) <= 1 /\ Finish(r)               \* conflict
       \/ /\ Cardinality(Owners) > 1
          /\ pc' = [pc EXCEPT ![r] = "write"]
          /\ UNCHANGED call
    /\ UNCHANGED <<role, stale>>

\* INSERT ... ON CONFLICT DO UPDATE: replaces the role of a present member.
AddWorkspaceMember(r) ==
    /\ pc[r] = "write" /\ call[r].op = "AddMember"
    /\ Write(r, call[r].member, call[r].to)

\* Mutant: the update inserts the row when it is missing.
UpsertWorkspaceMemberRole(r) ==
    /\ pc[r] = "write" /\ call[r].op = "UpdateMemberRole"
    /\ Write(r, call[r].member, call[r].to)

\* An UPDATE changes no row when the member has been removed meanwhile.
UpdateWorkspaceMemberRole(r) ==
    /\ pc[r] = "write" /\ call[r].op = "UpdateMemberRole"
    /\ Write(r, call[r].member,
             IF role[call[r].member] = None THEN None ELSE call[r].to)

RemoveWorkspaceMember(r) ==
    /\ pc[r] = "write" /\ call[r].op = "RemoveMember"
    /\ Write(r, call[r].member, None)

Next ==
    \E r \in Slot :
      \/ \E u, m \in User :
           \/ \E to \in Roles : AddMember(r, u, m, to)
           \/ \E to \in Roles : UpdateMemberRole(r, u, m, to)
           \/ RemoveMember(r, u, m)
      \/ GetWorkspaceRole(r)
      \/ EnsureNotLastOwner(r)
      \/ AddWorkspaceMember(r)
      \/ UpdateWorkspaceMemberRole(r)
      \/ RemoveWorkspaceMember(r)

Spec == Init /\ [][Next]_vars

-----------------------------------------------------------------------------
(* What the service says about owners, and what holds *)

\* workspace.go, ensureNotLastOwner: "a workspace must keep at least one owner".
WorkspaceKeepsOwner == Owners # {}

\* ensureNotLastOwner protects against everything but a race: a demotion or a
\* removal takes the last owner away only if another request wrote while it was
\* under way, and otherwise only AddMember, called for somebody who is a member
\* already, can.
OnlyRaceOrReinviteOrphans ==
    [][Owners # {} /\ Owners' = {} =>
         \E r \in Slot : pc[r] = "write" /\ (stale[r] \/ call[r].op = "AddMember")]_vars

\* A removed member does not come back because a role change was in flight
\* when the removal landed: only an invitation makes a member.
NoResurrection ==
    [][\A u \in User : role[u] = None /\ role'[u] # None =>
         \E r \in Slot : /\ pc[r] = "write" /\ call[r].op = "AddMember"
                         /\ call[r].member = u]_vars

\* Losing the last owner is final: once nobody is an owner and no request that
\* an owner sent is in flight, no sequence of requests makes anyone owner, so
\* nobody can "promote anyone back".
LostOwnershipIsFinal ==
    [][/\ Owners = {}
       /\ \A r \in Slot : call[r] # None => call[r].scope # "owner"
       => Owners' = {}]_vars
=============================================================================
