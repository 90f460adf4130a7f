--------------------------- MODULE MembershipProofs ---------------------------
(***************************************************************************)
(* Proofs about Membership, for any number of users and of requests in     *)
(* flight.  What holds of one step rests on what the request that takes it *)
(* checked before: IInv says what remains of those checks.                 *)
(***************************************************************************)
EXTENDS Membership, FiniteSetTheorems, TLAPS

\* A request that may make an owner was sent by one.
Granted(r) == call[r] # None /\ call[r].to = "owner" => call[r].scope = "owner"

\* A request about to take an owner's role away has counted a second owner,
\* unless another request wrote since.
Counted(r) ==
    /\ pc[r] = "write" /\ ~stale[r]
    /\ call[r].op # "AddMember" /\ LosesOwner(call[r], role[call[r].member])
    => Cardinality(Owners) > 1

IInv == TypeOK /\ \A r \in Slot : Granted(r) /\ Counted(r)

-----------------------------------------------------------------------------

\* Of two owners one is somebody else.
LEMMA AnotherOwner ==
  ASSUME Cardinality(Owners) > 1, NEW m
  PROVE  \E u \in Owners : u # m
<1> SUFFICES ASSUME Owners \subseteq {m} PROVE FALSE
  OBVIOUS
<1>1. CASE Owners = {}
  BY <1>1, FS_EmptySet
<1>2. CASE Owners = {m}
  BY <1>2, FS_Singleton
<1>3. QED
  BY <1>1, <1>2

\* Only owners rank as owners.
LEMMA OnlyOwnersRank ==
  ASSUME NEW x \in Roles, AtLeast(x, "owner")
  PROVE  x = "owner"
BY DEF Roles, AtLeast, Rank

\* A step of the other requests that leaves the table alone.
LEMMA LocalStep ==
  ASSUME IInv, NEW r \in Slot, TypeOK', UNCHANGED role,
         \A q \in Slot \ {r} : pc'[q] = pc[q] /\ call'[q] = call[q] /\ stale'[q] = stale[q],
         Granted(r)', Counted(r)'
  PROVE  IInv'
<1>1. Owners' = Owners
  BY DEF Owners
<1>2. ASSUME NEW q \in Slot \ {r} PROVE Granted(q)' /\ Counted(q)'
  BY <1>1 DEF IInv, Granted, Counted, LosesOwner
<1>3. QED
  BY <1>2 DEF IInv

\* A request is admitted.
LEMMA BeginStep ==
  ASSUME IInv, NEW r \in Slot, NEW op \in Ops, NEW u \in User, NEW m \in User,
         NEW to \in Roles, NEW label \in {"getRole", "write"},
         Begin(r, op, u, m, to, label), role[u] # None, MayGrant(to, role[u]),
         label = "write" => op = "AddMember"
  PROVE  IInv'
<1> USE DEF IInv, TypeOK, Begin
<1>1. role[u] \in Roles
  OBVIOUS
<1>2. /\ call'[r] = [op |-> op, by |-> u, member |-> m, to |-> to, scope |-> role[u]]
      /\ call'[r] \in Call /\ pc'[r] = label /\ stale'[r] = FALSE
  BY <1>1 DEF Call
<1>3. TypeOK'
  <2>1. call' \in [Slot -> Call \cup {None}]
    BY <1>2
  <2>2. \A q \in Slot : pc'[q] = "idle" <=> call'[q] = None
    BY <1>2, MembershipAssumption DEF MembershipAssumption
  <2>3. QED
    BY <2>1, <2>2
<1>4. Granted(r)'
  BY <1>1, <1>2, OnlyOwnersRank DEF Granted, MayGrant
<1>5. Counted(r)'
  BY <1>2 DEF Counted
<1> HIDE DEF IInv, TypeOK
<1>6. UNCHANGED role /\ \A q \in Slot \ {r} :
        pc'[q] = pc[q] /\ call'[q] = call[q] /\ stale'[q] = stale[q]
  BY DEF IInv, TypeOK
<1>7. QED
  BY <1>3, <1>4, <1>5, <1>6, LocalStep

\* A query returns: the request is refused, or goes on to its next one.
LEMMA QueryStep ==
  ASSUME IInv, NEW r \in Slot, pc[r] # "idle", UNCHANGED <<role, stale>>,
         \/ Finish(r)
         \/ \E label \in {"countOwners", "write"} :
              /\ pc' = [pc EXCEPT ![r] = label] /\ UNCHANGED call
              /\ label = "write" /\ LosesOwner(call[r], role[call[r].member])
                   => Cardinality(Owners) > 1
  PROVE  IInv'
<1>1. Owners' = Owners
  BY DEF Owners
<1>2. TypeOK /\ call[r] # None
  BY DEF IInv, TypeOK
<1>3. CASE Finish(r)
  <2>1. TypeOK'
    BY <1>2, <1>3, MembershipAssumption DEF TypeOK, Finish, MembershipAssumption
  <2>2. pc'[r] = "idle" /\ call'[r] = None
    BY <1>2, <1>3 DEF TypeOK, Finish
  <2>3. Granted(r)' /\ Counted(r)'
    BY <2>2 DEF Granted, Counted
  <2>4. \A q \in Slot \ {r} : pc'[q] = pc[q] /\ call'[q] = call[q] /\ stale'[q] = stale[q]
    BY <1>2, <1>3 DEF TypeOK, Finish
  <2>5. QED
    BY <2>1, <2>3, <2>4, LocalStep
<1>4. ASSUME NEW label \in {"countOwners", "write"},
             pc' = [pc EXCEPT ![r] = label], UNCHANGED call,
             label = "write" /\ LosesOwner(call[r], role[call[r].member])
               => Cardinality(Owners) > 1
      PROVE  IInv'
  <2>1. TypeOK' /\ pc'[r] = label
    BY <1>2, <1>4 DEF TypeOK
  <2>2. Granted(r)'
    BY <1>4 DEF IInv, Granted
  <2>3. Counted(r)'
    BY <1>1, <1>4, <2>1 DEF Counted, LosesOwner
  <2>4. \A q \in Slot \ {r} : pc'[q] = pc[q] /\ call'[q] = call[q] /\ stale'[q] = stale[q]
    BY <1>2, <1>4 DEF TypeOK
  <2>5. QED
    BY <2>1, <2>2, <2>3, <2>4, LocalStep
<1>5. QED
  BY <1>3, <1>4

\* A write makes what the other requests have read stale, and ends its own.
LEMMA WriteStep ==
  ASSUME IInv, NEW r \in Slot, NEW m \in User, NEW to \in Roles \cup {None}, Write(r, m, to)
  PROVE  IInv'
<1>1. TypeOK
  BY DEF IInv
<1>2. TypeOK'
  BY <1>1, MembershipAssumption DEF TypeOK, Write, Finish, MembershipAssumption
<1>3. /\ pc'[r] = "idle" /\ call'[r] = None
      /\ \A q \in Slot \ {r} : /\ pc'[q] = pc[q] /\ call'[q] = call[q]
                               /\ call[q] # None => stale'[q]
  BY <1>1 DEF TypeOK, Write, Finish
<1>4. Granted(r)' /\ Counted(r)'
  BY <1>3 DEF Granted, Counted
<1>5. ASSUME NEW q \in Slot \ {r} PROVE Granted(q)' /\ Counted(q)'
  <2>1. Granted(q)'
    BY <1>3 DEF IInv, Granted
  <2>2. pc'[q] = "write" => stale'[q]
    BY <1>1, <1>3 DEF TypeOK
  <2>3. QED
    BY <2>1, <2>2 DEF Counted
<1>6. QED
  BY <1>2, <1>4, <1>5 DEF IInv

\* The three writes, each with the row it leaves.
LEMMA Writes ==
  ASSUME TypeOK, NEW r \in Slot,
         AddWorkspaceMember(r) \/ UpdateWorkspaceMemberRole(r) \/ RemoveWorkspaceMember(r)
  PROVE  /\ call[r] \in Call /\ pc[r] = "write"
         /\ \E to \in Roles \cup {None} :
              /\ Write(r, call[r].member, to)
              /\ to = None \/ to = call[r].to
              /\ call[r].op = "AddMember" \/ role[call[r].member] # None \/ to = None
              /\ call[r].op = "UpdateMemberRole" /\ role[call[r].member] # None
                   => to = call[r].to
<1>1. call[r] \in Call /\ pc[r] = "write"
  BY DEF TypeOK, AddWorkspaceMember, UpdateWorkspaceMemberRole, RemoveWorkspaceMember
<1>2. call[r].to \in Roles /\ call[r].member \in User
  BY <1>1 DEF Call
<1>3. CASE AddWorkspaceMember(r)
  BY <1>1, <1>2, <1>3 DEF AddWorkspaceMember
<1>4. CASE UpdateWorkspaceMemberRole(r)
  BY <1>1, <1>2, <1>4 DEF UpdateWorkspaceMemberRole
<1>5. CASE RemoveWorkspaceMember(r)
  BY <1>1, <1>2, <1>5 DEF RemoveWorkspaceMember
<1>6. QED
  BY <1>3, <1>4, <1>5

\* The steps of one request.
StepOf(r) ==
    \/ \E u, m \in User :
         \/ \E to \in Roles : AddMember(r, u, m, to)
         \/ \E to \in Roles : UpdateMemberRole(r, u, m, to)
         \/ RemoveMember(r, u, m)
    \/ GetWorkspaceRole(r)
    \/ EnsureNotLastOwner(r)
    \/ AddWorkspaceMember(r) \/ UpdateWorkspaceMemberRole(r) \/ RemoveWorkspaceMember(r)

LEMMA NextIsStep == Next => \E r \in Slot : StepOf(r)
BY DEF Next, StepOf

LEMMA StepPreserves ==
  ASSUME IInv, NEW r \in Slot, StepOf(r)
  PROVE  IInv'
<1>1. TypeOK
  BY DEF IInv
<1>2. ASSUME NEW u \in User, NEW m \in User, NEW to \in Roles, AddMember(r, u, m, to)
      PROVE  IInv'
  BY <1>2, BeginStep DEF AddMember, RequireWorkspaceRole, Ops
<1>3. ASSUME NEW u \in User, NEW m \in User, NEW to \in Roles, UpdateMemberRole(r, u, m, to)
      PROVE  IInv'
  BY <1>3, BeginStep DEF UpdateMemberRole, RequireWorkspaceRole, Ops
<1>4. ASSUME NEW u \in User, NEW m \in User, RemoveMember(r, u, m) PROVE IInv'
  <2>1. "viewer" \in Roles /\ MayGrant("viewer", role[u])
    BY DEF Roles, MayGrant
  <2>2. QED
    BY <1>4, <2>1, BeginStep DEF RemoveMember, RequireWorkspaceRole, Ops
<1>5. CASE GetWorkspaceRole(r)
  <2>1. pc[r] = "getRole" /\ UNCHANGED <<role, stale>>
    BY <1>5 DEF GetWorkspaceRole
  <2>2. \/ Finish(r)
        \/ \E label \in {"countOwners", "write"} :
             /\ pc' = [pc EXCEPT ![r] = label] /\ UNCHANGED call
             /\ label = "write" => ~LosesOwner(call[r], role[call[r].member])
    BY <1>5 DEF GetWorkspaceRole
  <2>3. QED
    BY <2>1, <2>2, QueryStep
<1>6. CASE EnsureNotLastOwner(r)
  <2>1. pc[r] = "countOwners" /\ UNCHANGED <<role, stale>>
    BY <1>6 DEF EnsureNotLastOwner
  <2>2. \/ Finish(r)
        \/ pc' = [pc EXCEPT ![r] = "write"] /\ UNCHANGED call /\ Cardinality(Owners) > 1
    BY <1>6 DEF EnsureNotLastOwner
  <2>3. QED
    BY <2>1, <2>2, QueryStep
<1>7. CASE AddWorkspaceMember(r) \/ UpdateWorkspaceMemberRole(r) \/ RemoveWorkspaceMember(r)
  <2>1. call[r].member \in User
    BY <1>1, <1>7, Writes DEF Call
  <2>2. QED
    BY <1>1, <1>7, <2>1, Writes, WriteStep
<1>8. QED
  BY <1>2, <1>3, <1>4, <1>5, <1>6, <1>7 DEF StepOf

LEMMA Invariant == Spec => []IInv
<1>1. Init => IInv
  BY DEF Init, IInv, TypeOK, Granted, Counted
<1>2. IInv /\ [Next]_vars => IInv'
  <2>1. ASSUME IInv, UNCHANGED vars PROVE IInv'
    BY <2>1 DEF vars, IInv, TypeOK, Granted, Counted, LosesOwner, Owners
  <2>2. QED
    BY <2>1, NextIsStep, StepPreserves
<1>3. QED
  BY <1>1, <1>2, PTL DEF Spec

\* What a step does to the table: nothing, or one of the three writes.
LEMMA TableSteps ==
  ASSUME NEW r \in Slot, StepOf(r)
  PROVE  \/ UNCHANGED role
         \/ AddWorkspaceMember(r) \/ UpdateWorkspaceMemberRole(r) \/ RemoveWorkspaceMember(r)
BY DEF StepOf, AddMember, UpdateMemberRole, RemoveMember, Begin, GetWorkspaceRole,
       EnsureNotLastOwner

-----------------------------------------------------------------------------

\* Every variable keeps its type: a handler slot has the arguments of its
\* request exactly while it serves one.
THEOREM MembershipTypeCorrect == Spec => []TypeOK
BY Invariant, PTL DEF IInv

\* ensureNotLastOwner, although it counts in one statement and the write is
\* another: only a race, or AddMember for a member, takes the last owner away.
THEOREM LastOwnerIsProtected == Spec => OnlyRaceOrReinviteOrphans
<1> DEFINE A == Owners # {} /\ Owners' = {} =>
                  \E r \in Slot : pc[r] = "write" /\ (stale[r] \/ call[r].op = "AddMember")
<1>1. IInv /\ [Next]_vars => A
  <2> SUFFICES ASSUME IInv, [Next]_vars, Owners # {}, Owners' = {}
               PROVE  \E r \in Slot : pc[r] = "write" /\ (stale[r] \/ call[r].op = "AddMember")
    OBVIOUS
  <2>1. ~UNCHANGED role
    BY DEF Owners
  <2>2. PICK r \in Slot :
          AddWorkspaceMember(r) \/ UpdateWorkspaceMemberRole(r) \/ RemoveWorkspaceMember(r)
    BY <2>1, NextIsStep, TableSteps DEF vars
  <2> DEFINE m == call[r].member
  <2>3. TypeOK /\ Counted(r)
    BY DEF IInv
  <2>4. PICK to \in Roles \cup {None} :
          /\ Write(r, m, to)
          /\ call[r].op = "UpdateMemberRole" /\ role[m] # None => to = call[r].to
    BY <2>2, <2>3, Writes
  <2>5. pc[r] = "write" /\ call[r] \in Call /\ m \in User
    BY <2>2, <2>3, Writes DEF Call
  <2>6. \A u \in User : role'[u] = IF u = m THEN to ELSE role[u]
    BY <2>3, <2>4, <2>5 DEF TypeOK, Write
  <2>7. Owners \subseteq {m}
    BY <2>6 DEF Owners
  <2>8. LosesOwner(call[r], role[m])
    <3>1. role[m] = "owner" /\ to # "owner"
      BY <2>5, <2>6, <2>7 DEF Owners
    <3>2. QED
      BY <2>4, <3>1, MembershipAssumption DEF LosesOwner, MembershipAssumption, Roles
  <2>9. ~(Cardinality(Owners) > 1)
    BY <2>7, AnotherOwner
  <2>10. QED
    BY <2>3, <2>5, <2>8, <2>9 DEF Counted
<1>2. QED
  BY <1>1, Invariant, PTL DEF Spec, OnlyRaceOrReinviteOrphans

\* An UPDATE that finds the row gone changes nothing: nobody becomes a member
\* again but by an invitation.
THEOREM RemovedStayRemoved == Spec => NoResurrection
<1> DEFINE A == \A u \in User : role[u] = None /\ role'[u] # None =>
                  \E r \in Slot : /\ pc[r] = "write" /\ call[r].op = "AddMember"
                                  /\ call[r].member = u
<1>1. IInv /\ [Next]_vars => A
  <2> SUFFICES ASSUME IInv, [Next]_vars, NEW u \in User, role[u] = None, role'[u] # None
               PROVE  \E r \in Slot : /\ pc[r] = "write" /\ call[r].op = "AddMember"
                                      /\ call[r].member = u
    OBVIOUS
  <2>1. TypeOK
    BY DEF IInv
  <2>2. PICK r \in Slot :
          AddWorkspaceMember(r) \/ UpdateWorkspaceMemberRole(r) \/ RemoveWorkspaceMember(r)
    BY NextIsStep, TableSteps DEF vars
  <2>3. PICK to \in Roles \cup {None} :
          /\ Write(r, call[r].member, to)
          /\ call[r].op = "AddMember" \/ role[call[r].member] # None \/ to = None
    BY <2>1, <2>2, Writes
  <2>4. pc[r] = "write"
    BY <2>1, <2>2, Writes
  <2>5. call[r].member = u /\ to # None
    BY <2>1, <2>3 DEF TypeOK, Write
  <2>6. QED
    BY <2>3, <2>4, <2>5
<1>2. QED
  BY <1>1, Invariant, PTL DEF Spec, NoResurrection

\* Once ownership is lost and no owner's request is under way it is lost for good.
THEOREM OwnershipStaysLost == Spec => LostOwnershipIsFinal
<1> DEFINE A == /\ Owners = {}
                /\ \A r \in Slot : call[r] # None => call[r].scope # "owner"
                => Owners' = {}
<1>1. IInv /\ [Next]_vars => A
  <2> SUFFICES ASSUME IInv, [Next]_vars, Owners = {},
                      \A r \in Slot : call[r] # None => call[r].scope # "owner"
               PROVE  Owners' = {}
    OBVIOUS
  <2>1. CASE UNCHANGED role
    BY <2>1 DEF Owners
  <2>2. ASSUME NEW r \in Slot,
               AddWorkspaceMember(r) \/ UpdateWorkspaceMemberRole(r) \/ RemoveWorkspaceMember(r)
        PROVE  Owners' = {}
    <3>1. TypeOK /\ Granted(r)
      BY DEF IInv
    <3>2. PICK to \in Roles \cup {None} :
            Write(r, call[r].member, to) /\ (to = None \/ to = call[r].to)
      BY <2>2, <3>1, Writes
    <3>3. call[r] # None /\ pc[r] = "write"
      BY <2>2, <3>1, Writes DEF TypeOK
    <3>4. to # "owner"
      BY <3>1, <3>2, <3>3, MembershipAssumption DEF Granted, MembershipAssumption, Roles
    <3>5. QED
      BY <3>1, <3>2, <3>4 DEF TypeOK, Write, Owners
  <2>3. QED
    BY <2>1, <2>2, NextIsStep, TableSteps DEF vars
<1>2. QED
  BY <1>1, Invariant, PTL DEF Spec, LostOwnershipIsFinal
=============================================================================
