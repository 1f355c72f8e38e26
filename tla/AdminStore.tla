------------------------------- MODULE AdminStore -------------------------------
(***************************************************************************)
(* The administration of organizations: app/api/admin.py and               *)
(* app/storage/admin_store.py, with the registrations of app/api/auth.py.  *)
(*                                                                         *)
(* A request is admitted with the user row of that moment and changes the  *)
(* organization in a transaction of its own, later: other administrators   *)
(* may have acted in between.  Every change adds an event to the audit     *)
(* trail of its organization, in the same transaction.                     *)
(***************************************************************************)
EXTENDS Integers, Sequences, FiniteSets, FiniteSetsExt

CONSTANTS
  Emails,       \* a user is known by the email: it is unique, and no user is deleted
  Projects,     \* projects that administrators create
  Invitations,
  Legacy,       \* the organization of public registrations
  Founded,      \* the organization of the bootstrap registration
  Nobody,
  MaxEvents     \* bound of the trails together

ASSUME AdminAssumption ==
  /\ Legacy # Founded /\ {Legacy, Founded} \cap Projects = {}
  /\ Nobody \notin Emails \cup {Legacy, Founded}
  /\ MaxEvents \in Nat

VARIABLES
  user,        \* users
  project,     \* projects but the default ones: the organization of each, or Nobody
  member,      \* project_members, as pairs of a project and a user
  invitation,  \* admin_invitations
  admitted,    \* the users who have a request past require_permission
  trail        \* admin_audit_events of each organization

adminVars == <<user, project, member, invitation, admitted, trail>>

\* Of the roles only one has project:admin; the others differ elsewhere.
Roles == {"admin", "operator"}
Organizations == {Legacy, Founded}

\* default_project_id
Default(org) == org

Account == [org : Organizations, role : Roles, active : BOOLEAN]
NoAccount == [org |-> Nobody, role |-> "operator", active |-> FALSE]

\* The clock is read before the transaction waits for the lock: of an invitation that
\* expires meanwhile it may tell either.
Ages == {"valid", "expiring", "expired"}

Invitation ==
  [org : Organizations, email : Emails, role : Roles, projects : SUBSET Projects,
   state : {"pending", "accepted", "revoked"}, age : Ages]
NotInvited == [org |-> Nobody, email |-> Nobody, role |-> "operator", projects |-> {},
               state |-> "revoked", age |-> "expired"]

IsUser(e) == user[e].org # Nobody

\* _require_admin: asked again in every transaction.
IsAdmin(org, e) == user[e] = [org |-> org, role |-> "admin", active |-> TRUE]

Admins(org) == {e \in Emails : IsAdmin(org, e)}

\* _require_projects
IsProject(org, p) == p = Default(org) \/ (p \in Projects /\ project[p] = org)

Pending(i) == invitation[i].state = "pending"

-----------------------------------------------------------------------------
(* The trail.                                                              *)

\* What an event tells: who did what to whom or to which project, for which invitation,
\* and the details, as far as the kind of event has them.
NoEvent == [action |-> "none", actor |-> Nobody, target |-> Nobody, invitation |-> Nobody,
            role |-> "operator", active |-> TRUE, projects |-> {}]

\* append_admin_audit_event
Log(org, event) ==
  /\ Len(trail[Legacy]) + Len(trail[Founded]) < MaxEvents
  /\ trail' = [trail EXCEPT ![org] = Append(@, event)]

-----------------------------------------------------------------------------
(* Registration.                                                           *)

\* insert_user_record: the email is unique, the default project is joined.
Insert(e, org, role, projects) ==
  /\ ~ IsUser(e)
  /\ user' = [user EXCEPT ![e] = [org |-> org, role |-> role, active |-> TRUE]]
  /\ member' = member \cup ((projects \cup {Default(org)}) \X {e})

\* create_user, of the public registration: in a demo it may choose its role.  It is not
\* in the trail.
Register(e, role) ==
  /\ Insert(e, Legacy, role, {})
  /\ UNCHANGED <<project, invitation, admitted, trail>>

\* create_bootstrap_user
Bootstrap(e) ==
  /\ \A f \in Emails : ~ IsUser(f)
  /\ Insert(e, Founded, "admin", {})
  /\ Log(Founded, [NoEvent EXCEPT !.action = "organization.bootstrap", !.actor = e,
                                  !.target = e, !.role = "admin"])
  /\ UNCHANGED <<project, invitation, admitted>>

\* require_permission(request, "project:admin")
Admit(e) ==
  /\ IsUser(e) /\ IsAdmin(user[e].org, e) /\ e \notin admitted
  /\ admitted' = admitted \cup {e}
  /\ UNCHANGED <<user, project, member, invitation, trail>>

\* The request of e ends with the transaction.
Ends(e) == admitted' = admitted \ {e}

\* 404 or 409: nothing is changed.
Refuse(e) ==
  /\ e \in admitted
  /\ Ends(e)
  /\ UNCHANGED <<user, project, member, invitation, trail>>

-----------------------------------------------------------------------------
(* Invitations.                                                            *)

\* What the clock of a transaction may tell of an invitation.
SeenValid(i) == invitation[i].age \in {"valid", "expiring"}
SeenExpired(i) == invitation[i].age \in {"expiring", "expired"}

\* create_invitation: those of the same email that are seen to have expired are revoked
\* without an event, which makes room in the index of pending ones.
CreateInvitation(a, i, e, role, projects) ==
  LET org     == user[a].org
      rivals  == {j \in Invitations : Pending(j) /\ invitation[j].org = org /\ invitation[j].email = e}
  IN  /\ a \in admitted /\ IsAdmin(org, a)
      /\ invitation[i] = NotInvited
      /\ ~ IsUser(e)
      /\ \A j \in rivals : SeenExpired(j)
      /\ \A p \in projects : IsProject(org, p)
      /\ invitation' = [j \in Invitations |->
           IF j = i THEN [org |-> org, email |-> e, role |-> role, projects |-> projects,
                          state |-> "pending", age |-> "valid"]
           ELSE IF j \in rivals THEN [invitation[j] EXCEPT !.state = "revoked"]
           ELSE invitation[j]]
      /\ Log(org, [NoEvent EXCEPT !.action = "invitation.created", !.actor = a, !.target = e,
                                  !.invitation = i, !.role = role, !.projects = projects])
      /\ Ends(a)
      /\ UNCHANGED <<user, project, member>>

\* revoke_invitation: that of one which is revoked already tells nothing.
RevokeInvitation(a, i) ==
  LET org == user[a].org
  IN  /\ a \in admitted /\ IsAdmin(org, a)
      /\ invitation[i].org = org /\ Pending(i)
      /\ invitation' = [invitation EXCEPT ![i].state = "revoked"]
      /\ Log(org, [NoEvent EXCEPT !.action = "invitation.revoked", !.actor = a, !.invitation = i])
      /\ Ends(a)
      /\ UNCHANGED <<user, project, member>>

\* Fault: whether the invitation is still open is not asked again in the transaction.
AcceptAnyway(i) ==
  LET q == invitation[i]
  IN  /\ q # NotInvited /\ SeenValid(i)
      /\ Insert(q.email, q.org, q.role, q.projects)
      /\ invitation' = [invitation EXCEPT ![i].state = "accepted"]
      /\ Log(q.org, [NoEvent EXCEPT !.action = "invitation.accepted", !.actor = q.email,
                       !.target = q.email, !.invitation = i, !.projects = q.projects])
      /\ UNCHANGED <<project, admitted>>

\* accept_invitation, with the token: no session is needed.
AcceptInvitation(i) ==
  LET q == invitation[i]
  IN  /\ Pending(i) /\ SeenValid(i)
      /\ \A p \in q.projects : IsProject(q.org, p)
      /\ Insert(q.email, q.org, q.role, q.projects)
      /\ invitation' = [invitation EXCEPT ![i].state = "accepted"]
      /\ Log(q.org, [NoEvent EXCEPT !.action = "invitation.accepted", !.actor = q.email,
                       !.target = q.email, !.invitation = i, !.projects = q.projects])
      /\ UNCHANGED <<project, admitted>>

\* Time passes: an open invitation comes to its end.
Age(i) ==
  /\ Pending(i)
  /\ \/ /\ invitation[i].age = "valid"
        /\ invitation' = [invitation EXCEPT ![i].age = "expiring"]
     \/ /\ invitation[i].age = "expiring"
        /\ invitation' = [invitation EXCEPT ![i].age = "expired"]
  /\ UNCHANGED <<user, project, member, admitted, trail>>

-----------------------------------------------------------------------------
(* Users and projects.                                                     *)

\* Fault: what the request was admitted with is not asked again in the transaction, and
\* neither is whether there is another administrator.
UpdateUnchecked(a, e, role, active) ==
  LET org == user[a].org
  IN  /\ a \in admitted
      /\ IsUser(e) /\ user[e].org = org
      /\ a = e => role = "admin" /\ active
      /\ user' = [user EXCEPT ![e] = [org |-> org, role |-> role, active |-> active]]
      /\ IF user'[e] = user[e] THEN UNCHANGED trail
         ELSE Log(org, [NoEvent EXCEPT !.action = "user.updated", !.actor = a, !.target = e,
                                       !.role = role, !.active = active])
      /\ Ends(a)
      /\ UNCHANGED <<project, member, invitation>>

\* update_organization_user: nobody gives up the own administration, and the last
\* administrator stays.
UpdateUser(a, e, role, active) ==
  LET org == user[a].org
  IN  /\ a \in admitted /\ IsAdmin(org, a)
      /\ IsUser(e) /\ user[e].org = org
      /\ a = e => role = "admin" /\ active
      /\ IsAdmin(org, e) /\ ~ (role = "admin" /\ active) => Cardinality(Admins(org)) > 1
      /\ user' = [user EXCEPT ![e] = [org |-> org, role |-> role, active |-> active]]
      /\ IF user'[e] = user[e] THEN UNCHANGED trail
         ELSE Log(org, [NoEvent EXCEPT !.action = "user.updated", !.actor = a, !.target = e,
                                       !.role = role, !.active = active])
      /\ Ends(a)
      /\ UNCHANGED <<project, member, invitation>>

\* create_organization_project: who creates it is its first member.
CreateProject(a, p) ==
  LET org == user[a].org
  IN  /\ a \in admitted /\ IsAdmin(org, a)
      /\ project[p] = Nobody
      /\ project' = [project EXCEPT ![p] = org]
      /\ member' = member \cup {<<p, a>>}
      /\ Log(org, [NoEvent EXCEPT !.action = "project.created", !.actor = a, !.target = a,
                                  !.projects = {p}])
      /\ Ends(a)
      /\ UNCHANGED <<user, invitation>>

\* set_project_membership: the default project is not left.
SetMembership(a, p, e, present) ==
  LET org == user[a].org
  IN  /\ a \in admitted /\ IsAdmin(org, a)
      /\ IsProject(org, p) /\ IsUser(e) /\ user[e].org = org
      /\ present \/ p # Default(org)
      /\ member' = IF present THEN member \cup {<<p, e>>} ELSE member \ {<<p, e>>}
      /\ IF member' = member THEN UNCHANGED trail
         ELSE Log(org, [NoEvent EXCEPT
                !.action = IF present THEN "project.member_added" ELSE "project.member_removed",
                !.actor = a, !.target = e, !.projects = {p}])
      /\ Ends(a)
      /\ UNCHANGED <<user, project, invitation>>

AdminInit ==
  /\ user = [e \in Emails |-> NoAccount]
  /\ project = [p \in Projects |-> Nobody]
  /\ member = {}
  /\ invitation = [i \in Invitations |-> NotInvited]
  /\ admitted = {}
  /\ trail = [o \in Organizations |-> <<>>]

AdminNext ==
  \/ \E e \in Emails :
       \/ \E role \in Roles : Register(e, role)
       \/ Bootstrap(e) \/ Admit(e) \/ Refuse(e)
  \/ \E i \in Invitations : AcceptInvitation(i) \/ Age(i)
  \/ \E a \in Emails, i \in Invitations :
       \/ RevokeInvitation(a, i)
       \/ \E e \in Emails, role \in Roles, projects \in SUBSET Projects :
            CreateInvitation(a, i, e, role, projects)
  \/ \E a, e \in Emails :
       \/ \E role \in Roles, active \in BOOLEAN : UpdateUser(a, e, role, active)
       \/ \E p \in Projects \cup Organizations, present \in BOOLEAN : SetMembership(a, p, e, present)
  \/ \E a \in Emails, p \in Projects : CreateProject(a, p)

AdminSpec == AdminInit /\ [][AdminNext]_adminVars

-----------------------------------------------------------------------------
(* What the trail of an organization tells, up to an event.                *)

\* The last of those events for which Is holds, or 0.
LastOf(Is(_), n) == Max({0} \cup {k \in 1 .. n : Is(k)})

\* The account of a user, as the trail tells it: of a public registration it says nothing.
AccountTold(org, e, n) ==
  LET Is(k) == /\ trail[org][k].target = e
               /\ trail[org][k].action \in
                    {"organization.bootstrap", "invitation.accepted", "user.updated"}
      k == LastOf(Is, n)
      Created(j) == /\ trail[org][j].action = "invitation.created"
                    /\ trail[org][j].invitation = trail[org][k].invitation
  IN  IF k = 0 THEN NoAccount
      ELSE [org |-> org, active |-> trail[org][k].active,
            role |-> IF trail[org][k].action = "invitation.accepted"
                     THEN trail[org][LastOf(Created, k)].role ELSE trail[org][k].role]

\* Whether a user is a member of a project.
MemberTold(org, e, p, n) ==
  LET Is(k) == /\ trail[org][k].target = e /\ p \in trail[org][k].projects
               /\ trail[org][k].action # "invitation.created"
      k == LastOf(Is, n)
  IN  k # 0 /\ trail[org][k].action # "project.member_removed"

-----------------------------------------------------------------------------
(* Properties.                                                             *)

AdminTypeOK ==
  /\ user \in [Emails -> Account \cup {NoAccount}]
  /\ project \in [Projects -> Organizations \cup {Nobody}]
  /\ member \subseteq (Projects \cup Organizations) \X Emails
  /\ invitation \in [Invitations -> Invitation \cup {NotInvited}]
  /\ admitted \subseteq Emails
  /\ DOMAIN trail = Organizations

\* An organization that has an active administrator keeps one, however the changes of
\* several administrators interleave.
KeepsAdmin ==
  [][\A org \in Organizations : Admins(org) # {} => Admins(org)' # {}]_adminVars

\* Access is as the trail tells it, and no invitation was used twice or after its revocation.
AccessIsTold(org) ==
  LET t == trail[org]
      n == Len(t)
      Ending(i) == {k \in 1 .. n : /\ t[k].invitation = i
                                   /\ t[k].action \in {"invitation.accepted", "invitation.revoked"}}
  IN  /\ \A e \in Emails : user[e].org = org =>
           /\ AccountTold(org, e, n) \in {NoAccount, user[e]}
           /\ \A p \in Projects : MemberTold(org, e, p, n) = (<<p, e>> \in member)
      /\ \A i \in Invitations : invitation[i].org = org => Cardinality(Ending(i)) <= 1

\* Who administered the organization had, as the trail tells it up to then, an active
\* administrator's account, or one of a public registration that it never told of.
ChangeIsAuthorized(org, k) ==
  trail[org][k].action \notin {"organization.bootstrap", "invitation.accepted"} =>
    AccountTold(org, trail[org][k].actor, k - 1) \in
      {[org |-> org, role |-> "admin", active |-> TRUE], NoAccount}

\* The trail of an organization tells who has access to what in it, and that every change was
\* made by somebody who administered it at that time: a request that was admitted before its
\* user lost that changes nothing any more.
TrailTellsAccess ==
  \A org \in Organizations :
    AccessIsTold(org) /\ \A k \in 1 .. Len(trail[org]) : ChangeIsAuthorized(org, k)
=============================================================================
