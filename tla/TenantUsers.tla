---------------------------- MODULE TenantUsers ----------------------------
(***************************************************************************)
(* The page /tenant/users: the members of the selected organization, the   *)
(* dialog that invites, the dialog that edits a member's roles and the     *)
(* confirmation of a removal.                                              *)
(*                                                                         *)
(* A request carries what the dialog showed when its button was pressed;   *)
(* its success handler, run with the closures of the latest render, closes *)
(* and invalidates what is selected when the answer comes.                 *)
(*                                                                         *)
(* Each organization has the role every member is invited with, "base",    *)
(* and one more, "extra"; a member is who holds one of them.               *)
(***************************************************************************)
EXTENDS Naturals, QueryCache

CONSTANTS Orgs, Members, None,
          MaxUserRequests   \* bound: how many requests a behaviour starts

ASSUME UsersAssumption ==
    None \notin Orgs \cup Members /\ MaxUserRequests \in Nat

VARIABLES
    held,           \* at the API: per organization and user the roles held
    users,          \* per organization the query tenantUsers
    assignments,    \* per organization and user the query of the role dialog
    selected,       \* activeTenantId
    invite,         \* isInviteOpen, inviteTenantId, and whose role inviteRoleId is
    roleDialog,     \* isRoleDialogOpen, roleTarget, whose role selectedRoleId is
    removeTarget,   \* of the confirmation
    userJobs,       \* requests in flight
    sent,           \* how many there were
    \* History, read by no action: cached, changed, and since neither invalidated
    \* nor heard of
    staleUsers,     \* organizations
    staleRoles      \* organizations with a user

userDialogs == <<invite, roleDialog, removeTarget>>
userPast    == <<staleUsers, staleRoles>>
userVars    == <<held, users, assignments, selected, userDialogs, userJobs, sent,
                 userPast>>

Roles    == {"base", "extra"}
Lists    == [Members -> SUBSET Roles]
UserOps  == {"invite", "remove", "assign", "unassign"}
UserJobs == [op : UserOps, tenant : Orgs, member : Members, role : Roles,
             of : Orgs]

TenantUsersTypeOK ==
    /\ held \in [Orgs -> Lists] /\ users \in [Orgs -> Query(Lists)]
    /\ assignments \in [Orgs \X Members -> Query(SUBSET Roles)]
    /\ selected \in Orgs
    /\ invite \in [open : BOOLEAN, tenant : Orgs, of : Orgs \cup {None}]
    /\ roleDialog \in [open : BOOLEAN, target : Members \cup {None},
                       of : Orgs \cup {None}]
    /\ removeTarget \in Members \cup {None}
    /\ userJobs \subseteq UserJobs
    /\ \A j, k \in userJobs : j.op = k.op => j = k
    /\ sent \in 0 .. MaxUserRequests
    /\ staleUsers \subseteq Orgs /\ staleRoles \subseteq Orgs \X Members
    /\ roleDialog.target = None => ~roleDialog.open /\ roleDialog.of = None
    /\ ~invite.open => invite.of = None

NoRoles == [open |-> FALSE, target |-> None, of |-> None]

UsersInit ==
    /\ held = [t \in Orgs |-> [m \in Members |-> {"base"}]]
    /\ selected \in Orgs
    /\ users = [t \in Orgs |-> IF t = selected THEN Holding(held[t])
                                               ELSE NewQuery]
    /\ assignments = [k \in Orgs \X Members |-> NewQuery]
    /\ invite = [open |-> FALSE, tenant |-> selected, of |-> None]
    /\ roleDialog = NoRoles /\ removeTarget = None
    /\ userJobs = {} /\ sent = 0 /\ staleUsers = {} /\ staleRoles = {}
-----------------------------------------------------------------------------
\* The dialogs are modal: the selector and the rows are out of reach.
NoDialog == ~invite.open /\ ~roleDialog.open /\ removeTarget = None

SelectUsersOrg(t) ==
    /\ NoDialog /\ selected # t
    /\ selected' = t
    /\ users' = [users EXCEPT ![t] = Observed(@, held[t])]
    /\ UNCHANGED <<held, assignments, userDialogs, userJobs, sent, userPast>>

UsersFetched(t) ==
    /\ Fetching(users[t])
    /\ \E q \in {Answered(users[t]), Failed(users[t])} :
          users' = [users EXCEPT ![t] = q]
    /\ UNCHANGED <<held, assignments, selected, userDialogs, userJobs, sent,
                   userPast>>

RolesFetched(k) ==
    /\ Fetching(assignments[k])
    /\ \E q \in {Answered(assignments[k]), Failed(assignments[k])} :
          assignments' = [assignments EXCEPT ![k] = q]
    /\ UNCHANGED <<held, users, selected, userDialogs, userJobs, sent, userPast>>

\* The rows of the table.
Row(m) == \E l \in users[selected].data : l[m] # {}
-----------------------------------------------------------------------------
\* The invite dialog.  handleInviteOpenChange starts from the selected
\* organization and the role it proposes, both times.
OpenInvite(open) ==
    /\ invite.open # open
    /\ open => NoDialog
    /\ invite' = [open |-> open, tenant |-> selected, of |-> None]
    /\ UNCHANGED <<held, users, assignments, selected, roleDialog, removeTarget,
                   userJobs, sent, userPast>>

\* Broken variant: the role stays chosen.
ChooseTenantKeepsRole(t) ==
    /\ invite.open /\ invite.tenant # t
    /\ invite' = [invite EXCEPT !.tenant = t]
    /\ UNCHANGED <<held, users, assignments, selected, roleDialog, removeTarget,
                   userJobs, sent, userPast>>

ChooseTenant(t) ==
    /\ invite.open /\ invite.tenant # t
    /\ invite' = [invite EXCEPT !.tenant = t, !.of = None]
    /\ UNCHANGED <<held, users, assignments, selected, roleDialog, removeTarget,
                   userJobs, sent, userPast>>

\* One of inviteTenantRoles.
ChooseRole ==
    /\ invite.open /\ invite.of = None
    /\ invite' = [invite EXCEPT !.of = invite.tenant]
    /\ UNCHANGED <<held, users, assignments, selected, roleDialog, removeTarget,
                   userJobs, sent, userPast>>

\* Edit permissions: openRoleDialog.
OpenRoles(m) ==
    /\ NoDialog /\ Row(m)
    /\ roleDialog' = [open |-> TRUE, target |-> m, of |-> None]
    /\ assignments' = [assignments EXCEPT ![<<selected, m>>] =
                          Observed(@, held[selected][m])]
    /\ UNCHANGED <<held, users, selected, invite, removeTarget, userJobs, sent,
                   userPast>>

\* onOpenChange(false): Escape, or a click outside.
CloseRoles ==
    /\ roleDialog.open
    /\ roleDialog' = NoRoles
    /\ UNCHANGED <<held, users, assignments, selected, invite, removeTarget,
                   userJobs, sent, userPast>>

\* The button Close only hides the dialog: its target stays.  So does the choice,
\* which openRoleDialog resets before it is seen again.
HideRoles ==
    /\ roleDialog.open
    /\ roleDialog' = [roleDialog EXCEPT !.open = FALSE, !.of = None]
    /\ UNCHANGED <<held, users, assignments, selected, invite, removeTarget,
                   userJobs, sent, userPast>>

\* currentAssignments is empty until the query has data.
Current == IF ~roleDialog.open THEN {}
           ELSE UNION assignments[<<selected, roleDialog.target>>].data

ChooseAssignment ==
    /\ roleDialog.open /\ roleDialog.of = None
    /\ "extra" \notin Current
    /\ roleDialog' = [roleDialog EXCEPT !.of = selected]
    /\ UNCHANGED <<held, users, assignments, selected, invite, removeTarget,
                   userJobs, sent, userPast>>

AskRemove(m) ==
    /\ IF m = None THEN removeTarget # None ELSE NoDialog /\ Row(m)
    /\ removeTarget' = m
    /\ UNCHANGED <<held, users, assignments, selected, invite, roleDialog,
                   userJobs, sent, userPast>>
-----------------------------------------------------------------------------
Submit(op, t, m, r, of) ==
    /\ \A j \in userJobs : j.op # op
    /\ sent < MaxUserRequests /\ sent' = sent + 1
    /\ userJobs' = userJobs \cup
          {[op |-> op, tenant |-> t, member |-> m, role |-> r, of |-> of]}
    /\ UNCHANGED <<held, users, assignments, selected, invite, roleDialog,
                   userPast>>

\* resolvedInviteRoleId: the chosen role, or the proposal of the organization.
SendInvite(m) ==
    /\ invite.open
    /\ IF invite.of = None
       THEN Submit("invite", invite.tenant, m, "base", invite.tenant)
       ELSE Submit("invite", invite.tenant, m, "extra", invite.of)
    /\ UNCHANGED removeTarget

ConfirmRemove ==
    /\ removeTarget # None
    /\ Submit("remove", selected, removeTarget, "base", selected)
    /\ removeTarget' = None

AssignRole ==
    /\ roleDialog.open /\ roleDialog.of # None
    /\ Submit("assign", selected, roleDialog.target, "extra", roleDialog.of)
    /\ UNCHANGED removeTarget

RemoveRole(r) ==
    /\ roleDialog.open /\ r \in Current
    /\ Submit("unassign", selected, roleDialog.target, r, selected)
    /\ UNCHANGED removeTarget
-----------------------------------------------------------------------------
\* What the API makes of it: removing a user removes every role; a role of
\* another organization, or one that is not held, is refused.
Effect(j) ==
    LET Now == held[j.tenant][j.member] IN
    /\ j.of = j.tenant
    /\ j.op = "remove" => Now # {}
    /\ j.op = "unassign" => j.role \in Now
    /\ held' = [held EXCEPT ![j.tenant][j.member] =
                  CASE j.op = "remove"   -> {}
                    [] j.op = "unassign" -> Now \ {j.role}
                    [] OTHER             -> Now \cup {j.role}]

EndJob(j) == userJobs' = userJobs \ {j} /\ UNCHANGED <<selected, sent>>

\* invalidateQueries of the lists of the organizations in ts.
DirtyUsers(ts) ==
    users' = [t \in Orgs |-> IF t \in ts
                             THEN Invalidated(users[t], t = selected, held'[t])
                             ELSE users[t]]

\* onSuccess of the invitation: the dialog is closed and reset, whoever it is
\* for by now.
InviteSent(j) ==
    /\ j.op = "invite" /\ Effect(j)
    /\ invite' = [open |-> FALSE, tenant |-> selected, of |-> None]
    /\ DirtyUsers({invite.tenant, selected})
    /\ staleUsers' = staleUsers \cup ({j.tenant} \ {invite.tenant, selected})
    /\ staleRoles' = staleRoles \cup {<<j.tenant, j.member>>}
    /\ EndJob(j)
    /\ UNCHANGED <<assignments, roleDialog, removeTarget>>

\* onSuccess of the removal; neither touches the assignments.
UserRemoved(j) ==
    /\ j.op = "remove" /\ Effect(j)
    /\ DirtyUsers({selected})
    /\ staleUsers' = staleUsers \cup ({j.tenant} \ {selected})
    /\ staleRoles' = staleRoles \cup {<<j.tenant, j.member>>}
    /\ EndJob(j)
    /\ UNCHANGED <<assignments, userDialogs>>

\* onSuccess of both changes of a role: the query of the dialog's target, if it
\* has one, which is fetched again at once if the dialog is open.
Here == {<<selected, roleDialog.target>>}

DirtyRoles ==
    assignments' = IF roleDialog.target = None THEN assignments
                   ELSE [assignments EXCEPT ![<<selected, roleDialog.target>>] =
                            Invalidated(@, roleDialog.open,
                                        held'[selected][roleDialog.target])]

\* Broken variant: only the table is invalidated.
RoleChangedQuietly(j) ==
    /\ j.op \in {"assign", "unassign"} /\ Effect(j)
    /\ roleDialog' = IF j.op = "assign" THEN [roleDialog EXCEPT !.of = None]
                                        ELSE roleDialog
    /\ UNCHANGED assignments
    /\ DirtyUsers({selected})
    /\ staleUsers' = staleUsers \cup ({j.tenant} \ {selected})
    /\ staleRoles' = staleRoles \cup ({<<j.tenant, j.member>>} \ Here)
    /\ EndJob(j)
    /\ UNCHANGED <<invite, removeTarget>>

\* Broken variant: only the dialog is invalidated.
RoleChangedTableKept(j) ==
    /\ j.op \in {"assign", "unassign"} /\ Effect(j)
    /\ roleDialog' = IF j.op = "assign" THEN [roleDialog EXCEPT !.of = None]
                                        ELSE roleDialog
    /\ DirtyRoles
    /\ UNCHANGED <<users, staleUsers>>
    /\ staleRoles' = staleRoles \cup ({<<j.tenant, j.member>>} \ Here)
    /\ EndJob(j)
    /\ UNCHANGED <<invite, removeTarget>>

RoleChanged(j) ==
    /\ j.op \in {"assign", "unassign"} /\ Effect(j)
    /\ roleDialog' = IF j.op = "assign" THEN [roleDialog EXCEPT !.of = None]
                                        ELSE roleDialog
    /\ DirtyRoles
    /\ DirtyUsers({selected})
    /\ staleUsers' = staleUsers \cup ({j.tenant} \ {selected})
    /\ staleRoles' = staleRoles \cup ({<<j.tenant, j.member>>} \ Here)
    /\ EndJob(j)
    /\ UNCHANGED <<invite, removeTarget>>

\* Refused, or never sent: only a message.
UserJobFailed(j) ==
    /\ EndJob(j)
    /\ UNCHANGED <<held, users, assignments, userDialogs, userPast>>

\* The API did it, and its answer is lost.
UserJobUnheard(j) ==
    /\ Effect(j)
    /\ staleUsers' = staleUsers \cup {j.tenant}
    /\ staleRoles' = staleRoles \cup {<<j.tenant, j.member>>}
    /\ EndJob(j)
    /\ UNCHANGED <<users, assignments, userDialogs>>
-----------------------------------------------------------------------------
UsersNext ==
    \/ \E t \in Orgs : SelectUsersOrg(t) \/ UsersFetched(t) \/ ChooseTenant(t)
    \/ \E k \in Orgs \X Members : RolesFetched(k)
    \/ \E open \in BOOLEAN : OpenInvite(open)
    \/ ChooseRole \/ CloseRoles \/ HideRoles \/ ChooseAssignment
    \/ ConfirmRemove \/ AssignRole \/ AskRemove(None)
    \/ \E m \in Members : OpenRoles(m) \/ AskRemove(m) \/ SendInvite(m)
    \/ \E r \in Roles : RemoveRole(r)
    \/ \E j \in userJobs : \/ InviteSent(j) \/ UserRemoved(j) \/ RoleChanged(j)
                           \/ UserJobFailed(j) \/ UserJobUnheard(j)

UsersSpec == UsersInit /\ [][UsersNext]_userVars
-----------------------------------------------------------------------------
\* The role that a request grants is one of the organization it grants it in,
\* however often the organization was changed in the dialog or behind it.
RoleOfOrganization == \A j \in userJobs : j.of = j.tenant

\* The table shows the members of the selected organization and their roles,
\* unless an answer was lost, or came when neither the organization selected by
\* then nor the one in the invite dialog was the one that changed, or a fetch is
\* under way, or failed, or was not repeated.
UsersAreListed ==
    selected \notin staleUsers /\ Trusted(users[selected]) =>
        users[selected].data = {held[selected]}

\* The role dialog shows the roles its member holds, unless an answer was lost,
\* or came when the dialog had been closed or was somebody else's, or the member
\* was invited or removed since the dialog was first opened.
RolesAreListed ==
    LET k == <<selected, roleDialog.target>> IN
    roleDialog.open /\ k \notin staleRoles /\ Trusted(assignments[k]) =>
        assignments[k].data = {held[selected][roleDialog.target]}
=============================================================================
