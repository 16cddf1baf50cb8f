-------------------------- MODULE PlatformAccounts --------------------------
(***************************************************************************)
(* The pages /platform/users and /platform/users/[userId]: the list of all *)
(* accounts, with a switch and a confirmation of a deletion, and the page  *)
(* of one account, with its status, the platform role and the roles of     *)
(* organizations it holds, and a dialog for each change.                   *)
(*                                                                         *)
(* The two pages read two cached queries and change what both show.  What  *)
(* a page keeps is lost when it is left, but a request goes on, and its    *)
(* success handler runs on whichever page is mounted by then: it           *)
(* invalidates, and after a deletion on an account's page it goes to the   *)
(* list.                                                                   *)
(*                                                                         *)
(* There is one platform role, Staff, and one role in each organization,   *)
(* so that a role is named by its organization; "SUSPENDED" stands for     *)
(* every status but ACTIVE.                                                *)
(***************************************************************************)
EXTENDS Naturals, QueryCache

CONSTANTS Accounts, Hosts, Staff, NoOne,
          MaxCalls          \* bound: how many requests a behaviour starts

ASSUME PlatformAssumption ==
    /\ NoOne \notin Accounts \cup Hosts \cup {Staff} /\ Staff \notin Hosts
    /\ MaxCalls \in Nat

VARIABLES
    accounts,       \* at the API: per account its status and the roles it holds
    everyone,       \* the query allUsers
    details,        \* per account the query platformUser
    visited,        \* whose page is mounted; that of NoOne is the list
    box,            \* the dialog that is open, and what it asks to remove
    picks,          \* selectedPlatformRoleId, selectedTenantId, and of which
                    \* organization selectedTenantRoleId is
    calls,          \* requests in flight; here: their page is still mounted
    called,         \* how many there were
    \* History, read by no action: accounts, and the list as NoOne, changed and
    \* not invalidated since
    outdated

platformVars ==
    <<accounts, everyone, details, visited, box, picks, calls, called, outdated>>

Standing   == {"ACTIVE", "SUSPENDED"}
Grants     == Hosts \cup {Staff}
AccountRow == [status : Standing \cup {"GONE"}, roles : SUBSET Grants]
Rosters    == [Accounts -> Standing \cup {"GONE"}]
CallOps    == {"status", "delete", "assign", "revoke"}
Calls      == [no : Nat, op : CallOps, page : BOOLEAN, here : BOOLEAN,
               account : Accounts, status : Standing, role : Grants, of : Grants]

NoBox   == [kind |-> "none", of |-> NoOne]
NoPicks == [staff |-> FALSE, host |-> NoOne, of |-> NoOne]
Roster  == [a \in Accounts |-> accounts[a].status]

PlatformTypeOK ==
    /\ accounts \in [Accounts -> AccountRow]
    /\ everyone \in Query(Rosters)
    /\ details \in [Accounts -> Query(AccountRow)]
    /\ visited \in Accounts \cup {NoOne}
    /\ box \in [kind : {"none", "delete", "staff", "host", "revoke"},
                of : Accounts \cup Grants \cup {NoOne}]
    /\ picks \in [staff : BOOLEAN, host : Hosts \cup {NoOne},
                  of : Hosts \cup {NoOne}]
    /\ calls \subseteq Calls /\ called \in 0 .. MaxCalls
    /\ outdated \subseteq Accounts \cup {NoOne}
    /\ box.kind = "delete" => box.of \in Accounts
    /\ box.kind = "revoke" => box.of \in Grants
    /\ box.kind \in {"staff", "host", "revoke"} => visited \in Accounts

PlatformInit ==
    /\ accounts = [a \in Accounts |-> [status |-> "ACTIVE", roles |-> {Staff}]]
    /\ everyone = Holding(Roster)
    /\ details = [a \in Accounts |-> NewQuery]
    /\ visited = NoOne /\ box = NoBox /\ picks = NoPicks
    /\ calls = {} /\ called = 0 /\ outdated = {}
-----------------------------------------------------------------------------
EveryoneFetched ==
    /\ Fetching(everyone)
    /\ everyone' \in {Answered(everyone), Failed(everyone)}
    /\ UNCHANGED <<accounts, details, visited, box, picks, calls, called,
                   outdated>>

\* An account that is gone is answered with an error.
DetailsFetched(a) ==
    /\ Fetching(details[a])
    /\ \/ details' = [details EXCEPT ![a] = Failed(@)]
       \/ /\ \A r \in details[a].get : r.status # "GONE"
          /\ details' = [details EXCEPT ![a] = Answered(@)]
    /\ UNCHANGED <<accounts, everyone, visited, box, picks, calls, called,
                   outdated>>

\* What the pages show: the rows of the list, and the account.
Listed(a) == \E r \in everyone.data : r[a] # "GONE"
Displayed == UNION {details[visited].data : v \in {visited} \cap Accounts}

\* A page is left for p's: what it kept is lost, and its requests go on.
Elsewhere(cs) == {[c EXCEPT !.here = FALSE] : c \in cs}

Goes(p, cs) ==
    /\ visited' = p /\ box' = NoBox /\ picks' = NoPicks
    /\ calls' = Elsewhere(cs)

\* A row of the list, or View Details.
OpenAccount(a) ==
    /\ visited = NoOne /\ box = NoBox /\ Listed(a)
    /\ Goes(a, calls)
    /\ details' = [details EXCEPT ![a] = Observed(@, accounts[a])]
    /\ UNCHANGED <<accounts, everyone, called, outdated>>

\* The arrow, or the browser's own button, which a dialog does not cover.
BackToUsers ==
    /\ visited # NoOne
    /\ Goes(NoOne, calls)
    /\ everyone' = Observed(everyone, Roster)
    /\ UNCHANGED <<accounts, details, called, outdated>>
-----------------------------------------------------------------------------
OpenBox(kind, of) ==
    /\ box = NoBox /\ box' = [kind |-> kind, of |-> of]
    /\ UNCHANGED <<accounts, everyone, details, visited, picks, calls, called,
                   outdated>>

\* On the list, and on the account's page.
AskDeleteAccount(a) ==
    /\ IF visited = NoOne THEN Listed(a) ELSE visited = a /\ Displayed # {}
    /\ OpenBox("delete", a)

OpenAssign(kind) == Displayed # {} /\ OpenBox(kind, NoOne)

AskRevoke(g) ==
    /\ \E r \in Displayed : g \in r.roles
    /\ OpenBox("revoke", g)

\* Cancel, Escape, or a click outside: what was picked stays.
CloseBox ==
    /\ box # NoBox /\ box' = NoBox
    /\ UNCHANGED <<accounts, everyone, details, visited, picks, calls, called,
                   outdated>>

Pick(p) ==
    /\ picks # p /\ picks' = p
    /\ UNCHANGED <<accounts, everyone, details, visited, box, calls, called,
                   outdated>>

PickStaff ==
    /\ box.kind = "staff" /\ \E r \in Displayed : Staff \notin r.roles
    /\ Pick([picks EXCEPT !.staff = TRUE])

\* Broken variant: the role stays picked.
PickHostKeepsRole(h) ==
    /\ box.kind = "host"
    /\ Pick([picks EXCEPT !.host = h])

PickHost(h) ==
    /\ box.kind = "host"
    /\ Pick([picks EXCEPT !.host = h, !.of = NoOne])

\* One of availableTenantRoles.
PickRole ==
    /\ box.kind = "host" /\ picks.host # NoOne
    /\ \E r \in Displayed : picks.host \notin r.roles
    /\ Pick([picks EXCEPT !.of = picks.host])
-----------------------------------------------------------------------------
Underway(ops) == \E c \in calls : c.here /\ c.op \in ops

Request(op, a, s, g, of) ==
    /\ called < MaxCalls /\ called' = called + 1
    /\ calls' = calls \cup
          {[no |-> called, op |-> op, page |-> visited # NoOne, here |-> TRUE,
            account |-> a, status |-> s, role |-> g, of |-> of]}
    /\ UNCHANGED <<accounts, everyone, details, visited, picks, outdated>>

\* The switch of a row, and the menu of the page: not disabled while another
\* change of the status is under way.
SetStatus(a, s) ==
    /\ box = NoBox
    /\ IF visited = NoOne
       THEN \E r \in everyone.data : r[a] \in Standing \ {s}
       ELSE visited = a /\ \E r \in Displayed : r.status # s
    /\ Request("status", a, s, Staff, Staff)
    /\ UNCHANGED box

\* The list closes its confirmation at once; the page leaves it open.
DeleteAccount ==
    /\ box.kind = "delete" /\ ~Underway({"delete"})
    /\ Request("delete", box.of, "ACTIVE", Staff, Staff)
    /\ box' = IF visited = NoOne THEN NoBox ELSE box

\* The two dialogs have a mutation each, as have the two kinds of removal, whose
\* button waits for both.
AssignStaff ==
    /\ box.kind = "staff" /\ picks.staff
    /\ \A c \in calls : c.here /\ c.op = "assign" => c.role # Staff
    /\ Request("assign", visited, "ACTIVE", Staff, Staff)
    /\ UNCHANGED box

AssignHost ==
    /\ box.kind = "host" /\ picks.host # NoOne /\ picks.of # NoOne
    /\ \A c \in calls : c.here /\ c.op = "assign" => c.role = Staff
    /\ Request("assign", visited, "ACTIVE", picks.host, picks.of)
    /\ UNCHANGED box

RevokeRole ==
    /\ box.kind = "revoke" /\ ~Underway({"revoke"})
    /\ Request("revoke", visited, "ACTIVE", box.of, box.of)
    /\ UNCHANGED box
-----------------------------------------------------------------------------
\* What the API makes of it: an account that is gone is not found, nor is a role
\* that is not held; a role of another organization is refused.
Carried(c) ==
    LET Now == accounts[c.account] IN
    /\ Now.status # "GONE" /\ c.of = c.role
    /\ c.op = "revoke" => c.role \in Now.roles
    /\ accounts' = [accounts EXCEPT ![c.account] =
          CASE c.op = "status" -> [Now EXCEPT !.status = c.status]
            [] c.op = "delete" -> [status |-> "GONE", roles |-> {}]
            [] c.op = "assign" -> [Now EXCEPT !.roles = @ \cup {c.role}]
            [] c.op = "revoke" -> [Now EXCEPT !.roles = @ \ {c.role}]]

RefreshList == everyone' = Invalidated(everyone, visited = NoOne, Roster')

RefreshAccount(a) ==
    details' = [details EXCEPT ![a] = Invalidated(@, visited = a, accounts'[a])]

\* Which of the two queries show what a request changes.
Touched(c) ==
    {c.account} \cup IF c.op \in {"status", "delete"} THEN {NoOne} ELSE {}

\* Both changes on the list invalidate the list only.
ListChanged(c) ==
    /\ ~c.page /\ Carried(c)
    /\ RefreshList
    /\ outdated' = (outdated \ {NoOne}) \cup {c.account}
    /\ calls' = calls \ {c}
    /\ UNCHANGED <<details, visited, box, picks, called>>

\* Broken variant: the list keeps the status it had.
StatusChangedHere(c) ==
    /\ c.page /\ c.op = "status" /\ Carried(c)
    /\ RefreshAccount(c.account)
    /\ outdated' = outdated \ {c.account, NoOne}
    /\ calls' = calls \ {c}
    /\ UNCHANGED <<everyone, visited, box, picks, called>>

StatusChanged(c) ==
    /\ c.page /\ c.op = "status" /\ Carried(c)
    /\ RefreshAccount(c.account) /\ RefreshList
    /\ outdated' = outdated \ {c.account, NoOne}
    /\ calls' = calls \ {c}
    /\ UNCHANGED <<visited, box, picks, called>>

\* The page of an account that was deleted on it is left for the list, and so is
\* the page of another that was opened meanwhile; nothing is invalidated.
AccountDeleted(c) ==
    /\ c.page /\ c.op = "delete" /\ Carried(c)
    /\ IF visited = NoOne
       THEN calls' = calls \ {c} /\ UNCHANGED <<everyone, visited, box, picks>>
       ELSE Goes(NoOne, calls \ {c}) /\ everyone' = Observed(everyone, Roster')
    /\ outdated' = outdated \cup Touched(c)
    /\ UNCHANGED <<details, called>>

\* The dialog in which it was asked is closed, and emptied, if its page is still
\* there, whatever it has been opened for since.
Dialog(c) == IF c.op = "revoke" THEN "revoke"
             ELSE IF c.role = Staff THEN "staff" ELSE "host"

\* Broken variant: the account keeps the roles it had.
RolesChangedQuietly(c) ==
    /\ c.page /\ c.op \in {"assign", "revoke"} /\ Carried(c)
    /\ outdated' = outdated \ {c.account}
    /\ calls' = calls \ {c}
    /\ UNCHANGED <<everyone, details, visited, box, picks, called>>

RolesChanged(c) ==
    /\ c.page /\ c.op \in {"assign", "revoke"} /\ Carried(c)
    /\ RefreshAccount(c.account)
    /\ outdated' = outdated \ {c.account}
    /\ box' = IF c.here /\ box.kind = Dialog(c) THEN NoBox ELSE box
    /\ picks' = IF ~c.here THEN picks
                ELSE CASE Dialog(c) = "revoke" -> picks
                       [] Dialog(c) = "staff"  -> [picks EXCEPT !.staff = FALSE]
                       [] Dialog(c) = "host"   -> [picks EXCEPT !.host = NoOne,
                                                             !.of = NoOne]
    /\ calls' = calls \ {c}
    /\ UNCHANGED <<everyone, visited, called>>

\* Refused, or never sent: only a message.
CallFailed(c) ==
    /\ calls' = calls \ {c}
    /\ UNCHANGED <<accounts, everyone, details, visited, box, picks, called,
                   outdated>>

\* The API did it, and its answer is lost.
CallUnheard(c) ==
    /\ Carried(c)
    /\ outdated' = outdated \cup Touched(c)
    /\ calls' = calls \ {c}
    /\ UNCHANGED <<everyone, details, visited, box, picks, called>>
-----------------------------------------------------------------------------
PlatformNext ==
    \/ EveryoneFetched \/ BackToUsers \/ CloseBox
    \/ PickStaff \/ PickRole
    \/ DeleteAccount \/ AssignStaff \/ AssignHost \/ RevokeRole
    \/ \E kind \in {"staff", "host"} : OpenAssign(kind)
    \/ \E h \in Hosts \cup {NoOne} : PickHost(h)
    \/ \E g \in Grants : AskRevoke(g)
    \/ \E a \in Accounts : \/ DetailsFetched(a) \/ OpenAccount(a)
                           \/ AskDeleteAccount(a)
                           \/ \E s \in Standing : SetStatus(a, s)
    \/ \E c \in calls : \/ ListChanged(c) \/ StatusChanged(c)
                        \/ AccountDeleted(c) \/ RolesChanged(c)
                        \/ CallFailed(c) \/ CallUnheard(c)

PlatformSpec == PlatformInit /\ [][PlatformNext]_platformVars
-----------------------------------------------------------------------------
\* The role that a request grants is one of the organization it grants it in,
\* however often another was picked, the dialog closed or an answer came late.
RoleOfHost == \A c \in calls : c.of = c.role

\* The list shows every account with its status, unless one was deleted on its
\* own page or an answer was lost since the list was last invalidated, or a fetch
\* is under way, or failed, or was not repeated.
AccountsAreListed ==
    visited = NoOne /\ NoOne \notin outdated /\ Trusted(everyone) =>
        everyone.data = {Roster}

\* The page of an account shows its status and its roles, unless it was changed on
\* the list or an answer was lost since the page's query was last invalidated, or
\* a fetch is under way, or failed, or was not repeated.
AccountIsShown ==
    \A a \in Accounts \ outdated :
        visited = a /\ Trusted(details[a]) => details[a].data = {accounts[a]}
=============================================================================
