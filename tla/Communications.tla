--------------------------- MODULE Communications ---------------------------
(***************************************************************************)
(* One section of the page /tenant/communications: the e-mail or the SMS   *)
(* configurations of the selected organization, of which one is active.    *)
(* The two sections run the same code on different fields.                 *)
(*                                                                         *)
(* Add and Edit share one form.  A dialog can be closed while its request  *)
(* is in flight, and whatever is open when the answer comes is what the    *)
(* success handler closes and resets.  No dialog has a control for         *)
(* set_active: Add sends true, Edit what the row said when it was opened.  *)
(*                                                                         *)
(* A request is a transaction at the API that reads, writes and commits in *)
(* steps of their own.  It sees what is committed, and takes no lock that  *)
(* keeps another one from activating another row.                          *)
(***************************************************************************)
EXTENDS Naturals, QueryCache

CONSTANTS Tenants, Items, NoItem,
          MaxRequests   \* bound: how many requests a behaviour starts

ASSUME CommAssumption == NoItem \notin Items /\ MaxRequests \in Nat

VARIABLES
    configs,        \* at the API: per organization its rows, and the active ones
    listed,         \* per organization the query of its configurations
    org,            \* activeTenantId
    panel,          \* the dialog that is open
    editingItem,    \* of the edit dialog
    formData,       \* whose settings the form holds, and its set_active
    testingItem,    \* of the test dialog
    deleteTarget,   \* of the confirmation
    commJobs,       \* requests in flight
    started,        \* how many there were
    transactions,   \* at the API: those of the requests in flight
    \* History, read by no action
    strayed,        \* organizations changed and not invalidated, or not heard of
    unsent,         \* an update was announced that was not sent
    crossed         \* organizations of which two rows were activated at once

dialogs  == <<panel, editingItem, formData, testingItem, deleteTarget>>
commPast == <<strayed, unsent>>
tx       == <<transactions, crossed>>
commVars == <<configs, listed, org, dialogs, commJobs, started, tx, commPast>>

MaybeItem  == Items \cup {NoItem}
ConfigRows == [ids : SUBSET Items, on : SUBSET Items]
CommOps    == {"create", "update", "activate", "test", "delete"}
CommJobs   == [op : CommOps, tenant : Tenants, item : MaybeItem,
               of : MaybeItem, on : BOOLEAN]
EmptyForm  == [of |-> NoItem, on |-> TRUE]

\* was: of its row, is_active as it was read; of a new row, that there was none.
\* on, off: the is_active it writes, to its own row and to rows of others.
Transactions == [job : CommJobs, was : BOOLEAN, written : BOOLEAN,
                 on : BOOLEAN, off : SUBSET Items]

CommTypeOK ==
    /\ configs \in [Tenants -> ConfigRows]
    /\ listed \in [Tenants -> Query(ConfigRows)]
    /\ org \in Tenants
    /\ panel \in {"none", "create", "edit", "test", "delete"}
    /\ {editingItem, testingItem, deleteTarget} \subseteq MaybeItem
    /\ formData \in [of : MaybeItem, on : BOOLEAN]
    /\ commJobs \subseteq CommJobs
    /\ started \in 0 .. MaxRequests
    /\ transactions \subseteq Transactions
    /\ \A x \in transactions : x.job \in commJobs
    /\ \A x, y \in transactions : x.job = y.job => x = y
    /\ strayed \subseteq Tenants /\ unsent \in BOOLEAN /\ crossed \subseteq Tenants
    /\ \A j, k \in commJobs : j.op = k.op => j = k
    /\ formData.of = editingItem

CommInit ==
    /\ configs \in [Tenants -> {[ids |-> s, on |-> a] : s, a \in SUBSET Items}]
    /\ \A t \in Tenants : /\ configs[t].on \subseteq configs[t].ids
                          /\ \A i, k \in configs[t].on : i = k
                          /\ \A u \in Tenants \ {t} :
                                configs[t].ids \cap configs[u].ids = {}
    /\ org \in Tenants
    /\ listed = [t \in Tenants |-> IF t = org THEN Holding(configs[t])
                                              ELSE NewQuery]
    /\ panel = "none" /\ editingItem = NoItem /\ formData = EmptyForm
    /\ testingItem = NoItem /\ deleteTarget = NoItem
    /\ commJobs = {} /\ started = 0 /\ transactions = {}
    /\ strayed = {} /\ unsent = FALSE /\ crossed = {}
-----------------------------------------------------------------------------
\* The dialogs are modal: the selector is out of reach while one is open.
SelectOrg(t) ==
    /\ panel = "none" /\ org # t
    /\ org' = t
    /\ listed' = [listed EXCEPT ![t] = Observed(@, configs[t])]
    /\ UNCHANGED <<configs, dialogs, commJobs, started, tx, commPast>>

ConfigsFetched(t) ==
    /\ Fetching(listed[t])
    /\ \E q \in {Answered(listed[t]), Failed(listed[t])} :
          listed' = [listed EXCEPT ![t] = q]
    /\ UNCHANGED <<configs, org, dialogs, commJobs, started, tx, commPast>>

\* The rows that are shown, with their buttons.
Shown == IF Loaded(listed[org]) THEN CHOOSE r \in listed[org].data : TRUE
                                ELSE [ids |-> {}, on |-> {}]
Pending(op) == \E j \in commJobs : j.op = op

OpenPanel(p) ==
    /\ panel = "none" /\ panel' = p
    /\ UNCHANGED <<configs, listed, org, commJobs, started, tx, commPast>>

OpenCreate ==
    /\ OpenPanel("create")
    /\ UNCHANGED <<editingItem, formData, testingItem, deleteTarget>>

OpenEditItem(i) ==
    /\ i \in Shown.ids /\ OpenPanel("edit")
    /\ editingItem' = i /\ formData' = [of |-> i, on |-> i \in Shown.on]
    /\ UNCHANGED <<testingItem, deleteTarget>>

OpenTest(i) ==
    /\ i \in Shown.ids /\ OpenPanel("test")
    /\ testingItem' = i
    /\ UNCHANGED <<editingItem, formData, deleteTarget>>

AskDelete(i) ==
    /\ i \in Shown.ids /\ ~Pending("delete") /\ OpenPanel("delete")
    /\ deleteTarget' = i
    /\ UNCHANGED <<editingItem, formData, testingItem>>

ResetForm == editingItem' = NoItem /\ formData' = EmptyForm

\* Broken variant: the form keeps what it holds.
ClosePanelKeepsForm ==
    /\ panel # "none" /\ panel' = "none"
    /\ UNCHANGED <<editingItem, formData>>
    /\ testingItem' = NoItem /\ deleteTarget' = NoItem
    /\ UNCHANGED <<configs, listed, org, commJobs, started, tx, commPast>>

\* onOpenChange(false) of each dialog.
ClosePanel ==
    /\ panel # "none" /\ panel' = "none"
    /\ IF panel \in {"create", "edit"} THEN ResetForm
                                       ELSE UNCHANGED <<editingItem, formData>>
    /\ testingItem' = NoItem /\ deleteTarget' = NoItem
    /\ UNCHANGED <<configs, listed, org, commJobs, started, tx, commPast>>
-----------------------------------------------------------------------------
Post(op, i, of, on) ==
    /\ ~Pending(op) /\ started < MaxRequests
    /\ started' = started + 1
    /\ commJobs' = commJobs \cup {[op |-> op, tenant |-> org, item |-> i,
                                   of |-> of, on |-> on]}
    /\ UNCHANGED <<configs, listed, org, tx, commPast>>

SubmitCreate ==
    /\ panel = "create"
    /\ Post("create", NoItem, formData.of, formData.on)
    /\ UNCHANGED dialogs

SubmitUpdate ==
    /\ panel = "edit" /\ editingItem # NoItem
    /\ Post("update", editingItem, formData.of, formData.on)
    /\ UNCHANGED dialogs

SetActive(i) ==
    /\ panel = "none" /\ i \in Shown.ids \ Shown.on
    /\ Post("activate", i, NoItem, TRUE)
    /\ UNCHANGED dialogs

SubmitTest ==
    /\ panel = "test" /\ testingItem # NoItem
    /\ Post("test", testingItem, NoItem, FALSE)
    /\ UNCHANGED dialogs

ConfirmDelete ==
    /\ panel = "delete"
    /\ Post("delete", deleteTarget, NoItem, FALSE)
    /\ panel' = "none" /\ deleteTarget' = NoItem
    /\ UNCHANGED <<editingItem, formData, testingItem>>
-----------------------------------------------------------------------------
\* The handler reads the row of the request, which it refuses when it is gone, or
\* for a new row whether there is any.
Begin(j) ==
    /\ j.op # "test" /\ \A x \in transactions : x.job # j
    /\ j.op = "create" \/ j.item \in configs[j.tenant].ids
    /\ transactions' = transactions \cup
          {[job |-> j, written |-> FALSE, on |-> FALSE, off |-> {},
            was |-> IF j.op = "create" THEN configs[j.tenant].ids = {}
                                       ELSE j.item \in configs[j.tenant].on]}
    /\ UNCHANGED <<configs, listed, org, dialogs, commJobs, started, commPast,
                   crossed>>

Activates(x) == x.job.on \/ (x.job.op = "create" /\ x.was)

\* Broken variant: the other rows stay as they are.
TurnsOffOwn(x, rows) == {i \in {x.job.item} : x.was /\ ~Activates(x)}

\* deactivate_other_email_configs: the other rows that are active by then.
TurnsOff(x, rows) == IF Activates(x) THEN rows.on \ {x.job.item}
                                     ELSE {i \in {x.job.item} : x.was}

\* The statements before the commit.  A row that was read active is not activated
\* again, whatever became of it since.
Write(x) ==
    /\ ~x.written /\ x.job.op # "delete"
    /\ x.job.op = "create" \/ x.job.item \in configs[x.job.tenant].ids
    /\ LET y == [x EXCEPT
                   !.written = TRUE,
                   !.on  = Activates(x) /\ (x.job.op = "create" \/ ~x.was),
                   !.off = TurnsOff(x, configs[x.job.tenant])]
       IN  /\ transactions' = (transactions \ {x}) \cup {y}
           /\ crossed' = crossed \cup
                 {t \in {x.job.tenant} :
                     y.on /\ \E z \in transactions : z.on /\ z.job.tenant = t}
    /\ UNCHANGED <<configs, listed, org, dialogs, commJobs, started, commPast>>

\* What is committed to the rows of the organization, i being the row that was
\* added or saved; a row that is gone by now is refused.
Committed(rows, x, i) ==
    [ids |-> rows.ids \cup {i},
     on  |-> (rows.on \ x.off) \cup {k \in {i} : x.on}]

Deleted(rows, i) == [ids |-> rows.ids \ {i}, on |-> rows.on \ {i}]

Unused == Items \ UNION {configs[t].ids : t \in Tenants}

\* The commit, with the answer.
Applied(j) ==
    \E x \in transactions :
        /\ x.job = j
        /\ \/ /\ j.op = "create" /\ x.written
              /\ \E n \in Unused :
                    configs' = [configs EXCEPT ![j.tenant] = Committed(@, x, n)]
           \/ /\ j.op \in {"update", "activate"} /\ x.written
              /\ j.item \in configs[j.tenant].ids
              /\ configs' = [configs EXCEPT ![j.tenant] = Committed(@, x, j.item)]
           \/ /\ j.op = "delete"
              /\ configs' = [configs EXCEPT ![j.tenant] = Deleted(@, j.item)]

Finish(j) ==
    /\ commJobs' = commJobs \ {j}
    /\ transactions' = {x \in transactions : x.job # j}
    /\ UNCHANGED <<org, started, crossed>>

\* The closures of the handlers are those of the latest render: the list that is
\* invalidated is that of the organization selected by now.
InvalidateConfigs ==
    listed' = [listed EXCEPT ![org] = Invalidated(@, TRUE, configs'[org])]
Strays(t) == strayed' = IF t = org THEN strayed ELSE strayed \cup {t}

\* Broken variant: the list is not invalidated.
ConfigSavedQuietly(j) ==
    /\ j.op \in {"create", "update"} /\ Applied(j)
    /\ panel' = IF panel = (IF j.op = "create" THEN "create" ELSE "edit")
                THEN "none" ELSE panel
    /\ ResetForm
    /\ Finish(j)
    /\ UNCHANGED <<listed, testingItem, deleteTarget, commPast>>

\* onSuccess of Add and of Edit: that dialog is closed, the form they share is
\* reset, whatever they are used for by now.
ConfigSaved(j) ==
    /\ j.op \in {"create", "update"} /\ Applied(j)
    /\ panel' = IF panel = (IF j.op = "create" THEN "create" ELSE "edit")
                THEN "none" ELSE panel
    /\ ResetForm
    /\ InvalidateConfigs /\ Strays(j.tenant)
    /\ Finish(j)
    /\ UNCHANGED <<testingItem, deleteTarget, unsent>>

\* Update when there is no editingItem any more: the mutation returns without a
\* request, and that is a success.
UpdateOfNothing ==
    /\ panel = "edit" /\ editingItem = NoItem /\ ~Pending("update")
    /\ panel' = "none" /\ ResetForm
    /\ UNCHANGED configs
    /\ InvalidateConfigs
    /\ unsent' = TRUE
    /\ UNCHANGED <<org, testingItem, deleteTarget, commJobs, started, tx, strayed>>

\* onSuccess of Set active and of Delete.
RowChanged(j) ==
    /\ j.op \in {"activate", "delete"} /\ Applied(j)
    /\ InvalidateConfigs /\ Strays(j.tenant)
    /\ Finish(j)
    /\ UNCHANGED <<dialogs, unsent>>

\* A test that was sent closes the test dialog, whichever row it is for by now.
TestSent(j) ==
    /\ j.op = "test" /\ j.item \in configs[j.tenant].ids
    /\ panel' = IF panel = "test" THEN "none" ELSE panel
    /\ testingItem' = NoItem
    /\ Finish(j)
    /\ UNCHANGED <<configs, listed, editingItem, formData, deleteTarget,
                   commPast>>

\* Refused, or never sent: only a message.
ConfigRefused(j) ==
    /\ Finish(j)
    /\ UNCHANGED <<configs, listed, dialogs, commPast>>

\* The API did it, and its answer is lost.
ConfigUnheard(j) ==
    /\ Applied(j)
    /\ strayed' = strayed \cup {j.tenant}
    /\ Finish(j)
    /\ UNCHANGED <<listed, dialogs, unsent>>
-----------------------------------------------------------------------------
CommNext ==
    \/ \E t \in Tenants : SelectOrg(t) \/ ConfigsFetched(t)
    \/ \E i \in Items : \/ OpenEditItem(i) \/ OpenTest(i) \/ AskDelete(i)
                        \/ SetActive(i)
    \/ OpenCreate \/ ClosePanel
    \/ SubmitCreate \/ SubmitUpdate \/ UpdateOfNothing \/ SubmitTest
    \/ ConfirmDelete
    \/ \E x \in transactions : Write(x)
    \/ \E j \in commJobs : \/ Begin(j)
                           \/ ConfigSaved(j) \/ RowChanged(j) \/ TestSent(j)
                           \/ ConfigRefused(j) \/ ConfigUnheard(j)

CommSpec == CommInit /\ [][CommNext]_commVars
-----------------------------------------------------------------------------
\* At most one configuration of an organization is active, and it is one of its
\* own, whatever was added, saved, activated and deleted, and however the
\* transactions overlapped: unless two of them activated a row each.
OneActive ==
    \A t \in Tenants :
        /\ configs[t].on \subseteq configs[t].ids
        /\ t \notin crossed => \A i, k \in configs[t].on : i = k

\* What does not hold: get_active_by_tenant_id expects one row at most
\* (email_config_repo.py:29).  Two transactions that overlap do not see the row the
\* other one activates.
ActiveIsUnique == \A t \in Tenants : \A i, k \in configs[t].on : i = k

\* What is saved for a row is what was typed for that row, and a new row is
\* never made of the settings of another, though both use one form that the
\* success of an earlier request may reset at any moment.
FormOfItem ==
    \A j \in commJobs :
        /\ j.op = "update" => j.of = j.item
        /\ j.op = "create" => j.of = NoItem

\* The section lists the configurations the API has and marks the active one,
\* unless the answer was lost or came when another organization was selected,
\* or a fetch is under way, or failed, or was not repeated.
ConfigsAreListed ==
    org \notin strayed /\ Trusted(listed[org]) =>
        listed[org].data = {configs[org]}

\* "Email configuration updated" follows an update.
UpdateWasSent == ~unsent
=============================================================================
