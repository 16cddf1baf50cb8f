-------------------------- MODULE ListPages_proofs --------------------------
(***************************************************************************)
(* What holds of the pages that list rows of the API for every number of   *)
(* organizations, rows and requests.  The lists are current because each   *)
(* cached query is sound (QueryCache_proofs) for what the API has, as long *)
(* as the organization is not one whose change went unheard of.            *)
(***************************************************************************)
EXTENDS ListPages, QueryCache_proofs

-----------------------------------------------------------------------------
(* /tenant/communications *)

\* The form and its item are idle unless the edit dialog is open.
FormIdle == panel # "edit" => editingItem = NoItem

ListsSound == \A t \in Tenants \ strayed : Sound(listed[t], configs[t])

LEMMA EmptyFormType ==
    /\ EmptyForm \in [of : MaybeItem, on : BOOLEAN]
    /\ EmptyForm.of = NoItem /\ NoItem \in MaybeItem
BY DEF EmptyForm, MaybeItem

LEMMA CommTypeInit == CommInit => CommTypeOK
<1>. SUFFICES ASSUME CommInit PROVE CommTypeOK
  OBVIOUS
<1>1. configs \in [Tenants -> ConfigRows]
  BY DEF CommInit, ConfigRows
<1>2. \A t \in Tenants : configs[t] \in ConfigRows
  BY <1>1
<1>3. listed \in [Tenants -> Query(ConfigRows)]
  BY <1>2, NewSound DEF CommInit
<1>4. formData \in [of : MaybeItem, on : BOOLEAN] /\ formData.of = editingItem
  BY DEF CommInit, EmptyForm, MaybeItem
<1>5. {editingItem, testingItem, deleteTarget} \subseteq MaybeItem
  BY DEF CommInit, MaybeItem
<1>6. /\ commJobs \subseteq CommJobs /\ started \in 0 .. MaxRequests
      /\ \A j, k \in commJobs : j.op = k.op => j = k
  BY CommAssumption DEF CommInit
<1>7. /\ org \in Tenants /\ panel = "none" /\ strayed \subseteq Tenants
      /\ transactions = {} /\ crossed \subseteq Tenants
  BY DEF CommInit
<1>8. unsent \in BOOLEAN
  BY Zenon DEF CommInit
<1>. QED
  BY <1>1, <1>3, <1>4, <1>5, <1>6, <1>7, <1>8 DEF CommTypeOK

\* A commit turns the rows of its organization on and off, or takes one of them
\* away; no other organization is touched.
LEMMA AppliedRows ==
    ASSUME CommTypeOK, NEW j \in commJobs, Applied(j)
    PROVE  /\ configs' \in [Tenants -> ConfigRows]
           /\ \A t \in Tenants \ {j.tenant} : configs'[t] = configs[t]
           /\ \E x \in transactions :
                /\ x.job = j
                /\ \/ configs'[j.tenant] = Deleted(configs[j.tenant], j.item)
                   \/ \E i \in Items :
                        /\ configs'[j.tenant] = Committed(configs[j.tenant], x, i)
                        /\ j.op # "create" => i = j.item
<1>. USE DEF CommTypeOK
<1>1. j \in CommJobs /\ j.tenant \in Tenants /\ j.op \in CommOps
  BY DEF CommJobs
<1>2. configs[j.tenant] \in ConfigRows
  BY <1>1
<1>3. PICK x \in transactions :
          /\ x.job = j
          /\ \/ \E n \in Unused :
                   /\ j.op = "create"
                   /\ configs' = [configs EXCEPT ![j.tenant] =
                                     Committed(configs[j.tenant], x, n)]
             \/ /\ j.op # "create" /\ j.item \in configs[j.tenant].ids
                /\ configs' = [configs EXCEPT ![j.tenant] =
                                  Committed(configs[j.tenant], x, j.item)]
             \/ configs' = [configs EXCEPT ![j.tenant] =
                               Deleted(configs[j.tenant], j.item)]
  BY Zenon DEF Applied
<1>4. ASSUME NEW i \in Items PROVE Committed(configs[j.tenant], x, i) \in ConfigRows
  BY <1>2 DEF Committed, ConfigRows, Transactions
<1>5. Deleted(configs[j.tenant], j.item) \in ConfigRows
  BY <1>2 DEF Deleted, ConfigRows
<1>6. j.item \in configs[j.tenant].ids => j.item \in Items
  BY <1>2 DEF ConfigRows
<1>7. Unused \subseteq Items
  BY DEF Unused
<1>. QED
  BY <1>1, <1>3, <1>4, <1>5, <1>6, <1>7

\* What a transaction has read or written is of its type.
LEMMA BegunType ==
    ASSUME CommTypeOK, NEW j \in commJobs, Begin(j)
    PROVE  CommTypeOK'
<1>. DEFINE b == [job |-> j, written |-> FALSE, on |-> FALSE, off |-> {},
                  was |-> IF j.op = "create" THEN configs[j.tenant].ids = {}
                                             ELSE j.item \in configs[j.tenant].on]
<1>1. b \in Transactions /\ b.job = j
  <2>. DEFINE was == IF j.op = "create" THEN configs[j.tenant].ids = {}
                                        ELSE j.item \in configs[j.tenant].on
  <2>1. was \in BOOLEAN
    <3>1. CASE j.op = "create"
      BY <3>1, Zenon
    <3>2. CASE j.op # "create"
      <4>1. (j.item \in configs[j.tenant].on) \in BOOLEAN
        OBVIOUS
      <4>2. was = (j.item \in configs[j.tenant].on)
        BY <3>2
      <4>. QED
        BY <4>1, <4>2, Zenon
    <3>. QED
      BY <3>1, <3>2, Zenon
  <2>. HIDE DEF was
  <2>2. j \in CommJobs /\ {} \in SUBSET Items /\ FALSE \in BOOLEAN
    BY DEF CommTypeOK
  <2>3. [job |-> j, written |-> FALSE, on |-> FALSE, off |-> {}, was |-> was]
            \in Transactions
    BY <2>1, <2>2 DEF Transactions
  <2>. QED
    BY <2>3 DEF was
<1>2. transactions' = transactions \cup {b} /\ \A x \in transactions : x.job # j
  BY DEF Begin
<1>. HIDE DEF b
<1>3. UNCHANGED <<configs, listed, org, dialogs, commJobs, started, commPast, crossed>>
  BY DEF Begin
<1>4. /\ transactions' \subseteq Transactions
      /\ \A x \in transactions' : x.job \in commJobs
      /\ \A x, y \in transactions' : x.job = y.job => x = y
  BY <1>1, <1>2 DEF CommTypeOK
<1>. QED
  BY <1>3, <1>4 DEF CommTypeOK, dialogs, commPast

\* The transaction as it is after its statements.
Turned(x) ==
    [x EXCEPT !.written = TRUE,
              !.on  = Activates(x) /\ (x.job.op = "create" \/ ~x.was),
              !.off = TurnsOff(x, configs[x.job.tenant])]

LEMMA TurnedType ==
    ASSUME CommTypeOK, NEW x \in transactions, Write(x)
    PROVE  /\ Turned(x) \in Transactions /\ Turned(x).job = x.job
           /\ Turned(x).written
           /\ Turned(x).on => Turned(x).off = configs[x.job.tenant].on \ {x.job.item}
           /\ transactions' = (transactions \ {x}) \cup {Turned(x)}
           /\ crossed \subseteq crossed'
           /\ crossed' \subseteq crossed \cup {x.job.tenant}
           /\ Turned(x).on /\ x.job.tenant \notin crossed' =>
                 \A z \in transactions : z.on => z.job.tenant # x.job.tenant
           /\ UNCHANGED <<configs, listed, org, dialogs, commJobs, started, commPast>>
<1>1. /\ x \in Transactions /\ x.job \in CommJobs /\ x.job.tenant \in Tenants
      /\ x.job.op \in CommOps /\ x.was \in BOOLEAN /\ x.job.on \in BOOLEAN
  BY DEF CommTypeOK, Transactions, CommJobs
<1>2. configs[x.job.tenant].on \subseteq Items
  BY <1>1 DEF CommTypeOK, ConfigRows
<1>3. TurnsOff(x, configs[x.job.tenant]) \subseteq Items
  <2>1. x.job.op # "create" => x.job.item \in Items
    BY <1>1, CommAssumption DEF Write, CommTypeOK, ConfigRows
  <2>2. x.job.op = "create" /\ x.was => Activates(x)
    BY DEF Activates
  <2>. QED
    BY <1>2, <2>1, <2>2 DEF TurnsOff
<1>4. (Activates(x) /\ (x.job.op = "create" \/ ~x.was)) \in BOOLEAN
  BY <1>1 DEF Activates
<1>5. /\ Turned(x) \in Transactions /\ Turned(x).job = x.job /\ Turned(x).written
      /\ Turned(x).off = TurnsOff(x, configs[x.job.tenant])
      /\ Turned(x).on => Activates(x)
  BY <1>1, <1>3, <1>4 DEF Turned, Transactions
<1>6. Turned(x).on => Turned(x).off = configs[x.job.tenant].on \ {x.job.item}
  BY <1>5 DEF TurnsOff
<1>7. /\ transactions' = (transactions \ {x}) \cup {Turned(x)}
      /\ crossed' = crossed \cup
            {t \in {x.job.tenant} :
                Turned(x).on /\ \E z \in transactions : z.on /\ z.job.tenant = t}
      /\ UNCHANGED <<configs, listed, org, dialogs, commJobs, started, commPast>>
  BY DEF Write, Turned
<1>. QED
  BY <1>5, <1>6, <1>7

LEMMA WrittenType ==
    ASSUME CommTypeOK, NEW x \in transactions, Write(x)
    PROVE  CommTypeOK'
<1>1. x.job \in commJobs /\ x.job.tenant \in Tenants
  BY DEF CommTypeOK, CommJobs
<1>2. /\ transactions' \subseteq Transactions
      /\ \A y \in transactions' : y.job \in commJobs
      /\ \A y, z \in transactions' : y.job = z.job => y = z
      /\ crossed' \subseteq Tenants
  BY <1>1, TurnedType DEF CommTypeOK
<1>3. UNCHANGED <<configs, listed, org, dialogs, commJobs, started, commPast>>
  BY TurnedType
<1>. QED
  BY <1>2, <1>3 DEF CommTypeOK, dialogs, commPast

LEMMA InvalidateType ==
    ASSUME CommTypeOK, configs' \in [Tenants -> ConfigRows], InvalidateConfigs
    PROVE  listed' \in [Tenants -> Query(ConfigRows)]
<1>. Invalidated(listed[org], TRUE, configs'[org]) \in Query(ConfigRows)
  BY InvalidatedSound DEF CommTypeOK
<1>. QED
  BY DEF InvalidateConfigs, CommTypeOK

\* What a request leaves of the type.
LEMMA PostType ==
    ASSUME CommTypeOK, NEW op \in CommOps, NEW i \in MaybeItem,
           NEW of \in MaybeItem, NEW on \in BOOLEAN, Post(op, i, of, on)
    PROVE  /\ commJobs' \subseteq CommJobs
           /\ \A j, k \in commJobs' : j.op = k.op => j = k
           /\ started' \in 0 .. MaxRequests
           /\ UNCHANGED <<configs, listed, org, strayed, unsent, transactions,
                          crossed>>
           /\ \A x \in transactions : x.job \in commJobs'
BY CommAssumption DEF CommTypeOK, Post, Pending, CommJobs, commPast, tx

LEMMA CommTypeStep == CommTypeOK /\ [CommNext]_commVars => CommTypeOK'
<1>. SUFFICES ASSUME CommTypeOK, [CommNext]_commVars PROVE CommTypeOK'
  OBVIOUS
<1>. USE CommAssumption DEF CommTypeOK, dialogs, commPast, tx
<1>1. ASSUME NEW t \in Tenants, SelectOrg(t) PROVE CommTypeOK'
  <2>. Observed(listed[t], configs[t]) \in Query(ConfigRows)
    BY QueryType
  <2>. QED
    BY <1>1 DEF SelectOrg
<1>2. ASSUME NEW t \in Tenants, ConfigsFetched(t) PROVE CommTypeOK'
  <2>. /\ Answered(listed[t]) \in Query(ConfigRows)
       /\ Failed(listed[t]) \in Query(ConfigRows)
    <3>. PICK now : now \in ConfigRows
      BY <1>2
    <3>. QED
      BY QueryType
  <2>. QED
    BY <1>2 DEF ConfigsFetched
<1>3. ASSUME NEW i \in Items, OpenEditItem(i) PROVE CommTypeOK'
  BY <1>3 DEF OpenEditItem, OpenPanel, MaybeItem
<1>4. ASSUME NEW i \in Items, OpenTest(i) \/ AskDelete(i) PROVE CommTypeOK'
  BY <1>4 DEF OpenTest, AskDelete, OpenPanel, MaybeItem
<1>5. CASE OpenCreate
  BY <1>5 DEF OpenCreate, OpenPanel
<1>6. CASE ClosePanel
  <2>1. /\ formData' \in [of : MaybeItem, on : BOOLEAN]
        /\ formData'.of = editingItem' /\ editingItem' \in MaybeItem
    <3>1. CASE panel \in {"create", "edit"}
      <4>1. formData' = EmptyForm /\ editingItem' = NoItem
        BY <1>6, <3>1 DEF ClosePanel, ResetForm
      <4>. QED
        BY <4>1, EmptyFormType
    <3>2. CASE panel \notin {"create", "edit"}
      BY <1>6, <3>2 DEF ClosePanel
    <3>. QED
      BY <3>1, <3>2
  <2>. QED
    BY <1>6, <2>1 DEF ClosePanel, MaybeItem
<1>7. /\ formData.of \in MaybeItem /\ formData.on \in BOOLEAN
      /\ {editingItem, testingItem, deleteTarget, NoItem} \subseteq MaybeItem
  BY DEF MaybeItem
<1>8. CASE SubmitCreate
  BY <1>7, <1>8, PostType DEF SubmitCreate, CommOps
<1>9. CASE SubmitUpdate
  BY <1>7, <1>9, PostType DEF SubmitUpdate, CommOps
<1>10. ASSUME NEW i \in Items, SetActive(i) PROVE CommTypeOK'
  BY <1>7, <1>10, PostType DEF SetActive, CommOps, MaybeItem
<1>11. CASE SubmitTest
  BY <1>7, <1>11, PostType DEF SubmitTest, CommOps
<1>12. CASE ConfirmDelete
  BY <1>7, <1>12, PostType DEF ConfirmDelete, CommOps
<1>13. CASE UpdateOfNothing
  BY <1>13, InvalidateType DEF UpdateOfNothing, ResetForm, EmptyForm, MaybeItem
<1>14. ASSUME NEW j \in commJobs,
              \/ ConfigSaved(j) \/ RowChanged(j) \/ TestSent(j)
              \/ ConfigRefused(j) \/ ConfigUnheard(j)
       PROVE  CommTypeOK'
  <2>0. /\ j.tenant \in Tenants /\ commJobs \ {j} \subseteq CommJobs
        /\ \A x \in transactions : x.job # j => x.job \in commJobs \ {j}
    BY DEF CommJobs
  <2>1. CASE ConfigSaved(j)
    BY <2>0, <2>1, AppliedRows, InvalidateType
    DEF ConfigSaved, ResetForm, EmptyForm, MaybeItem, Finish, Strays
  <2>2. CASE RowChanged(j)
    BY <2>0, <2>2, AppliedRows, InvalidateType DEF RowChanged, Finish, Strays
  <2>3. CASE TestSent(j)
    BY <2>0, <2>3 DEF TestSent, Finish, MaybeItem
  <2>4. CASE ConfigRefused(j)
    BY <2>0, <2>4 DEF ConfigRefused, Finish
  <2>5. CASE ConfigUnheard(j)
    BY <2>0, <2>5, AppliedRows DEF ConfigUnheard, Finish
  <2>. QED
    BY <1>14, <2>1, <2>2, <2>3, <2>4, <2>5
<1>15. CASE UNCHANGED commVars
  BY <1>15 DEF commVars
<1>. QED
  BY <1>1, <1>2, <1>3, <1>4, <1>5, <1>6, <1>8, <1>9, <1>10, <1>11, <1>12,
     <1>13, <1>14, <1>15, BegunType, WrittenType DEF CommNext

\* Every variable of the page keeps its type, no two requests of one kind are
\* under way, and the form names the item of the edit dialog.
THEOREM CommTypeCorrect == CommSpec => []CommTypeOK
<1>. QED
  BY CommTypeInit, CommTypeStep, PTL DEF CommSpec

\* A new row has no name in the request that adds it.
NewUnnamed == \A j \in commJobs : j.op = "create" => j.item = NoItem

\* Unless two transactions of an organization activated a row each, at most one
\* has activated a row, and has turned off what is active beside it.
AloneActivates ==
    \A x \in transactions :
        x.on => /\ x.written
                /\ x.job.tenant \notin crossed =>
                     /\ configs[x.job.tenant].on \ x.off \subseteq {x.job.item}
                     /\ \A y \in transactions :
                           y.on /\ y.job.tenant = x.job.tenant => y = x

OneInv == NewUnnamed /\ AloneActivates /\ OneActive

\* A commit leaves at most one row active, and activates none unless its
\* transaction did.
LEMMA CommitKeepsOne ==
    ASSUME CommTypeOK, OneInv, NEW j \in commJobs, Applied(j), crossed' = crossed
    PROVE  /\ OneActive'
           /\ \A x \in transactions :
                 x.on /\ x.job.tenant \notin crossed /\ x.job # j =>
                     configs'[x.job.tenant].on \subseteq configs[x.job.tenant].on
<1>. USE DEF OneInv
<1>1. j.tenant \in Tenants /\ configs[j.tenant] \in ConfigRows
  BY DEF CommTypeOK, CommJobs
<1>2. PICK x \in transactions :
          /\ x.job = j
          /\ \/ configs'[j.tenant] = Deleted(configs[j.tenant], j.item)
             \/ \E i \in Items :
                  /\ configs'[j.tenant] = Committed(configs[j.tenant], x, i)
                  /\ j.op # "create" => i = j.item
  BY AppliedRows
<1>3. \A t \in Tenants \ {j.tenant} : configs'[t] = configs[t]
  BY AppliedRows
<1>4. configs[j.tenant].on \subseteq configs[j.tenant].ids
  BY <1>1 DEF OneActive
<1>5. /\ configs'[j.tenant].on \subseteq configs'[j.tenant].ids
      /\ ~x.on => configs'[j.tenant].on \subseteq configs[j.tenant].on
  <2>1. CASE configs'[j.tenant] = Deleted(configs[j.tenant], j.item)
    BY <1>4, <2>1 DEF Deleted
  <2>2. ASSUME NEW i \in Items,
               configs'[j.tenant] = Committed(configs[j.tenant], x, i)
        PROVE  /\ configs'[j.tenant].on \subseteq configs'[j.tenant].ids
               /\ ~x.on => configs'[j.tenant].on \subseteq configs[j.tenant].on
    <3>. DEFINE own == {k \in {i} : x.on}
    <3>1. own \subseteq {i} /\ (~x.on => own = {})
      OBVIOUS
    <3>2. /\ configs'[j.tenant].ids = configs[j.tenant].ids \cup {i}
          /\ configs'[j.tenant].on = (configs[j.tenant].on \ x.off) \cup own
      BY <2>2 DEF Committed
    <3>. HIDE DEF own
    <3>. QED
      BY <1>4, <3>1, <3>2
  <2>. QED
    BY <1>2, <2>1, <2>2
<1>6. ASSUME x.on, j.tenant \notin crossed
      PROVE  \A i, k \in configs'[j.tenant].on : i = k
  <2>1. configs[j.tenant].on \ x.off \subseteq {j.item}
    BY <1>2, <1>6 DEF AloneActivates
  <2>2. CASE configs'[j.tenant] = Deleted(configs[j.tenant], j.item)
    BY <1>1, <1>6, <2>2 DEF Deleted, OneActive
  <2>3. ASSUME NEW i \in Items,
               configs'[j.tenant] = Committed(configs[j.tenant], x, i),
               j.op # "create" => i = j.item
        PROVE  \A k, l \in configs'[j.tenant].on : k = l
    <3>1. configs'[j.tenant].on \subseteq (configs[j.tenant].on \ x.off) \cup {i}
      BY <2>3 DEF Committed
    <3>2. configs[j.tenant].on \subseteq Items
      BY <1>1 DEF ConfigRows
    <3>3. j.op = "create" => configs[j.tenant].on \ x.off = {}
      BY <2>1, <3>2, CommAssumption DEF NewUnnamed
    <3>. QED
      BY <2>1, <2>3, <3>1, <3>3
  <2>. QED
    BY <1>2, <2>2, <2>3
<1>7. OneActive'
  <2>1. j.tenant \notin crossed => \A i, k \in configs'[j.tenant].on : i = k
    BY <1>1, <1>5, <1>6 DEF OneActive
  <2>. QED
    BY <1>1, <1>3, <1>5, <2>1 DEF OneActive
<1>8. ASSUME NEW y \in transactions, y.on, y.job.tenant \notin crossed, y.job # j
      PROVE  configs'[y.job.tenant].on \subseteq configs[y.job.tenant].on
  <2>1. y.job.tenant \in Tenants
    BY DEF CommTypeOK, CommJobs
  <2>2. CASE y.job.tenant = j.tenant
    <3>. ~x.on
      BY <1>2, <1>8, <2>2 DEF AloneActivates
    <3>. QED
      BY <1>5, <2>2
  <2>. QED
    BY <1>3, <2>1, <2>2
<1>. QED
  BY <1>7, <1>8

LEMMA OneActiveStep == CommTypeOK /\ OneInv /\ [CommNext]_commVars => OneInv'
<1>. SUFFICES ASSUME CommTypeOK, OneInv, [CommNext]_commVars PROVE OneInv'
  OBVIOUS
<1>. USE DEF OneInv
<1>1. ASSUME NEW j \in commJobs, Begin(j) PROVE OneInv'
  <2>1. /\ UNCHANGED <<configs, commJobs, crossed>>
        /\ \A x \in transactions' : x \in transactions \/ ~x.on
        /\ transactions \subseteq transactions'
    BY <1>1 DEF Begin
  <2>. QED
    BY <2>1 DEF NewUnnamed, AloneActivates, OneActive
<1>2. ASSUME NEW x \in transactions, Write(x) PROVE OneInv'
  <2>1. NewUnnamed' /\ OneActive'
    BY <1>2, TurnedType DEF NewUnnamed, OneActive
  <2>2. AloneActivates'
    <3>. SUFFICES ASSUME NEW y \in transactions', y.on
                  PROVE  /\ y.written
                         /\ y.job.tenant \notin crossed' =>
                              /\ configs[y.job.tenant].on \ y.off \subseteq {y.job.item}
                              /\ \A z \in transactions' :
                                    z.on /\ z.job.tenant = y.job.tenant => z = y
      BY <1>2, TurnedType DEF AloneActivates
    <3>1. CASE y = Turned(x)
      BY <1>2, <3>1, TurnedType
    <3>2. CASE y \in transactions \ {x}
      BY <1>2, <3>2, TurnedType DEF AloneActivates
    <3>. QED
      BY <1>2, <3>1, <3>2, TurnedType
  <2>. QED
    BY <2>1, <2>2
<1>3. ASSUME NEW j \in commJobs, Applied(j), Finish(j) PROVE OneInv'
  <2>1. /\ crossed' = crossed /\ commJobs' = commJobs \ {j}
        /\ transactions' = {x \in transactions : x.job # j}
    BY <1>3 DEF Finish
  <2>2. OneActive' /\ NewUnnamed'
    BY <1>3, <2>1, CommitKeepsOne DEF NewUnnamed
  <2>3. AloneActivates'
    BY <1>3, <2>1, CommitKeepsOne DEF AloneActivates
  <2>. QED
    BY <2>2, <2>3
<1>4. ASSUME NEW j \in commJobs, Finish(j), UNCHANGED configs PROVE OneInv'
  BY <1>4 DEF Finish, NewUnnamed, AloneActivates, OneActive
<1>5. ASSUME NEW op \in CommOps, NEW i, NEW of, NEW on, Post(op, i, of, on),
             op = "create" => i = NoItem
      PROVE  OneInv'
  BY <1>5 DEF Post, tx, NewUnnamed, AloneActivates, OneActive
<1>6. CASE SubmitCreate \/ SubmitUpdate \/ SubmitTest \/ ConfirmDelete
  BY <1>5, <1>6
  DEF SubmitCreate, SubmitUpdate, SubmitTest, ConfirmDelete, CommOps
<1>7. ASSUME NEW i \in Items, SetActive(i) PROVE OneInv'
  BY <1>5, <1>7 DEF SetActive, CommOps
<1>8. CASE UNCHANGED <<configs, commJobs, tx>>
  BY <1>8 DEF tx, NewUnnamed, AloneActivates, OneActive
<1>9. ASSUME NEW j \in commJobs,
             \/ ConfigSaved(j) \/ RowChanged(j) \/ TestSent(j)
             \/ ConfigRefused(j) \/ ConfigUnheard(j)
      PROVE  OneInv'
  BY <1>3, <1>4, <1>9
  DEF ConfigSaved, RowChanged, TestSent, ConfigRefused, ConfigUnheard
<1>. QED
  BY <1>1, <1>2, <1>6, <1>7, <1>8, <1>9
  DEF CommNext, SelectOrg, ConfigsFetched, OpenEditItem, OpenTest, AskDelete,
      OpenPanel, OpenCreate, ClosePanel, UpdateOfNothing, commVars

\* At most one configuration of an organization is active, and it is one of its
\* own, unless two transactions activated a row each: a transaction that is alone
\* in that turns off what is active beside its own row.
THEOREM ActiveIsOne == CommSpec => []OneActive
<1>1. CommInit => OneInv
  BY DEF CommInit, OneInv, NewUnnamed, AloneActivates, OneActive
<1>2. CommSpec => []OneInv
  BY <1>1, CommTypeCorrect, OneActiveStep, PTL DEF CommSpec
<1>3. OneInv => OneActive
  BY DEF OneInv
<1>. QED
  BY <1>2, <1>3, PTL

LEMMA FormStep ==
    CommTypeOK /\ FormIdle /\ FormOfItem /\ [CommNext]_commVars
        => FormIdle' /\ FormOfItem'
<1>. SUFFICES ASSUME CommTypeOK, FormIdle, FormOfItem, [CommNext]_commVars
              PROVE  FormIdle' /\ FormOfItem'
  OBVIOUS
<1>. USE DEF FormIdle, FormOfItem, dialogs
<1>1. formData.of = editingItem
  BY DEF CommTypeOK
<1>2. CASE SubmitCreate
  BY <1>1, <1>2 DEF SubmitCreate, Post
<1>3. CASE SubmitUpdate
  BY <1>1, <1>3 DEF SubmitUpdate, Post
<1>4. ASSUME NEW i \in Items, SetActive(i) PROVE FormIdle' /\ FormOfItem'
  BY <1>4 DEF SetActive, Post
<1>5. CASE SubmitTest
  BY <1>5 DEF SubmitTest, Post
<1>6. CASE ConfirmDelete
  BY <1>6 DEF ConfirmDelete, Post
<1>7. ASSUME UNCHANGED commJobs \/ \E j \in commJobs : commJobs' = commJobs \ {j},
             FormIdle'
      PROVE  FormIdle' /\ FormOfItem'
  BY <1>7
<1>8. ASSUME NEW t \in Tenants, SelectOrg(t) \/ ConfigsFetched(t)
      PROVE  FormIdle' /\ FormOfItem'
  BY <1>8 DEF SelectOrg, ConfigsFetched
<1>9. ASSUME NEW i \in Items, OpenEditItem(i) \/ OpenTest(i) \/ AskDelete(i)
      PROVE  FormIdle' /\ FormOfItem'
  BY <1>9 DEF OpenEditItem, OpenTest, AskDelete, OpenPanel
<1>10. CASE OpenCreate \/ ClosePanel \/ UpdateOfNothing
  BY <1>10 DEF OpenCreate, OpenPanel, ClosePanel, UpdateOfNothing, ResetForm
<1>11. ASSUME NEW j \in commJobs,
              \/ ConfigSaved(j) \/ RowChanged(j) \/ TestSent(j)
              \/ ConfigRefused(j) \/ ConfigUnheard(j)
       PROVE  FormIdle' /\ FormOfItem'
  BY <1>11 DEF ConfigSaved, RowChanged, TestSent, ConfigRefused, ConfigUnheard,
               Finish, ResetForm
<1>12. CASE UNCHANGED commVars
  BY <1>12 DEF commVars
<1>13. ASSUME NEW j \in commJobs, Begin(j) PROVE FormIdle' /\ FormOfItem'
  BY <1>13 DEF Begin
<1>14. ASSUME NEW x \in transactions, Write(x) PROVE FormIdle' /\ FormOfItem'
  BY <1>14 DEF Write
<1>. QED
  BY <1>2, <1>3, <1>4, <1>5, <1>6, <1>8, <1>9, <1>10, <1>11, <1>12, <1>13, <1>14
  DEF CommNext

\* What is saved for a row was typed for it, although one form serves both
\* dialogs: it names no item unless the edit dialog is open.
THEOREM SavedForItsRow == CommSpec => []FormOfItem
<1>1. CommInit => FormIdle /\ FormOfItem
  BY DEF CommInit, FormIdle, FormOfItem
<1>. QED
  BY <1>1, CommTypeCorrect, FormStep, PTL DEF CommSpec

LEMMA ListsStep ==
    CommTypeOK /\ ListsSound /\ [CommNext]_commVars => ListsSound'
<1>. SUFFICES ASSUME CommTypeOK, ListsSound, [CommNext]_commVars
              PROVE  ListsSound'
  OBVIOUS
<1>. USE DEF ListsSound
<1>0. \A t \in Tenants : configs[t] \in ConfigRows /\ listed[t] \in Query(ConfigRows)
  BY DEF CommTypeOK
<1>1. ASSUME NEW t \in Tenants, SelectOrg(t) PROVE ListsSound'
  <2>1. t \notin strayed => Sound(Observed(listed[t], configs[t]), configs[t])
    BY <1>0, ObservedSound
  <2>. QED
    BY <1>1, <2>1 DEF SelectOrg, CommTypeOK, commPast
<1>2. ASSUME NEW t \in Tenants, ConfigsFetched(t) PROVE ListsSound'
  <2>1. t \notin strayed => /\ Sound(Answered(listed[t]), configs[t])
                            /\ Sound(Failed(listed[t]), configs[t])
    BY <1>0, <1>2, FetchedSound DEF ConfigsFetched
  <2>. QED
    BY <1>2, <2>1 DEF ConfigsFetched, CommTypeOK, commPast
<1>3. ASSUME configs' \in [Tenants -> ConfigRows], InvalidateConfigs,
             \A t \in Tenants \ {org} : t \notin strayed' =>
                 t \notin strayed /\ configs'[t] = configs[t]
      PROVE  ListsSound'
  <2>1. Sound(Invalidated(listed[org], TRUE, configs'[org]), configs'[org])
    BY <1>0, <1>3, InvalidatedSound DEF CommTypeOK
  <2>. QED
    BY <1>3, <2>1 DEF InvalidateConfigs, CommTypeOK
<1>4. ASSUME NEW j \in commJobs, Applied(j)
      PROVE  \A t \in Tenants \ {j.tenant} : configs'[t] = configs[t]
  BY <1>4, AppliedRows
<1>5. CASE UpdateOfNothing
  BY <1>3, <1>5 DEF UpdateOfNothing, CommTypeOK
<1>6. ASSUME NEW j \in commJobs, ConfigSaved(j) \/ RowChanged(j)
      PROVE  ListsSound'
  BY <1>3, <1>4, <1>6, AppliedRows DEF ConfigSaved, RowChanged, Strays
<1>7. ASSUME NEW j \in commJobs, ConfigUnheard(j) PROVE ListsSound'
  BY <1>4, <1>7 DEF ConfigUnheard
<1>8. CASE UNCHANGED <<configs, listed, strayed>>
  BY <1>8
<1>. QED
  BY <1>1, <1>2, <1>5, <1>6, <1>7, <1>8
  DEF CommNext, OpenEditItem, OpenTest, AskDelete, SetActive, OpenPanel,
      OpenCreate, ClosePanel, SubmitCreate, SubmitUpdate, SubmitTest,
      ConfirmDelete, Post, Begin, Write, TestSent, ConfigRefused, commVars,
      commPast

\* What the section lists is what the API has: each list is sound as long as its
\* organization was not changed unheard of.
THEOREM ConfigsListed == CommSpec => []ConfigsAreListed
<1>1. CommInit => ListsSound
  <2>. SUFFICES ASSUME CommInit, NEW t \in Tenants
                PROVE  Sound(listed[t], configs[t])
    BY DEF ListsSound
  <2>1. configs[t] \in ConfigRows
    BY CommTypeInit DEF CommTypeOK
  <2>2. listed[t] \in {Holding(configs[t]), NewQuery}
    BY DEF CommInit
  <2>. QED
    BY <2>1, <2>2, NewSound
<1>2. CommTypeOK /\ ListsSound => ConfigsAreListed
  BY DEF CommTypeOK, ListsSound, ConfigsAreListed, Sound
<1>. QED
  BY <1>1, <1>2, CommTypeCorrect, ListsStep, PTL DEF CommSpec
-----------------------------------------------------------------------------
(* /tenant/social *)

\* The form of the open dialog was filled from the provider that it edits.
FormFilled == window = "edit" => editForm = editingProvider

CardsSound == \A t \in Owners \ astray : Sound(providers[t], social[t])

LEMMA SocialTypeInit == SocialInit => SocialTypeOK
<1>. SUFFICES ASSUME SocialInit PROVE SocialTypeOK
  OBVIOUS
<1>1. social \in [Owners -> SocialRows]
  BY DEF SocialInit, SocialRows
<1>2. \A t \in Owners : social[t] \in SocialRows
  BY <1>1
<1>3. providers \in [Owners -> Query(SocialRows)]
  BY <1>2, NewSound DEF SocialInit
<1>4. PICK t \in Owners : holder = t
  BY DEF SocialInit
<1>5. newProvider \in Providers
  BY SocialAssumption DEF SocialInit, Chosen
<1>. QED
  BY <1>1, <1>3, <1>4, <1>5, SocialAssumption
  DEF SocialInit, SocialTypeOK, MaybeProvider

\* What the API makes of a request is rows of the organization that was asked.
LEMMA PerformedRows ==
    ASSUME SocialTypeOK, NEW j \in socialJobs, Performed(j)
    PROVE  /\ social' \in [Owners -> SocialRows] /\ j.tenant \in Owners
           /\ \A t \in Owners \ {j.tenant} : social'[t] = social[t]
<1>1. /\ j.tenant \in Owners /\ j.provider \in Providers
      /\ social[j.tenant] \in SocialRows
  BY DEF SocialTypeOK, SocialJobs
<1>2. PICK rows \in SocialRows : social' = [social EXCEPT ![j.tenant] = rows]
  BY <1>1 DEF Performed, SocialRows
<1>. QED
  BY <1>1, <1>2 DEF SocialTypeOK

LEMMA RefreshType ==
    ASSUME SocialTypeOK, social' \in [Owners -> SocialRows], RefreshProviders
    PROVE  providers' \in [Owners -> Query(SocialRows)]
<1>. Invalidated(providers[holder], TRUE, social'[holder]) \in Query(SocialRows)
  BY InvalidatedSound DEF SocialTypeOK
<1>. QED
  BY DEF RefreshProviders, SocialTypeOK

\* What a request leaves of the type.
LEMMA CallType ==
    ASSUME SocialTypeOK, NEW op \in SocialOps, NEW p \in Providers,
           NEW of \in MaybeProvider, NEW on \in BOOLEAN, Call(op, p, of, on)
    PROVE  socialJobs' \subseteq SocialJobs /\ tries' \in 0 .. MaxSocialRequests
BY SocialAssumption DEF SocialTypeOK, Call, SocialJobs

LEMMA SocialTypeStep == SocialTypeOK /\ [SocialNext]_socialVars => SocialTypeOK'
<1>. SUFFICES ASSUME SocialTypeOK, [SocialNext]_socialVars PROVE SocialTypeOK'
  OBVIOUS
<1>. USE SocialAssumption DEF SocialTypeOK, windows
<1>1. ASSUME NEW t \in Owners, SelectOwner(t) PROVE SocialTypeOK'
  <2>. Observed(providers[t], social[t]) \in Query(SocialRows)
    BY QueryType
  <2>. QED
    BY <1>1 DEF SelectOwner
<1>2. ASSUME NEW t \in Owners, ProvidersFetched(t) PROVE SocialTypeOK'
  <2>. /\ Answered(providers[t]) \in Query(SocialRows)
       /\ Failed(providers[t]) \in Query(SocialRows)
    <3>. social[t] \in SocialRows
      OBVIOUS
    <3>. QED
      BY QueryType
  <2>. QED
    BY <1>2 DEF ProvidersFetched
<1>3. CASE OpenAdd
  BY <1>3 DEF OpenAdd, OpenWindow
<1>4. ASSUME NEW p \in Providers, ChooseProvider(p) PROVE SocialTypeOK'
  BY <1>4 DEF ChooseProvider
<1>5. ASSUME NEW p \in Providers, OpenEditDialog(p) \/ AskDeleteProvider(p)
      PROVE  SocialTypeOK'
  BY <1>5 DEF OpenEditDialog, AskDeleteProvider, OpenWindow, MaybeProvider
<1>6. CASE CloseWindow
  BY <1>6 DEF CloseWindow, MaybeProvider
<1>7. {editingProvider, editForm, doomed, NoProvider} \subseteq MaybeProvider
  BY DEF MaybeProvider
<1>8. CASE AddProvider
  BY <1>7, <1>8, CallType DEF AddProvider, SocialOps, Call
<1>9. CASE SaveProvider
  <2>. editingProvider \in Providers
    BY <1>9 DEF SaveProvider, MaybeProvider
  <2>. QED
    BY <1>7, <1>9, CallType DEF SaveProvider, SocialOps, Call
<1>10. ASSUME NEW p \in Providers, ToggleProvider(p) PROVE SocialTypeOK'
  <2>. (p \notin Cards.on) \in BOOLEAN
    OBVIOUS
  <2>. QED
    BY <1>7, <1>10, CallType DEF ToggleProvider, SocialOps, Call
<1>11. CASE DeleteProvider
  <2>. doomed \in Providers
    BY <1>11 DEF DeleteProvider, MaybeProvider
  <2>. QED
    BY <1>7, <1>11, CallType DEF DeleteProvider, SocialOps, Call
<1>12. ASSUME NEW j \in socialJobs,
              ProviderDone(j) \/ ProviderRefused(j) \/ ProviderUnheard(j)
       PROVE  SocialTypeOK'
  <2>1. CASE ProviderDone(j)
    <3>1. Chosen \in Providers
      BY DEF Chosen
    <3>. QED
      BY <1>7, <2>1, <3>1, PerformedRows, RefreshType DEF ProviderDone, Leave
  <2>2. CASE ProviderRefused(j)
    BY <2>2 DEF ProviderRefused, Leave
  <2>3. CASE ProviderUnheard(j)
    BY <2>3, PerformedRows DEF ProviderUnheard, Leave
  <2>. QED
    BY <1>12, <2>1, <2>2, <2>3
<1>13. CASE UNCHANGED socialVars
  BY <1>13 DEF socialVars
<1>. QED
  BY <1>1, <1>2, <1>3, <1>4, <1>5, <1>6, <1>8, <1>9, <1>10, <1>11, <1>12,
     <1>13 DEF SocialNext

\* Every variable of the page keeps its type, and a dialog that edits or deletes
\* has a provider.
THEOREM SocialTypeCorrect == SocialSpec => []SocialTypeOK
<1>. QED
  BY SocialTypeInit, SocialTypeStep, PTL DEF SocialSpec

LEMMA FilledStep ==
    FormFilled /\ FormOfProvider /\ [SocialNext]_socialVars
        => FormFilled' /\ FormOfProvider'
<1>. SUFFICES ASSUME FormFilled, FormOfProvider, [SocialNext]_socialVars
              PROVE  FormFilled' /\ FormOfProvider'
  OBVIOUS
<1>. USE DEF FormFilled, FormOfProvider, windows
<1>1. ASSUME NEW t \in Owners, SelectOwner(t) \/ ProvidersFetched(t)
      PROVE  FormFilled' /\ FormOfProvider'
  BY <1>1 DEF SelectOwner, ProvidersFetched
<1>2. CASE OpenAdd \/ CloseWindow
  BY <1>2 DEF OpenAdd, OpenWindow, CloseWindow
<1>3. ASSUME NEW p \in Providers,
             ChooseProvider(p) \/ OpenEditDialog(p) \/ AskDeleteProvider(p)
      PROVE  FormFilled' /\ FormOfProvider'
  BY <1>3 DEF ChooseProvider, OpenEditDialog, AskDeleteProvider, OpenWindow
<1>4. CASE AddProvider
  BY <1>4 DEF AddProvider, Call
<1>5. CASE SaveProvider
  BY <1>5 DEF SaveProvider, Call
<1>6. ASSUME NEW p \in Providers, ToggleProvider(p)
      PROVE  FormFilled' /\ FormOfProvider'
  BY <1>6 DEF ToggleProvider, Call
<1>7. CASE DeleteProvider
  BY <1>7 DEF DeleteProvider, Call
<1>8. ASSUME NEW j \in socialJobs,
             ProviderDone(j) \/ ProviderRefused(j) \/ ProviderUnheard(j)
      PROVE  FormFilled' /\ FormOfProvider'
  BY <1>8 DEF ProviderDone, ProviderRefused, ProviderUnheard, Leave
<1>9. CASE UNCHANGED socialVars
  BY <1>9 DEF socialVars
<1>. QED
  BY <1>1, <1>2, <1>3, <1>4, <1>5, <1>6, <1>7, <1>8, <1>9 DEF SocialNext

\* The credentials that are saved for a provider were typed into a form filled
\* from its row.
THEOREM SavedForItsProvider == SocialSpec => []FormOfProvider
<1>1. SocialInit => FormFilled /\ FormOfProvider
  BY DEF SocialInit, FormFilled, FormOfProvider
<1>. QED
  BY <1>1, FilledStep, PTL DEF SocialSpec

LEMMA CardsStep ==
    SocialTypeOK /\ CardsSound /\ [SocialNext]_socialVars => CardsSound'
<1>. SUFFICES ASSUME SocialTypeOK, CardsSound, [SocialNext]_socialVars
              PROVE  CardsSound'
  OBVIOUS
<1>. USE DEF CardsSound
<1>0. \A t \in Owners : social[t] \in SocialRows
                         /\ providers[t] \in Query(SocialRows)
  BY DEF SocialTypeOK
<1>1. ASSUME NEW t \in Owners, SelectOwner(t) PROVE CardsSound'
  <2>1. t \notin astray => Sound(Observed(providers[t], social[t]), social[t])
    BY <1>0, ObservedSound
  <2>. QED
    BY <1>1, <2>1 DEF SelectOwner, SocialTypeOK
<1>2. ASSUME NEW t \in Owners, ProvidersFetched(t) PROVE CardsSound'
  <2>1. t \notin astray => /\ Sound(Answered(providers[t]), social[t])
                           /\ Sound(Failed(providers[t]), social[t])
    BY <1>0, <1>2, FetchedSound DEF ProvidersFetched
  <2>. QED
    BY <1>2, <2>1 DEF ProvidersFetched, SocialTypeOK
<1>3. ASSUME NEW j \in socialJobs, ProviderDone(j) PROVE CardsSound'
  <2>1. /\ social' \in [Owners -> SocialRows] /\ j.tenant \in Owners
        /\ \A t \in Owners \ {j.tenant} : social'[t] = social[t]
    BY <1>3, PerformedRows DEF ProviderDone
  <2>2. Sound(Invalidated(providers[holder], TRUE, social'[holder]),
              social'[holder])
    BY <1>0, <2>1, InvalidatedSound DEF SocialTypeOK
  <2>3. providers' = [providers EXCEPT ![holder] =
                         Invalidated(@, TRUE, social'[holder])]
        /\ holder' = holder /\ holder \in Owners
    BY <1>3 DEF ProviderDone, RefreshProviders, Leave, SocialTypeOK
  <2>4. astray' = IF j.tenant = holder THEN astray ELSE astray \cup {j.tenant}
    BY <1>3 DEF ProviderDone
  <2>5. ASSUME NEW t \in Owners \ astray' PROVE Sound(providers'[t], social'[t])
    <3>1. CASE t = holder
      BY <3>1, <2>2, <2>3, <1>0 DEF SocialTypeOK
    <3>2. CASE t # holder
      BY <3>2, <2>1, <2>3, <2>4, <2>5 DEF SocialTypeOK
    <3>. QED
      BY <3>1, <3>2
  <2>. QED
    BY <2>5
<1>4. ASSUME NEW j \in socialJobs, ProviderUnheard(j) PROVE CardsSound'
  BY <1>4, PerformedRows DEF ProviderUnheard
<1>5. CASE UNCHANGED <<social, providers, astray>>
  BY <1>5
<1>. QED
  BY <1>1, <1>2, <1>3, <1>4, <1>5
  DEF SocialNext, OpenAdd, OpenWindow, ChooseProvider, OpenEditDialog,
      AskDeleteProvider, CloseWindow, AddProvider, SaveProvider, ToggleProvider,
      DeleteProvider, Call, ProviderRefused, socialVars

\* The cards and their switches show what the API has.
THEOREM ProvidersListed == SocialSpec => []ProvidersAreListed
<1>1. SocialInit => CardsSound
  <2>. SUFFICES ASSUME SocialInit, NEW t \in Owners
                PROVE  Sound(providers[t], social[t])
    BY DEF CardsSound
  <2>1. social[t] \in SocialRows
    BY SocialTypeInit DEF SocialTypeOK
  <2>2. providers[t] \in {Holding(social[t]), NewQuery}
    BY DEF SocialInit
  <2>. QED
    BY <2>1, <2>2, NewSound
<1>2. SocialTypeOK /\ CardsSound => ProvidersAreListed
  BY DEF SocialTypeOK, CardsSound, ProvidersAreListed, Sound
<1>. QED
  BY <1>1, <1>2, SocialTypeCorrect, CardsStep, PTL DEF SocialSpec
-----------------------------------------------------------------------------
(* The passkeys of /me/security *)

KeysSound == ~lost => Sound(list, creds)

LEMMA PasskeyTypeInit == PasskeyInit => PasskeyTypeOK
<1>. SUFFICES ASSUME PasskeyInit PROVE PasskeyTypeOK
  OBVIOUS
<1>1. {} \in SUBSET Keys
  OBVIOUS
<1>2. list \in Query(SUBSET Keys)
  BY <1>1, NewSound DEF PasskeyInit
<1>3. onPasskeys = FALSE /\ isAdding = FALSE /\ lost = FALSE
  BY DEF PasskeyInit
<1>4. {onPasskeys, isAdding, lost} \subseteq BOOLEAN
  BY <1>3, Zenon
<1>5. registering \in [Keys -> KeyStages]
  BY DEF PasskeyInit, KeyStages
<1>. QED
  BY <1>2, <1>3, <1>4, <1>5 DEF PasskeyInit, PasskeyTypeOK

LEMMA DirtyListSound ==
    ASSUME PasskeyTypeOK, creds' \subseteq Keys, DirtyList
    PROVE  list' \in Query(SUBSET Keys) /\ Sound(list', creds')
<1>1. creds' \in SUBSET Keys /\ list \in Query(SUBSET Keys)
  BY DEF PasskeyTypeOK
<1>2. onPasskeys \in BOOLEAN
  BY Zenon DEF PasskeyTypeOK
<1>3. /\ Invalidated(list, onPasskeys, creds') \in Query(SUBSET Keys)
      /\ Sound(Invalidated(list, onPasskeys, creds'), creds')
  BY <1>1, <1>2, InvalidatedSound
<1>. QED
  BY <1>3 DEF DirtyList

LEMMA PasskeyTypeStep == PasskeyTypeOK /\ [PasskeyNext]_passkeyVars => PasskeyTypeOK'
<1>. SUFFICES ASSUME PasskeyTypeOK, [PasskeyNext]_passkeyVars
              PROVE  PasskeyTypeOK'
  OBVIOUS
<1>. USE DEF PasskeyTypeOK, work, KeyStages
<1>0. creds \in SUBSET Keys /\ list \in Query(SUBSET Keys)
  OBVIOUS
<1>1. CASE ShowPasskeys
  BY <1>0, <1>1, QueryType DEF ShowPasskeys
<1>2. CASE LeavePasskeys
  BY <1>2 DEF LeavePasskeys
<1>3. CASE ListFetched
  BY <1>0, <1>3, QueryType DEF ListFetched
<1>4. ASSUME NEW open \in BOOLEAN, OpenAddForm(open) PROVE PasskeyTypeOK'
  BY <1>4 DEF OpenAddForm
<1>5. ASSUME NEW k \in Keys, AddKey(k) \/ Advance(k) \/ RemoveKey(k)
      PROVE  PasskeyTypeOK'
  BY <1>5 DEF AddKey, Advance, RemoveKey
<1>6. ASSUME NEW k \in Keys, KeyAdded(k) PROVE PasskeyTypeOK'
  BY <1>6, DirtyListSound DEF KeyAdded, EndRegistering
<1>7. ASSUME NEW k \in Keys, KeyNotAdded(k) PROVE PasskeyTypeOK'
  BY <1>7 DEF KeyNotAdded, EndRegistering
<1>8. ASSUME NEW k \in Keys, KeyRemoved(k) PROVE PasskeyTypeOK'
  BY <1>8, DirtyListSound DEF KeyRemoved, EndRemoval
<1>9. ASSUME NEW k \in Keys, KeyNotRemoved(k) PROVE PasskeyTypeOK'
  BY <1>9 DEF KeyNotRemoved, EndRemoval
<1>10. CASE UNCHANGED passkeyVars
  BY <1>10 DEF passkeyVars
<1>. QED
  BY <1>1, <1>2, <1>3, <1>4, <1>5, <1>6, <1>7, <1>8, <1>9, <1>10
  DEF PasskeyNext

\* Every variable of the card keeps its type; the form is open only on the tab,
\* and what disables a button of the tab is under way.
THEOREM PasskeyTypeCorrect == PasskeySpec => []PasskeyTypeOK
<1>. QED
  BY PasskeyTypeInit, PasskeyTypeStep, PTL DEF PasskeySpec

LEMMA KeysStep ==
    PasskeyTypeOK /\ KeysSound /\ [PasskeyNext]_passkeyVars => KeysSound'
<1>. SUFFICES ASSUME PasskeyTypeOK, KeysSound, [PasskeyNext]_passkeyVars
              PROVE  KeysSound'
  OBVIOUS
<1>0. creds \in SUBSET Keys /\ list \in Query(SUBSET Keys)
  BY DEF PasskeyTypeOK
<1>1. CASE ShowPasskeys
  BY <1>0, <1>1, ObservedSound DEF ShowPasskeys, KeysSound
<1>2. CASE ListFetched
  BY <1>0, <1>2, FetchedSound DEF ListFetched, KeysSound
<1>3. ASSUME NEW k \in Keys, KeyAdded(k) \/ KeyRemoved(k) PROVE KeysSound'
  BY <1>0, <1>3, DirtyListSound DEF KeyAdded, KeyRemoved, KeysSound
<1>4. ASSUME NEW k \in Keys, KeyNotAdded(k) \/ KeyNotRemoved(k)
      PROVE  KeysSound'
  BY <1>4 DEF KeyNotAdded, KeyNotRemoved, KeysSound
<1>5. CASE UNCHANGED <<creds, list, lost>>
  BY <1>5 DEF KeysSound
<1>. QED
  BY <1>1, <1>2, <1>3, <1>4, <1>5
  DEF PasskeyNext, LeavePasskeys, OpenAddForm, AddKey, Advance, RemoveKey,
      passkeyVars

\* The card lists the passkeys the API has: every success invalidates the list,
\* also of a job that was started on the tab before it was left.
THEOREM KeysListed == PasskeySpec => []PasskeysAreListed
<1>1. PasskeyInit => KeysSound
  BY NewSound DEF PasskeyInit, KeysSound
<1>2. PasskeyTypeOK /\ KeysSound => PasskeysAreListed
  BY DEF PasskeyTypeOK, KeysSound, PasskeysAreListed, Sound
<1>. QED
  BY <1>1, <1>2, PasskeyTypeCorrect, KeysStep, PTL DEF PasskeySpec
-----------------------------------------------------------------------------
(* /tenant/users *)

\* A role that was chosen is one of the organization the request will name.
ChoiceSound ==
    /\ invite.of \in {None, invite.tenant}
    /\ roleDialog.of # None => roleDialog.open /\ roleDialog.of = selected

TableSound == \A t \in Orgs \ staleUsers : Sound(users[t], held[t])

RolesSound ==
    \A t \in Orgs, m \in Members :
        <<t, m>> \notin staleRoles => Sound(assignments[<<t, m>>], held[t][m])

InviteForms == [open : BOOLEAN, tenant : Orgs, of : Orgs \cup {None}]
RoleForms   == [open : BOOLEAN, target : Members \cup {None},
                of : Orgs \cup {None}]

LEMMA UsersTypeInit == UsersInit => TenantUsersTypeOK
<1>. SUFFICES ASSUME UsersInit PROVE TenantUsersTypeOK
  OBVIOUS
<1>1. held \in [Orgs -> Lists] /\ selected \in Orgs
  BY DEF UsersInit, Lists, Roles
<1>2. \A t \in Orgs : held[t] \in Lists
  BY <1>1
<1>3. users \in [Orgs -> Query(Lists)]
  BY <1>2, NewSound DEF UsersInit
<1>4. assignments \in [Orgs \X Members -> Query(SUBSET Roles)]
  <2>. {} \in SUBSET Roles
    OBVIOUS
  <2>. NewQuery \in Query(SUBSET Roles)
    BY NewSound
  <2>. QED
    BY DEF UsersInit
<1>5. invite \in InviteForms /\ invite.of = None
  BY <1>1 DEF UsersInit, InviteForms
<1>6. roleDialog \in RoleForms /\ ~roleDialog.open /\ roleDialog.of = None
  BY DEF UsersInit, NoRoles, RoleForms
<1>7. removeTarget \in Members \cup {None} /\ userJobs = {}
      /\ sent \in 0 .. MaxUserRequests
      /\ staleUsers \subseteq Orgs /\ staleRoles \subseteq Orgs \X Members
  BY UsersAssumption DEF UsersInit
<1>. QED
  BY <1>1, <1>3, <1>4, <1>5, <1>6, <1>7
  DEF TenantUsersTypeOK, InviteForms, RoleForms

\* What the API makes of a request: the roles of one user of one organization
\* change.
LEMMA EffectOnOne ==
    ASSUME TenantUsersTypeOK, NEW j \in userJobs, Effect(j)
    PROVE  /\ held' \in [Orgs -> Lists]
           /\ j.tenant \in Orgs /\ j.member \in Members
           /\ \A t \in Orgs \ {j.tenant} : held'[t] = held[t]
           /\ \A t \in Orgs, m \in Members :
                 <<t, m>> # <<j.tenant, j.member>> => held'[t][m] = held[t][m]
<1>1. /\ j.tenant \in Orgs /\ j.member \in Members /\ j.role \in Roles
      /\ held \in [Orgs -> [Members -> SUBSET Roles]]
  BY DEF TenantUsersTypeOK, UserJobs, Lists
<1>2. held[j.tenant][j.member] \in SUBSET Roles
  BY <1>1
<1>3. PICK now \in SUBSET Roles :
          held' = [held EXCEPT ![j.tenant][j.member] = now]
  BY <1>1, <1>2 DEF Effect
<1>. QED
  BY <1>1, <1>3 DEF Lists

LEMMA DirtyUsersSound ==
    ASSUME TenantUsersTypeOK, held' \in [Orgs -> Lists], NEW ts, DirtyUsers(ts)
    PROVE  /\ users' \in [Orgs -> Query(Lists)]
           /\ \A t \in Orgs : IF t \in ts THEN Sound(users'[t], held'[t])
                                          ELSE users'[t] = users[t]
<1>1. ASSUME NEW t \in Orgs
      PROVE  /\ Invalidated(users[t], t = selected, held'[t]) \in Query(Lists)
             /\ Sound(Invalidated(users[t], t = selected, held'[t]), held'[t])
  <2>. (t = selected) \in BOOLEAN /\ held'[t] \in Lists
       /\ users[t] \in Query(Lists)
    BY DEF TenantUsersTypeOK
  <2>. QED
    BY InvalidatedSound
<1>. QED
  BY <1>1 DEF DirtyUsers, TenantUsersTypeOK

LEMMA DirtyRolesSound ==
    ASSUME TenantUsersTypeOK, held' \in [Orgs -> Lists], DirtyRoles
    PROVE  /\ assignments' \in [Orgs \X Members -> Query(SUBSET Roles)]
           /\ \A t \in Orgs, m \in Members :
                 IF <<t, m>> \in Here
                 THEN Sound(assignments'[<<t, m>>], held'[t][m])
                 ELSE assignments'[<<t, m>>] = assignments[<<t, m>>]
<1>1. /\ selected \in Orgs /\ roleDialog.target \in Members \cup {None}
      /\ assignments \in [Orgs \X Members -> Query(SUBSET Roles)]
  BY DEF TenantUsersTypeOK
<1>2. CASE roleDialog.target = None
  BY <1>1, <1>2, UsersAssumption DEF DirtyRoles, Here
<1>3. CASE roleDialog.target # None
  <2>. DEFINE k == <<selected, roleDialog.target>>
              q == Invalidated(assignments[k], roleDialog.open,
                               held'[selected][roleDialog.target])
  <2>1. k \in Orgs \X Members
        /\ held'[selected][roleDialog.target] \in SUBSET Roles
        /\ assignments[k] \in Query(SUBSET Roles)
    BY <1>1, <1>3 DEF Lists
  <2>2. roleDialog.open \in BOOLEAN
    <3>1. roleDialog \in RoleForms
      BY DEF TenantUsersTypeOK, RoleForms
    <3>. QED
      BY <3>1 DEF RoleForms
  <2>3. q \in Query(SUBSET Roles)
        /\ Sound(q, held'[selected][roleDialog.target])
    BY <2>1, <2>2, InvalidatedSound
  <2>4. assignments' = [assignments EXCEPT ![k] = q]
    BY <1>3 DEF DirtyRoles
  <2>. QED
    BY <1>1, <2>1, <2>3, <2>4 DEF Here
<1>. QED
  BY <1>2, <1>3

\* What a request leaves of the type.
LEMMA SubmitType ==
    ASSUME TenantUsersTypeOK, NEW op \in UserOps, NEW t \in Orgs,
           NEW m \in Members, NEW r \in Roles, NEW of \in Orgs,
           Submit(op, t, m, r, of)
    PROVE  /\ userJobs' \subseteq UserJobs
           /\ \A j, k \in userJobs' : j.op = k.op => j = k
           /\ sent' \in 0 .. MaxUserRequests
BY UsersAssumption DEF TenantUsersTypeOK, Submit, UserJobs

\* The four requests, each with an organization, a user and a role of its own.
LEMMA SubmitsType ==
    ASSUME TenantUsersTypeOK,
           \/ \E m \in Members : SendInvite(m)
           \/ ConfirmRemove \/ AssignRole \/ \E r \in Roles : RemoveRole(r)
    PROVE  TenantUsersTypeOK'
<1>0. /\ selected \in Orgs /\ invite.tenant \in Orgs
      /\ invite.of \in Orgs \cup {None} /\ roleDialog.of \in Orgs \cup {None}
      /\ removeTarget \in Members \cup {None}
      /\ roleDialog.open => roleDialog.target \in Members
      /\ {"base", "extra"} \subseteq Roles /\ UserOps = {"invite", "remove", "assign", "unassign"}
  BY DEF TenantUsersTypeOK, Roles, UserOps
<1>1. /\ userJobs' \subseteq UserJobs
      /\ \A j, k \in userJobs' : j.op = k.op => j = k
      /\ sent' \in 0 .. MaxUserRequests
  <2>1. ASSUME NEW m \in Members, SendInvite(m) PROVE <1>1!:
    BY <1>0, <2>1, SubmitType DEF SendInvite
  <2>2. CASE ConfirmRemove
    BY <1>0, <2>2, SubmitType DEF ConfirmRemove
  <2>3. CASE AssignRole
    BY <1>0, <2>3, SubmitType DEF AssignRole
  <2>4. ASSUME NEW r \in Roles, RemoveRole(r) PROVE <1>1!:
    BY <1>0, <2>4, SubmitType DEF RemoveRole
  <2>. QED
    BY <2>1, <2>2, <2>3, <2>4
<1>2. /\ UNCHANGED <<held, users, assignments, selected, invite, roleDialog,
                     userPast>>
      /\ removeTarget' \in Members \cup {None}
  BY <1>0 DEF SendInvite, ConfirmRemove, AssignRole, RemoveRole, Submit
<1>. QED
  BY <1>1, <1>2 DEF TenantUsersTypeOK, userPast

LEMMA UsersTypeStep == TenantUsersTypeOK /\ [UsersNext]_userVars => TenantUsersTypeOK'
<1>. SUFFICES ASSUME TenantUsersTypeOK, [UsersNext]_userVars
              PROVE  TenantUsersTypeOK'
  OBVIOUS
<1>. USE DEF userDialogs, userPast
<1>1. ASSUME NEW t \in Orgs, SelectUsersOrg(t) PROVE TenantUsersTypeOK'
  <2>. Observed(users[t], held[t]) \in Query(Lists)
    BY QueryType DEF TenantUsersTypeOK
  <2>. QED
    BY <1>1 DEF SelectUsersOrg, TenantUsersTypeOK
<1>2. ASSUME NEW t \in Orgs, UsersFetched(t) PROVE TenantUsersTypeOK'
  <2>. held[t] \in Lists /\ users[t] \in Query(Lists)
    BY DEF TenantUsersTypeOK
  <2>. Answered(users[t]) \in Query(Lists) /\ Failed(users[t]) \in Query(Lists)
    BY QueryType
  <2>1. users' \in [Orgs -> Query(Lists)]
    BY <1>2 DEF UsersFetched, TenantUsersTypeOK
  <2>. QED
    BY <1>2, <2>1 DEF UsersFetched, TenantUsersTypeOK
<1>3. ASSUME NEW k \in Orgs \X Members, RolesFetched(k) PROVE TenantUsersTypeOK'
  <2>. {} \in SUBSET Roles /\ assignments[k] \in Query(SUBSET Roles)
    BY DEF TenantUsersTypeOK
  <2>. Answered(assignments[k]) \in Query(SUBSET Roles)
       /\ Failed(assignments[k]) \in Query(SUBSET Roles)
    BY QueryType
  <2>0. PICK q \in Query(SUBSET Roles) :
            assignments' = [assignments EXCEPT ![k] = q]
    BY <1>3 DEF RolesFetched
  <2>1. assignments' \in [Orgs \X Members -> Query(SUBSET Roles)]
    BY <2>0 DEF TenantUsersTypeOK
  <2>. QED
    BY <1>3, <2>1 DEF RolesFetched, TenantUsersTypeOK
<1>4. ASSUME NEW open \in BOOLEAN, OpenInvite(open) PROVE TenantUsersTypeOK'
  BY <1>4 DEF OpenInvite, TenantUsersTypeOK
<1>5. ASSUME NEW t \in Orgs, ChooseTenant(t) PROVE TenantUsersTypeOK'
  BY <1>5 DEF ChooseTenant, TenantUsersTypeOK
<1>6. CASE ChooseRole
  BY <1>6 DEF ChooseRole, TenantUsersTypeOK
<1>7. ASSUME NEW m \in Members, OpenRoles(m) PROVE TenantUsersTypeOK'
  <2>. /\ selected \in Orgs /\ held \in [Orgs -> [Members -> SUBSET Roles]]
       /\ assignments \in [Orgs \X Members -> Query(SUBSET Roles)]
    BY DEF TenantUsersTypeOK, Lists
  <2>. /\ held[selected][m] \in SUBSET Roles /\ <<selected, m>> \in Orgs \X Members
       /\ assignments[<<selected, m>>] \in Query(SUBSET Roles)
    OBVIOUS
  <2>. Observed(assignments[<<selected, m>>], held[selected][m])
           \in Query(SUBSET Roles)
    BY QueryType
  <2>1. assignments' \in [Orgs \X Members -> Query(SUBSET Roles)]
    BY <1>7 DEF OpenRoles, TenantUsersTypeOK
  <2>2. m # None
    BY UsersAssumption
  <2>. QED
    BY <1>7, <2>1, <2>2 DEF OpenRoles, TenantUsersTypeOK
<1>8. CASE CloseRoles \/ HideRoles
  <2>1. CASE CloseRoles
    BY <2>1 DEF CloseRoles, NoRoles, TenantUsersTypeOK
  <2>2. CASE HideRoles
    BY <2>2 DEF HideRoles, TenantUsersTypeOK
  <2>. QED
    BY <1>8, <2>1, <2>2
<1>9. CASE ChooseAssignment
  BY <1>9, UsersAssumption DEF ChooseAssignment, TenantUsersTypeOK
<1>10. ASSUME NEW m \in Members \cup {None}, AskRemove(m)
       PROVE  TenantUsersTypeOK'
  BY <1>10 DEF AskRemove, TenantUsersTypeOK
<1>11. CASE \/ \E m \in Members : SendInvite(m)
            \/ ConfirmRemove \/ AssignRole \/ \E r \in Roles : RemoveRole(r)
  BY <1>11, SubmitsType
<1>12. ASSUME NEW j \in userJobs, InviteSent(j) PROVE TenantUsersTypeOK'
  <2>1. /\ held' \in [Orgs -> Lists] /\ j.tenant \in Orgs /\ j.member \in Members
        /\ users' \in [Orgs -> Query(Lists)]
    BY <1>12, EffectOnOne, DirtyUsersSound DEF InviteSent
  <2>2. staleUsers' \subseteq Orgs /\ staleRoles' \subseteq Orgs \X Members
    BY <1>12, <2>1 DEF InviteSent, TenantUsersTypeOK
  <2>. QED
    BY <1>12, <2>1, <2>2 DEF InviteSent, EndJob, TenantUsersTypeOK
<1>13. ASSUME NEW j \in userJobs, UserRemoved(j) PROVE TenantUsersTypeOK'
  <2>1. /\ held' \in [Orgs -> Lists] /\ j.tenant \in Orgs /\ j.member \in Members
        /\ users' \in [Orgs -> Query(Lists)]
    BY <1>13, EffectOnOne, DirtyUsersSound DEF UserRemoved
  <2>2. staleUsers' \subseteq Orgs /\ staleRoles' \subseteq Orgs \X Members
    BY <1>13, <2>1 DEF UserRemoved, TenantUsersTypeOK
  <2>. QED
    BY <1>13, <2>1, <2>2 DEF UserRemoved, EndJob, TenantUsersTypeOK
<1>14. ASSUME NEW j \in userJobs, RoleChanged(j) PROVE TenantUsersTypeOK'
  <2>1. /\ held' \in [Orgs -> Lists] /\ j.tenant \in Orgs /\ j.member \in Members
        /\ users' \in [Orgs -> Query(Lists)]
        /\ assignments' \in [Orgs \X Members -> Query(SUBSET Roles)]
    BY <1>14, EffectOnOne, DirtyUsersSound, DirtyRolesSound DEF RoleChanged
  <2>2. staleUsers' \subseteq Orgs /\ staleRoles' \subseteq Orgs \X Members
    BY <1>14, <2>1 DEF RoleChanged, TenantUsersTypeOK
  <2>3. /\ roleDialog' \in RoleForms
        /\ roleDialog'.target = None => ~roleDialog'.open /\ roleDialog'.of = None
    BY <1>14 DEF RoleChanged, TenantUsersTypeOK, RoleForms
  <2>. QED
    BY <1>14, <2>1, <2>2, <2>3
    DEF RoleChanged, EndJob, TenantUsersTypeOK, RoleForms
<1>15. ASSUME NEW j \in userJobs, UserJobFailed(j) PROVE TenantUsersTypeOK'
  BY <1>15 DEF UserJobFailed, EndJob, TenantUsersTypeOK
<1>16. ASSUME NEW j \in userJobs, UserJobUnheard(j) PROVE TenantUsersTypeOK'
  <2>1. held' \in [Orgs -> Lists] /\ j.tenant \in Orgs /\ j.member \in Members
    BY <1>16, EffectOnOne DEF UserJobUnheard
  <2>2. staleUsers' \subseteq Orgs /\ staleRoles' \subseteq Orgs \X Members
    BY <1>16, <2>1 DEF UserJobUnheard, TenantUsersTypeOK
  <2>. QED
    BY <1>16, <2>1, <2>2 DEF UserJobUnheard, EndJob, TenantUsersTypeOK
<1>17. CASE UNCHANGED userVars
  BY <1>17 DEF userVars, TenantUsersTypeOK
<1>. QED
  BY <1>1, <1>2, <1>3, <1>4, <1>5, <1>6, <1>7, <1>8, <1>9, <1>10, <1>11,
     <1>12, <1>13, <1>14, <1>15, <1>16, <1>17 DEF UsersNext

\* Every variable of the page keeps its type, no two requests of one kind are
\* under way, and a dialog that is closed holds no choice.
THEOREM UsersTypeCorrect == UsersSpec => []TenantUsersTypeOK
<1>. QED
  BY UsersTypeInit, UsersTypeStep, PTL DEF UsersSpec

LEMMA ChoiceStep ==
    TenantUsersTypeOK /\ ChoiceSound /\ RoleOfOrganization /\ [UsersNext]_userVars
        => ChoiceSound' /\ RoleOfOrganization'
<1>. SUFFICES ASSUME TenantUsersTypeOK, ChoiceSound, RoleOfOrganization,
                     [UsersNext]_userVars
              PROVE  ChoiceSound' /\ RoleOfOrganization'
  OBVIOUS
<1>0. /\ invite \in InviteForms /\ roleDialog \in RoleForms /\ selected \in Orgs
      /\ roleDialog.target = None => ~roleDialog.open /\ roleDialog.of = None
  BY DEF TenantUsersTypeOK, InviteForms, RoleForms
<1>. USE UsersAssumption
     DEF ChoiceSound, RoleOfOrganization, userDialogs, InviteForms, RoleForms
<1>1. ASSUME NEW t \in Orgs, SelectUsersOrg(t) \/ UsersFetched(t)
      PROVE  ChoiceSound' /\ RoleOfOrganization'
  BY <1>1 DEF SelectUsersOrg, UsersFetched, NoDialog
<1>2. ASSUME NEW k \in Orgs \X Members, RolesFetched(k)
      PROVE  ChoiceSound' /\ RoleOfOrganization'
  BY <1>2 DEF RolesFetched
<1>3. ASSUME NEW open \in BOOLEAN, OpenInvite(open)
      PROVE  ChoiceSound' /\ RoleOfOrganization'
  BY <1>3 DEF OpenInvite
<1>4. ASSUME NEW t \in Orgs, ChooseTenant(t)
      PROVE  ChoiceSound' /\ RoleOfOrganization'
  BY <1>0, <1>4 DEF ChooseTenant
<1>5. CASE ChooseRole
  BY <1>0, <1>5 DEF ChooseRole
<1>6. ASSUME NEW m \in Members, OpenRoles(m) \/ AskRemove(m)
      PROVE  ChoiceSound' /\ RoleOfOrganization'
  BY <1>6 DEF OpenRoles, AskRemove
<1>7. CASE CloseRoles \/ AskRemove(None)
  BY <1>7 DEF CloseRoles, NoRoles, AskRemove
<1>8. CASE HideRoles \/ ChooseAssignment
  BY <1>0, <1>8 DEF HideRoles, ChooseAssignment
<1>9. ASSUME NEW m \in Members, SendInvite(m)
      PROVE  ChoiceSound' /\ RoleOfOrganization'
  BY <1>9 DEF SendInvite, Submit
<1>10. CASE ConfirmRemove \/ AssignRole
  BY <1>0, <1>10 DEF ConfirmRemove, AssignRole, Submit
<1>11. ASSUME NEW r \in Roles, RemoveRole(r)
       PROVE  ChoiceSound' /\ RoleOfOrganization'
  BY <1>11 DEF RemoveRole, Submit
<1>12. ASSUME NEW j \in userJobs, InviteSent(j) \/ UserRemoved(j)
       PROVE  ChoiceSound' /\ RoleOfOrganization'
  BY <1>12 DEF InviteSent, UserRemoved, EndJob
<1>13. ASSUME NEW j \in userJobs, RoleChanged(j)
       PROVE  ChoiceSound' /\ RoleOfOrganization'
  BY <1>0, <1>13 DEF RoleChanged, EndJob
<1>14. ASSUME NEW j \in userJobs, UserJobFailed(j) \/ UserJobUnheard(j)
       PROVE  ChoiceSound' /\ RoleOfOrganization'
  BY <1>14 DEF UserJobFailed, UserJobUnheard, EndJob
<1>15. CASE UNCHANGED userVars
  BY <1>15 DEF userVars
<1>. QED
  BY <1>1, <1>2, <1>3, <1>4, <1>5, <1>6, <1>7, <1>8, <1>9, <1>10, <1>11,
     <1>12, <1>13, <1>14, <1>15 DEF UsersNext

\* A role is granted in the organization it belongs to: the choice is dropped
\* whenever its organization is, or its dialog.
THEOREM RoleFitsOrganization == UsersSpec => []RoleOfOrganization
<1>1. UsersInit => ChoiceSound /\ RoleOfOrganization
  BY DEF UsersInit, ChoiceSound, RoleOfOrganization, NoRoles
<1>. QED
  BY <1>1, UsersTypeCorrect, ChoiceStep, PTL DEF UsersSpec

LEMMA TableStep ==
    TenantUsersTypeOK /\ TableSound /\ [UsersNext]_userVars => TableSound'
<1>. SUFFICES ASSUME TenantUsersTypeOK, TableSound, [UsersNext]_userVars
              PROVE  TableSound'
  OBVIOUS
<1>. USE DEF TableSound
<1>0. /\ \A t \in Orgs : held[t] \in Lists /\ users[t] \in Query(Lists)
      /\ users \in [Orgs -> Query(Lists)] /\ selected \in Orgs
  BY DEF TenantUsersTypeOK
<1>1. ASSUME NEW t \in Orgs, SelectUsersOrg(t) PROVE TableSound'
  <2>1. t \notin staleUsers => Sound(Observed(users[t], held[t]), held[t])
    BY <1>0, ObservedSound
  <2>. QED
    BY <1>0, <1>1, <2>1 DEF SelectUsersOrg, userPast
<1>2. ASSUME NEW t \in Orgs, UsersFetched(t) PROVE TableSound'
  <2>1. t \notin staleUsers => /\ Sound(Answered(users[t]), held[t])
                               /\ Sound(Failed(users[t]), held[t])
    BY <1>0, <1>2, FetchedSound DEF UsersFetched
  <2>. QED
    BY <1>0, <1>2, <2>1 DEF UsersFetched, userPast
<1>3. ASSUME NEW j \in userJobs, Effect(j), NEW ts, DirtyUsers(ts),
             staleUsers' = staleUsers \cup ({j.tenant} \ ts)
      PROVE  TableSound'
  BY <1>3, EffectOnOne, DirtyUsersSound
<1>4. ASSUME NEW j \in userJobs, InviteSent(j) PROVE TableSound'
  BY <1>3, <1>4 DEF InviteSent
<1>5. ASSUME NEW j \in userJobs, UserRemoved(j) \/ RoleChanged(j)
      PROVE  TableSound'
  BY <1>3, <1>5 DEF UserRemoved, RoleChanged
<1>6. ASSUME NEW j \in userJobs, UserJobUnheard(j) PROVE TableSound'
  BY <1>6, EffectOnOne DEF UserJobUnheard
<1>7. CASE UNCHANGED <<held, users, staleUsers>>
  BY <1>7
<1>. QED
  BY <1>1, <1>2, <1>4, <1>5, <1>6, <1>7
  DEF UsersNext, RolesFetched, OpenInvite, ChooseTenant, ChooseRole, OpenRoles,
      CloseRoles, HideRoles, ChooseAssignment, AskRemove, SendInvite,
      ConfirmRemove, AssignRole, RemoveRole, Submit, UserJobFailed, userVars,
      userPast

\* The table lists the members the API has, in the organizations whose changes
\* were heard of while they or the invite dialog showed them.
THEOREM UsersListed == UsersSpec => []UsersAreListed
<1>1. UsersInit => TableSound
  <2>. SUFFICES ASSUME UsersInit, NEW t \in Orgs PROVE Sound(users[t], held[t])
    BY DEF TableSound
  <2>1. held[t] \in Lists
    BY UsersTypeInit DEF TenantUsersTypeOK
  <2>2. users[t] \in {Holding(held[t]), NewQuery}
    BY DEF UsersInit
  <2>. QED
    BY <2>1, <2>2, NewSound
<1>2. TenantUsersTypeOK /\ TableSound => UsersAreListed
  BY DEF TenantUsersTypeOK, TableSound, UsersAreListed, Sound
<1>. QED
  BY <1>1, <1>2, UsersTypeCorrect, TableStep, PTL DEF UsersSpec

LEMMA RolesStep ==
    TenantUsersTypeOK /\ RolesSound /\ [UsersNext]_userVars => RolesSound'
<1>. SUFFICES ASSUME TenantUsersTypeOK, RolesSound, [UsersNext]_userVars,
                     NEW t \in Orgs, NEW m \in Members, <<t, m>> \notin staleRoles'
              PROVE  Sound(assignments[<<t, m>>], held[t][m])'
  BY DEF RolesSound
<1>0. /\ <<t, m>> \in Orgs \X Members /\ selected \in Orgs
      /\ held \in [Orgs -> [Members -> SUBSET Roles]]
      /\ assignments \in [Orgs \X Members -> Query(SUBSET Roles)]
  BY DEF TenantUsersTypeOK, Lists
<1>1. held[t][m] \in SUBSET Roles /\ assignments[<<t, m>>] \in Query(SUBSET Roles)
  BY <1>0
<1>2. <<t, m>> \notin staleRoles => Sound(assignments[<<t, m>>], held[t][m])
  BY DEF RolesSound
<1>3. ASSUME NEW n \in Members, OpenRoles(n)
      PROVE  Sound(assignments[<<t, m>>], held[t][m])'
  <2>1. Sound(Observed(assignments[<<t, m>>], held[t][m]), held[t][m])
    BY <1>1, <1>2, <1>3, ObservedSound DEF OpenRoles, userPast
  <2>. QED
    BY <1>0, <1>2, <1>3, <2>1 DEF OpenRoles, userPast
<1>4. ASSUME NEW k \in Orgs \X Members, RolesFetched(k)
      PROVE  Sound(assignments[<<t, m>>], held[t][m])'
  <2>1. CASE k = <<t, m>>
    <3>1. /\ Sound(Answered(assignments[k]), held[t][m])
          /\ Sound(Failed(assignments[k]), held[t][m])
      BY <1>1, <1>2, <1>4, <2>1, FetchedSound DEF RolesFetched, userPast
    <3>. QED
      BY <1>0, <1>4, <2>1, <3>1 DEF RolesFetched
  <2>2. CASE k # <<t, m>>
    BY <1>0, <1>2, <1>4, <2>2 DEF RolesFetched, userPast
  <2>. QED
    BY <2>1, <2>2
<1>5. ASSUME NEW j \in userJobs, InviteSent(j) \/ UserRemoved(j) \/ UserJobUnheard(j)
      PROVE  Sound(assignments[<<t, m>>], held[t][m])'
  <2>1. /\ Effect(j) /\ UNCHANGED assignments
        /\ staleRoles' = staleRoles \cup {<<j.tenant, j.member>>}
    BY <1>5 DEF InviteSent, UserRemoved, UserJobUnheard
  <2>. QED
    BY <1>2, <2>1, EffectOnOne
<1>6. ASSUME NEW j \in userJobs, RoleChanged(j)
      PROVE  Sound(assignments[<<t, m>>], held[t][m])'
  <2>1. /\ Effect(j) /\ DirtyRoles
        /\ staleRoles' = staleRoles \cup ({<<j.tenant, j.member>>} \ Here)
    BY <1>6 DEF RoleChanged
  <2>. QED
    BY <1>2, <2>1, EffectOnOne, DirtyRolesSound
<1>7. CASE UNCHANGED <<held, assignments, staleRoles>>
  BY <1>2, <1>7
<1>. QED
  BY <1>3, <1>4, <1>5, <1>6, <1>7
  DEF UsersNext, SelectUsersOrg, UsersFetched, OpenInvite, ChooseTenant,
      ChooseRole, CloseRoles, HideRoles, ChooseAssignment, AskRemove,
      SendInvite, ConfirmRemove, AssignRole, RemoveRole, Submit, UserJobFailed,
      userVars, userPast

\* The role dialog lists the roles that its member holds, if every change of them
\* was heard of by the dialog that showed them.
THEOREM RolesListed == UsersSpec => []RolesAreListed
<1>1. UsersInit => RolesSound
  <2>. SUFFICES ASSUME UsersInit, NEW t \in Orgs, NEW m \in Members
                PROVE  Sound(assignments[<<t, m>>], held[t][m])
    BY DEF RolesSound
  <2>1. assignments[<<t, m>>] = NewQuery /\ held[t][m] \in SUBSET Roles
    BY UsersTypeInit DEF UsersInit, TenantUsersTypeOK, Lists
  <2>. QED
    BY <2>1, NewSound
<1>2. TenantUsersTypeOK /\ RolesSound => RolesAreListed
  <2>. SUFFICES ASSUME TenantUsersTypeOK, RolesSound,
                       NEW k, k = <<selected, roleDialog.target>>,
                       roleDialog.open, k \notin staleRoles,
                       Trusted(assignments[k])
                PROVE  assignments[k].data = {held[selected][roleDialog.target]}
    BY DEF RolesAreListed
  <2>1. selected \in Orgs /\ roleDialog.target \in Members
    BY DEF TenantUsersTypeOK
  <2>. QED
    BY <2>1 DEF RolesSound, Sound
<1>. QED
  BY <1>1, <1>2, UsersTypeCorrect, RolesStep, PTL DEF UsersSpec

-----------------------------------------------------------------------------
(* The pages together *)

\* A behaviour of the composition is one of every page.
LEMMA ListPagesCompose ==
    ListSpec =>
        PasskeySpec /\ UsersSpec /\ CommSpec /\ SocialSpec
<1>1. ListInit =>
        PasskeyInit /\ UsersInit /\ CommInit /\ SocialInit
  BY DEF ListInit, Opens, ClosedPasskeys, ClosedUsers, ClosedComm, ClosedSocial
<1>2. [ListNext]_<<opened, passkeyVars, userVars, commVars, socialVars>> =>
        /\ [PasskeyNext]_passkeyVars
        /\ [UsersNext]_userVars
        /\ [CommNext]_commVars
        /\ [SocialNext]_socialVars
  BY DEF ListNext, Moves
<1>. QED
  BY <1>1, <1>2, PTL
  DEF ListSpec, PasskeySpec, UsersSpec, CommSpec, SocialSpec

\* What a page lists is what the API has.
THEOREM ListsTrue == ListSpec => []ListsAreTrue
<1>1. (/\ PasskeysAreListed
       /\ UsersAreListed
       /\ RolesAreListed
       /\ ConfigsAreListed
       /\ ProvidersAreListed)
      => ListsAreTrue
  BY DEF ListsAreTrue
<1>. QED
  BY <1>1, ListPagesCompose, KeysListed, UsersListed, RolesListed,
     ConfigsListed, ProvidersListed, PTL

\* What a dialog sends was chosen or typed for what the request names.
THEOREM SentWhereMeant == ListSpec => []SentForItsTarget
<1>1. (/\ RoleOfOrganization
       /\ FormOfItem
       /\ FormOfProvider)
      => SentForItsTarget
  BY DEF SentForItsTarget
<1>. QED
  BY <1>1, ListPagesCompose, RoleFitsOrganization, SavedForItsRow, SavedForItsProvider, PTL
=============================================================================
