------------------------------ MODULE OfflineSync ------------------------------
(***************************************************************************)
(* Sales made without a connection: the queue that the tabs of one browser *)
(* share in IndexedDB (hammer-frontend/src/lib/offline-db.ts), the loop    *)
(* that uploads it (hooks/use-offline-mode.ts), and the handler that posts *)
(* each sale once (hammer-api/src/modules/sales/offline-sync.service.ts),  *)
(* while the session and the day of the sale are closed and signed, people *)
(* log in and out, and prices, costs and products change.                  *)
(*                                                                         *)
(* The network may lose a request or its answer: the tab gives up, and the *)
(* server may still be working on what it was sent.  A tab may be closed   *)
(* in the middle of its loop.  These are failures; what the server refuses *)
(* is no failure: it refuses the sale again on every retry, until what it  *)
(* objects to has changed, and the loop retries it for ever.               *)
(***************************************************************************)
EXTENDS Naturals

CONSTANTS
    Sales,          \* offline sales, by offlineId
    Operators,      \* users who sell
    Tabs,           \* open pages of the point of sale on one device
    Uploads,        \* requests at the server at one time (a bound)
    Null

ASSUME OfflineAssumption == Null \notin Sales \union Operators \union Tabs

VARIABLES
    queue,          \* OfflineSale.status in IndexedDB, "NONE" without a sale
    late,           \* was the sale made after its session was closed?
    seller,         \* operatorUserId of the sale, Null without a sale
    objection,      \* what in the sale the server refuses, as things stand
    operator,       \* whom the requests of the device are authenticated as
    tab,            \* the loop of syncQueue in each tab
    upload,         \* requests at the server
    orders,         \* SaleOrders with each offlineClientId
    session,        \* is the cash session OPEN?
    day             \* its operational day

deviceVars == <<queue, late, seller, operator, tab>>
dayVars == <<session, day>>
vars == <<deviceVars, upload, objection, orders, dayVars>>

-----------------------------------------------------------------------------
(* Data.                                                                   *)

QueueStatuses == {"NONE", "PENDING_SYNC", "SYNCED", "SYNC_FAILED"}

\* What a loop read from the queue and has not uploaded yet, and the sale whose
\* answer it waits for.
TabRows == [todo: SUBSET Sales, waits: Sales \union {Null}]

Rested == [todo |-> {}, waits |-> Null]

\* POLICY: the limits of discount and of cost refuse it to this seller today.
\* CONTENT: its lines and its total do not agree, or it is dated before its session.
\* PRODUCTS: a product of it is not in the catalogue.
Objections == {"NONE", "POLICY", "CONTENT", "PRODUCTS"}

\* A request, where its handler is, and the tab that waits for it, if any still
\* does; the user whose cookie it carries, until that is checked.  After "ok",
\* "refused" or "failed" only the answer is on its way.
UploadRows ==
    [pc: {"free", "sent", "admitted", "new", "unique", "inserted", "ok", "refused", "failed"},
     sale: Sales \union {Null}, by: Operators \union {Null}, tab: Tabs \union {Null}]

Free == [pc |-> "free", sale |-> Null, by |-> Null, tab |-> Null]

TypeOK ==
    /\ queue \in [Sales -> QueueStatuses]
    /\ late \in [Sales -> BOOLEAN]
    /\ seller \in [Sales -> Operators \union {Null}]
    /\ objection \in [Sales -> Objections]
    /\ operator \in Operators
    /\ tab \in [Tabs -> TabRows]
    /\ upload \in [Uploads -> UploadRows]
    /\ orders \in [Sales -> Nat]
    /\ session \in {"OPEN", "CLOSED"}
    /\ day \in {"ACTIVE", "AWAITING_REVIEW", "CONFIRMED"}

Init ==
    /\ queue = [s \in Sales |-> "NONE"]
    /\ late = [s \in Sales |-> FALSE]
    /\ seller = [s \in Sales |-> Null]
    /\ objection = [s \in Sales |-> "NONE"]
    /\ operator \in Operators
    /\ tab = [t \in Tabs |-> Rested]
    /\ upload = [u \in Uploads |-> Free]
    /\ orders = [s \in Sales |-> 0]
    /\ session = "OPEN"
    /\ day = "ACTIVE"

\* Mutant: what failed is not tried again.
ToSyncPending == {s \in Sales: queue[s] = "PENDING_SYNC"}

ToSync == {s \in Sales: queue[s] \in {"PENDING_SYNC", "SYNC_FAILED"}}

\* Will the server refuse the sale whenever it is uploaded?
Doomed(s) == late[s] \/ objection[s] \in {"CONTENT", "PRODUCTS"}

-----------------------------------------------------------------------------
(* The device.                                                             *)

\* handleOfflineCheckout queues a sale of the session that the device knows,
\* which may have been closed by the cron meanwhile, for the user that the page
\* was opened by, at prices of the catalogue that the device has.
Sell(s, o) ==
    /\ queue[s] = "NONE"
    /\ queue' = [queue EXCEPT ![s] = "PENDING_SYNC"]
    /\ late' = [late EXCEPT ![s] = session = "CLOSED"]
    /\ seller' = [seller EXCEPT ![s] = o]
    /\ \E x \in Objections: objection' = [objection EXCEPT ![s] = x]
    /\ UNCHANGED <<operator, tab, upload, orders, dayVars>>

\* Somebody else logs in, on any page of the device.  (To a sale it is the same
\* when nobody is logged in: the request is refused.)
Login(o) ==
    /\ o # operator
    /\ operator' = o
    /\ UNCHANGED <<queue, late, seller, objection, tab, upload, orders, dayVars>>

\* syncQueue reads the queue, unless this tab is at it already ...
StartSync(t) ==
    /\ tab[t] = Rested
    /\ ToSync # {}
    /\ tab' = [tab EXCEPT ![t].todo = ToSync]
    /\ UNCHANGED <<queue, late, seller, objection, operator, upload, orders, dayVars>>

\* ... and uploads one sale after the other.
Send(t, u, s) ==
    /\ s \in tab[t].todo
    /\ tab[t].waits = Null
    /\ upload[u].pc = "free"
    /\ tab' = [tab EXCEPT ![t] = [todo |-> @.todo \ {s}, waits |-> s]]
    /\ upload' = [upload EXCEPT ![u] =
                      [pc |-> "sent", sale |-> s, by |-> operator, tab |-> t]]
    /\ UNCHANGED <<queue, late, seller, objection, operator, orders, dayVars>>

Answered(t, status) ==
    /\ queue' = [queue EXCEPT ![tab[t].waits] = status]
    /\ tab' = [tab EXCEPT ![t].waits = Null]

\* Mutant: every answer is a good one.
ReceiveAny(u) ==
    /\ upload[u].pc \in {"ok", "refused", "failed"}
    /\ upload[u].tab # Null
    /\ Answered(upload[u].tab, "SYNCED")
    /\ upload' = [upload EXCEPT ![u] = Free]
    /\ UNCHANGED <<late, seller, objection, operator, orders, dayVars>>

\* The answer arrives; the entry is put back whole, whatever another tab wrote.
Receive(u) ==
    /\ upload[u].pc \in {"ok", "refused", "failed"}
    /\ upload[u].tab # Null
    /\ Answered(upload[u].tab, IF upload[u].pc = "ok" THEN "SYNCED" ELSE "SYNC_FAILED")
    /\ upload' = [upload EXCEPT ![u] = Free]
    /\ UNCHANGED <<late, seller, objection, operator, orders, dayVars>>

Forgotten(t) ==
    [u \in Uploads |-> IF upload[u].tab = t THEN [upload[u] EXCEPT !.tab = Null] ELSE upload[u]]

\* The connection is lost: what was sent may have arrived.
GiveUp(t) ==
    /\ tab[t].waits # Null
    /\ Answered(t, "SYNC_FAILED")
    /\ upload' = Forgotten(t)
    /\ UNCHANGED <<late, seller, objection, operator, orders, dayVars>>

CloseTab(t) ==
    /\ tab[t] # Rested
    /\ tab' = [tab EXCEPT ![t] = Rested]
    /\ upload' = Forgotten(t)
    /\ UNCHANGED <<queue, late, seller, objection, operator, orders, dayVars>>

\* A request that nobody waits for may never arrive; its answer is not read.
Lose(u) ==
    /\ upload[u].tab = Null
    /\ upload[u].pc \in {"sent", "ok", "refused", "failed"}
    /\ upload' = [upload EXCEPT ![u] = Free]
    /\ UNCHANGED <<deviceVars, objection, orders, dayVars>>

-----------------------------------------------------------------------------
(* The server (syncOfflineSale).                                           *)

Goes(u, pc) ==
    /\ upload' = [upload EXCEPT ![u].pc = pc, ![u].by = Null]
    /\ UNCHANGED <<deviceVars, objection, dayVars>>

\* Mutant: when the sale was made is not compared with the closing.
CheckSessionOpen(u) ==
    /\ upload[u].pc = "sent"
    /\ Goes(u, IF \/ upload[u].by # seller[upload[u].sale]
                  \/ day = "CONFIRMED" \/ objection[upload[u].sale] = "PRODUCTS"
               THEN "refused" ELSE "admitted")
    /\ UNCHANGED orders

\* Only the seller may upload a sale; its session, the day and the products are
\* read once, before the transaction.
CheckSession(u) ==
    /\ upload[u].pc = "sent"
    /\ Goes(u, IF \/ upload[u].by # seller[upload[u].sale] \/ late[upload[u].sale]
                  \/ day = "CONFIRMED" \/ objection[upload[u].sale] = "PRODUCTS"
               THEN "refused" ELSE "admitted")
    /\ UNCHANGED orders

\* Mutant: the policy is asked before the sale is looked for.
CheckDuplicateAfterPolicy(u) ==
    /\ upload[u].pc = "admitted"
    /\ Goes(u, IF objection[upload[u].sale] # "NONE" THEN "refused"
               ELSE IF orders[upload[u].sale] > 0 THEN "ok" ELSE "new")
    /\ UNCHANGED orders

\* The sale that is there already answers the repeated request.
CheckDuplicate(u) ==
    /\ upload[u].pc = "admitted"
    /\ Goes(u, IF orders[upload[u].sale] > 0 THEN "ok" ELSE "new")
    /\ UNCHANGED orders

\* A new sale must pass the policy of today, and its total is computed again.
CheckPolicy(u) ==
    /\ upload[u].pc = "new"
    /\ Goes(u, IF objection[upload[u].sale] # "NONE" THEN "refused" ELSE "unique")
    /\ UNCHANGED orders

\* An inserted key makes the others wait until its transaction ends.
KeyTaken(s) == \E v \in Uploads: upload[v].pc = "inserted" /\ upload[v].sale = s

\* Mutant: no unique index on offlineClientId.
InsertAnyway(u) ==
    /\ upload[u].pc = "unique"
    /\ Goes(u, "inserted")
    /\ UNCHANGED orders

\* The order and its lines are inserted, unless a product went meanwhile; or the
\* order with its offlineClientId is the answer.
Insert(u) ==
    /\ upload[u].pc = "unique"
    /\ ~KeyTaken(upload[u].sale)
    /\ Goes(u, IF orders[upload[u].sale] > 0 THEN "ok"
               ELSE IF objection[upload[u].sale] = "PRODUCTS" THEN "refused" ELSE "inserted")
    /\ UNCHANGED orders

\* Its stock, its payment and the snapshot of the session.
Commit(u) ==
    /\ upload[u].pc = "inserted"
    /\ orders' = [orders EXCEPT ![upload[u].sale] = @ + 1]
    /\ Goes(u, "ok")

\* Mutant: an error that is taken for a repeated key.
RollbackAsDuplicate(u) ==
    /\ upload[u].pc \in {"sent", "admitted", "new", "unique", "inserted"}
    /\ Goes(u, "ok")
    /\ UNCHANGED orders

\* What fails and need not fail the next time: a connection, a time-out, a
\* serialisation conflict.  The refusals are in the checks above.
Rollback(u) ==
    /\ upload[u].pc \in {"sent", "admitted", "new", "unique", "inserted"}
    /\ Goes(u, "failed")
    /\ UNCHANGED orders

-----------------------------------------------------------------------------
(* The branch, meanwhile.                                                  *)

CloseSession ==
    /\ session = "OPEN"
    /\ session' = "CLOSED"
    /\ UNCHANGED <<deviceVars, upload, objection, orders, day>>

\* Ended by hand or by the cron, reopened, confirmed and reverted.
MoveDay ==
    /\ \/ day = "ACTIVE" /\ day' = "AWAITING_REVIEW"
       \/ day = "AWAITING_REVIEW" /\ day' = "ACTIVE"
       \/ day = "AWAITING_REVIEW" /\ session = "CLOSED" /\ day' = "CONFIRMED"
       \/ day = "CONFIRMED" /\ day' = "AWAITING_REVIEW"
    /\ UNCHANGED <<deviceVars, upload, objection, orders, session>>

Objects(s, x) ==
    /\ objection' = [objection EXCEPT ![s] = x]
    /\ UNCHANGED <<deviceVars, upload, orders, dayVars>>

\* Costs, prices, limits, classes of products and the role of the seller change.
MovePolicy(s) ==
    /\ queue[s] # "NONE"
    /\ \/ objection[s] = "NONE" /\ Objects(s, "POLICY")
       \/ objection[s] = "POLICY" /\ Objects(s, "NONE")

\* A product without sales is deleted; one that is sold stays.
DeleteProduct(s) ==
    /\ queue[s] # "NONE"
    /\ objection[s] # "PRODUCTS"
    /\ orders[s] = 0 /\ ~KeyTaken(s)
    /\ Objects(s, "PRODUCTS")

-----------------------------------------------------------------------------
(* The specification.                                                      *)

Serve(u) ==
    \/ CheckSession(u) \/ CheckDuplicate(u) \/ CheckPolicy(u)
    \/ Insert(u) \/ Commit(u)

Next ==
    \/ \E s \in Sales:
           \/ MovePolicy(s) \/ DeleteProduct(s)
           \/ \E o \in Operators: Sell(s, o)
    \/ \E o \in Operators: Login(o)
    \/ \E t \in Tabs:
           \/ StartSync(t) \/ GiveUp(t) \/ CloseTab(t)
           \/ \E u \in Uploads, s \in Sales: Send(t, u, s)
    \/ \E u \in Uploads: Receive(u) \/ Lose(u) \/ Serve(u) \/ Rollback(u)
    \/ CloseSession \/ MoveDay

Spec == Init /\ [][Next]_vars

\* The person, or the connection that comes back, starts the loop again; loop,
\* network and server go on; and there comes a time after which the connection
\* holds, the tabs stay open and the server does not fail.  That it refuses no
\* more is not assumed.
Trouble ==
    \/ \E t \in Tabs: GiveUp(t) \/ CloseTab(t)
    \/ \E u \in Uploads: Rollback(u)

FairSpec ==
    /\ Spec
    /\ \A t \in Tabs:
           /\ WF_vars(StartSync(t))
           /\ SF_vars(\E u \in Uploads, s \in Sales: Send(t, u, s))
    /\ \A u \in Uploads: WF_vars(Serve(u)) /\ WF_vars(Receive(u)) /\ WF_vars(Lose(u))
    /\ <>[][~Trouble]_vars

-----------------------------------------------------------------------------
(* Safety.                                                                 *)

(* A sale is posted once, whatever is uploaded again by a tab that gave up *)
(* or by another tab, before or after the first request ends.              *)
PostedOnce == \A s \in Sales: orders[s] <= 1

(* No sale is lost: what the device takes for synchronised is posted, so   *)
(* an answer of another request never stands for it.                       *)
SyncedIsPosted == \A s \in Sales: queue[s] = "SYNCED" => orders[s] > 0

Delivery == INSTANCE SaleDelivery WITH
    made    <- {s \in Sales: queue[s] # "NONE"},
    refused <- {s \in Sales: Doomed(s)},
    posted  <- orders,
    known   <- {s \in Sales: queue[s] = "SYNCED"}

(* The offline mode delivers the sales: what tabs, requests and handlers   *)
(* do, in whatever order and however often, posts a sale of the queue at   *)
(* most once, never when it was made after its session was closed, when    *)
(* its total is wrong or when a product of it is gone, and is taken for    *)
(* posted by the device only afterwards.                                   *)
ImplementsDelivery == Delivery!DeliverySpec

-----------------------------------------------------------------------------
(* Liveness.                                                               *)

\* The seller is the one who is logged in, and the server has no reason to refuse
\* the sale: none at all, or none that it would look for in a sale it has.
Welcome(s) ==
    /\ operator = seller[s]
    /\ ~Doomed(s)
    /\ objection[s] = "POLICY" => orders[s] > 0

(* A sale of the queue is taken for posted in the end, though requests and *)
(* answers were lost, tabs closed and others logged in, if a time comes    *)
(* when its seller stays logged in and the server has nothing against it;  *)
(* unless its day is confirmed before.  A price or a cost that moves after *)
(* the sale was posted does not keep its answer back.  (Without that time  *)
(* the sale is refused and retried for ever: syncOfflineSale has no way to *)
(* take it, and syncQueue none to give it up.)                             *)
EverySaleArrives ==
    \A s \in Sales:
        <>[]Welcome(s) =>
            (queue[s] # "NONE" ~> queue[s] = "SYNCED" \/ day = "CONFIRMED")

-----------------------------------------------------------------------------
(* What the repository says and the code does not keep (see the README).   *)

(* "nunca se altera un dia confirmado" (syncOfflineSale): no sale is posted*)
(* to a day that is CONFIRMED.                                             *)
ConfirmedDayIsFrozen == [][day = "CONFIRMED" => UNCHANGED orders]_vars
=============================================================================
