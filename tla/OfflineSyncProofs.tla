--------------------------- MODULE OfflineSyncProofs ---------------------------
(***************************************************************************)
(* That an offline sale is posted once and never lost, and that the offline*)
(* mode implements SaleDelivery, for every number of sales, tabs and       *)
(* requests.                                                               *)
(***************************************************************************)
EXTENDS OfflineSync, TLAPS

-----------------------------------------------------------------------------
(* The inductive invariant.                                                *)

\* A request in use is of a sale.
Named ==
    \A u \in Uploads:
        upload[u] # Free => upload[u].sale \in Sales /\ upload[u].pc # "free"

\* A tab waits for one request, of the sale that it waits for.
AnswersFit ==
    /\ \A u \in Uploads: upload[u].tab # Null => tab[upload[u].tab].waits = upload[u].sale
    /\ \A u, v \in Uploads: upload[u].tab = upload[v].tab /\ u # v => upload[u].tab = Null

\* The unique index: an uncommitted insertion is the only one of its sale.
InsertedAlone ==
    \A u \in Uploads: upload[u].pc = "inserted" =>
        /\ orders[upload[u].sale] = 0
        /\ \A v \in Uploads \ {u}:
               ~(upload[v].pc = "inserted" /\ upload[v].sale = upload[u].sale)

\* A good answer is of a sale that is posted.
OkIsPosted == \A u \in Uploads: upload[u].pc = "ok" => orders[upload[u].sale] > 0

Inv ==
    /\ TypeOK /\ Named /\ AnswersFit /\ InsertedAlone /\ OkIsPosted
    /\ PostedOnce /\ SyncedIsPosted

-----------------------------------------------------------------------------
(* Init and Next.                                                          *)

LEMMA InitInv == Init => Inv
BY OfflineAssumption
   DEF Init, Inv, TypeOK, Named, AnswersFit, InsertedAlone, OkIsPosted, PostedOnce,
       SyncedIsPosted, QueueStatuses, Objections, TabRows, Rested, UploadRows, Free

\* The loop of a tab.
LEMMA DeviceInv ==
    ASSUME Inv, NEW t \in Tabs,
           \/ StartSync(t) \/ GiveUp(t) \/ CloseTab(t)
           \/ \E u \in Uploads, s \in Sales: Send(t, u, s)
    PROVE  Inv'
<1>. USE OfflineAssumption DEF Inv
<1>1. CASE StartSync(t)
  <2>1. tab[t] \in TabRows /\ ToSync \in SUBSET Sales
    BY DEF TypeOK, ToSync
  <2>2. TypeOK'
    BY <1>1, <2>1 DEF StartSync, TypeOK, TabRows, dayVars
  <2>3. \A r \in Tabs: tab'[r].waits = tab[r].waits
    BY <1>1, <2>1 DEF StartSync, TypeOK, TabRows
  <2>4. AnswersFit'
    BY <1>1, <2>3 DEF StartSync, AnswersFit, TypeOK, UploadRows
  <2>. QED
    BY <1>1, <2>2, <2>4
    DEF StartSync, Named, InsertedAlone, OkIsPosted, PostedOnce, SyncedIsPosted
<1>2. ASSUME GiveUp(t) \/ CloseTab(t) PROVE Inv'
  <2>1. /\ upload' = Forgotten(t)
        /\ UNCHANGED <<late, seller, objection, operator, orders, session, day>>
        /\ \A r \in Tabs \ {t}: tab'[r] = tab[r]
        /\ tab' \in [Tabs -> TabRows]
        /\ queue' \in [Sales -> QueueStatuses]
        /\ \A s \in Sales: queue'[s] = "SYNCED" => queue[s] = "SYNCED"
    <3>1. CASE GiveUp(t)
      BY <3>1, SMTT(40) DEF GiveUp, Answered, TypeOK, TabRows, QueueStatuses, dayVars
    <3>2. CASE CloseTab(t)
      BY <3>2, SMTT(40) DEF CloseTab, TypeOK, TabRows, Rested, dayVars
    <3>. QED  BY <1>2, <3>1, <3>2
  <2>2. \A u \in Uploads:
            /\ upload'[u] \in UploadRows
            /\ upload'[u].pc = upload[u].pc /\ upload'[u].sale = upload[u].sale
            /\ upload'[u].tab = IF upload[u].tab = t THEN Null ELSE upload[u].tab
    <3>1. \A u \in Uploads: upload[u] \in UploadRows
      BY DEF TypeOK
    <3>2. \A u \in Uploads:
              upload'[u] = IF upload[u].tab = t THEN [upload[u] EXCEPT !.tab = Null] ELSE upload[u]
      BY <2>1 DEF Forgotten
    <3>3. ASSUME NEW u \in Uploads, upload[u].tab = t
          PROVE  /\ upload'[u] \in UploadRows
                 /\ upload'[u].pc = upload[u].pc /\ upload'[u].sale = upload[u].sale
                 /\ upload'[u].tab = Null
      <4>1. upload'[u] = [upload[u] EXCEPT !.tab = Null]
        BY <3>2, <3>3
      <4>. QED  BY <3>1, <4>1 DEF UploadRows
    <3>4. ASSUME NEW u \in Uploads, upload[u].tab # t
          PROVE  upload'[u] = upload[u]
      BY <3>2, <3>4
    <3>. QED  BY <3>1, <3>3, <3>4
  <2>3. upload' \in [Uploads -> UploadRows]
    BY <2>1, <2>2 DEF Forgotten
  <2>4. TypeOK'
    BY <2>1, <2>3 DEF TypeOK
  <2>5. AnswersFit'
    BY <2>1, <2>2 DEF AnswersFit, TypeOK, UploadRows
  <2>6. Named'
    <3>1. \A u \in Uploads: upload[u] = Free => upload'[u] = Free
      BY <2>1 DEF Forgotten, Free
    <3>. QED  BY <2>2, <3>1 DEF Named
  <2>7. InsertedAlone' /\ OkIsPosted'
    BY <2>1, <2>2 DEF InsertedAlone, OkIsPosted
  <2>. QED
    BY <2>1, <2>4, <2>5, <2>6, <2>7 DEF PostedOnce, SyncedIsPosted
<1>3. ASSUME NEW u \in Uploads, NEW s \in Sales, Send(t, u, s) PROVE Inv'
  <2>1. \A v \in Uploads: upload[v].tab # t
    <3>1. \A v \in Uploads: upload[v].tab = t => upload[v] # Free
      BY DEF Free
    <3>. QED  BY <1>3, <3>1 DEF Send, AnswersFit, Named, TypeOK
  <2>2. TypeOK'
    BY <1>3 DEF Send, TypeOK, TabRows, UploadRows, dayVars
  <2>3. /\ upload'[u] = [pc |-> "sent", sale |-> s, by |-> operator, tab |-> t]
        /\ \A v \in Uploads \ {u}: upload'[v] = upload[v]
        /\ tab'[t].waits = s
        /\ \A r \in Tabs \ {t}: tab'[r] = tab[r]
    BY <1>3 DEF Send, TypeOK
  <2>4. AnswersFit'
    BY <2>1, <2>3 DEF AnswersFit, TypeOK, UploadRows
  <2>5. Named'
    BY <2>3 DEF Named, Free
  <2>. QED
    BY <1>3, <2>2, <2>3, <2>4, <2>5
    DEF Send, InsertedAlone, OkIsPosted, PostedOnce, SyncedIsPosted
<1>. QED  BY <1>1, <1>2, <1>3

\* An answer is read, or nobody reads it.
LEMMA AnswerInv ==
    ASSUME Inv, NEW u \in Uploads, Receive(u) \/ Lose(u)
    PROVE  Inv'
<1>. USE OfflineAssumption DEF Inv
<1>1. /\ upload' = [upload EXCEPT ![u] = Free]
      /\ UNCHANGED <<late, seller, objection, operator, orders, session, day>>
  BY DEF Receive, Lose, deviceVars, dayVars
<1>2. /\ upload'[u] = Free
      /\ \A v \in Uploads \ {u}: upload'[v] = upload[v]
      /\ upload' \in [Uploads -> UploadRows]
  BY <1>1 DEF TypeOK, UploadRows, Free
<1>3. Named' /\ InsertedAlone' /\ OkIsPosted' /\ PostedOnce'
  BY <1>1, <1>2 DEF Named, InsertedAlone, OkIsPosted, PostedOnce, Free
<1>4. CASE Lose(u)
  BY <1>1, <1>2, <1>3, <1>4
  DEF Lose, deviceVars, TypeOK, AnswersFit, SyncedIsPosted, Free
<1>5. CASE Receive(u)
  <2>1. /\ upload[u].tab \in Tabs
        /\ tab[upload[u].tab].waits = upload[u].sale
        /\ upload[u].sale \in Sales
    BY <1>5 DEF Receive, TypeOK, UploadRows, AnswersFit, Named, Free
  <2>2. /\ queue' \in [Sales -> QueueStatuses]
        /\ tab' \in [Tabs -> TabRows]
        /\ \A r \in Tabs \ {upload[u].tab}: tab'[r] = tab[r]
    BY <1>5, <2>1 DEF Receive, Answered, TypeOK, TabRows, QueueStatuses
  <2>3. AnswersFit'
    <3>1. upload'[u].tab = Null
      BY <1>2 DEF Free
    <3>2. \A v \in Uploads \ {u}:
              /\ upload[v].tab \in Tabs \union {Null} /\ upload[v].tab # upload[u].tab
              /\ upload'[v].tab = upload[v].tab /\ upload'[v].sale = upload[v].sale
      BY <1>2, <2>1 DEF AnswersFit, TypeOK, UploadRows
    <3>3. \A v \in Uploads: upload'[v].tab # Null => tab'[upload'[v].tab].waits = upload'[v].sale
      BY <2>2, <3>1, <3>2 DEF AnswersFit
    <3>4. \A v, w \in Uploads:
              upload'[v].tab = upload'[w].tab /\ v # w => upload'[v].tab = Null
      BY <3>1, <3>2 DEF AnswersFit
    <3>. QED  BY <3>3, <3>4 DEF AnswersFit
  <2>4. SyncedIsPosted'
    BY <1>1, <1>5, <2>1 DEF Receive, Answered, SyncedIsPosted, OkIsPosted, TypeOK
  <2>. QED  BY <1>1, <1>2, <1>3, <2>2, <2>3, <2>4 DEF TypeOK
<1>. QED  BY <1>4, <1>5

\* The handler goes on, and a commit posts the sale that nobody else inserts.
LEMMA ServerInv ==
    ASSUME Inv, NEW u \in Uploads, Serve(u) \/ Rollback(u)
    PROVE  Inv'
<1>. USE OfflineAssumption DEF Inv
<1>1. PICK pc \in {"admitted", "new", "unique", "inserted", "ok", "refused", "failed"}: Goes(u, pc)
  BY DEF Serve, CheckSession, CheckDuplicate, CheckPolicy, Insert, Commit, Rollback
<1>2. /\ UNCHANGED <<queue, late, seller, objection, operator, tab, session, day>>
      /\ upload' = [upload EXCEPT ![u].pc = pc, ![u].by = Null]
  BY <1>1 DEF Goes, deviceVars, dayVars
<1>3. upload[u] # Free
  BY DEF Serve, CheckSession, CheckDuplicate, CheckPolicy, Insert, Commit, Rollback, Free
<1>4. upload[u].sale \in Sales
  BY <1>3 DEF Named
<1>5. /\ upload' \in [Uploads -> UploadRows]
      /\ \A v \in Uploads: upload'[v].sale = upload[v].sale /\ upload'[v].tab = upload[v].tab
      /\ \A v \in Uploads \ {u}: upload'[v] = upload[v]
      /\ upload'[u].pc = pc /\ upload'[u].pc # "free"
  <2>1. upload[u] \in UploadRows /\ upload \in [Uploads -> UploadRows]
    BY DEF TypeOK
  <2>2. upload' = [upload EXCEPT ![u] = [upload[u] EXCEPT !.pc = pc, !.by = Null]]
    BY <1>2, <2>1, Zenon
  <2>3. [upload[u] EXCEPT !.pc = pc, !.by = Null] \in UploadRows
    BY <2>1 DEF UploadRows
  <2>. QED  BY <2>1, <2>2, <2>3 DEF UploadRows
<1>6. AnswersFit'
  BY <1>2, <1>5 DEF AnswersFit
<1>7. Named'
  BY <1>4, <1>5 DEF Named
<1>8. CASE Commit(u)
  <2>1. /\ orders' = [orders EXCEPT ![upload[u].sale] = @ + 1]
        /\ upload[u].pc = "inserted" /\ upload'[u].pc = "ok"
    BY <1>5, <1>8 DEF Commit, Goes, TypeOK
  <2>2. /\ orders' \in [Sales -> Nat]
        /\ orders'[upload[u].sale] = 1
        /\ \A s \in Sales \ {upload[u].sale}: orders'[s] = orders[s]
        /\ \A s \in Sales: orders'[s] >= orders[s]
    BY <1>4, <2>1 DEF TypeOK, InsertedAlone
  <2>3. TypeOK' /\ PostedOnce' /\ SyncedIsPosted'
    BY <1>2, <1>5, <2>2 DEF TypeOK, PostedOnce, SyncedIsPosted
  <2>4. \A v \in Uploads: upload'[v].pc \in {"inserted", "ok"} => upload[v].sale \in Sales
    BY <1>4, <1>5 DEF Named, Free
  <2>5. InsertedAlone'
    <3>1. \A v \in Uploads: upload'[v].pc = "inserted" =>
              /\ v # u /\ upload[v].pc = "inserted" /\ upload[v].sale # upload[u].sale
      BY <1>5, <2>1 DEF InsertedAlone
    <3>. QED  BY <1>5, <2>1, <2>2, <2>4, <3>1 DEF InsertedAlone
  <2>6. OkIsPosted'
    BY <1>5, <2>2, <2>4 DEF OkIsPosted, TypeOK
  <2>. QED  BY <1>6, <1>7, <2>3, <2>5, <2>6
<1>9. ASSUME UNCHANGED orders,
             pc = "inserted" => orders[upload[u].sale] = 0 /\ ~KeyTaken(upload[u].sale),
             pc = "ok" => orders[upload[u].sale] > 0
      PROVE  Inv'
  <2>1. InsertedAlone'
    BY <1>2, <1>5, <1>9 DEF InsertedAlone, KeyTaken
  <2>2. OkIsPosted'
    BY <1>5, <1>9 DEF OkIsPosted
  <2>. QED
    BY <1>2, <1>5, <1>6, <1>7, <1>9, <2>1, <2>2 DEF TypeOK, PostedOnce, SyncedIsPosted
<1>10. upload'[u].pc = pc
  BY <1>5
<1>11. CASE CheckSession(u)
  BY <1>9, <1>10, <1>11 DEF CheckSession, Goes, TypeOK
<1>12. CASE CheckDuplicate(u)
  BY <1>9, <1>10, <1>12 DEF CheckDuplicate, Goes, TypeOK
<1>13. CASE Insert(u)
  <2>1. orders[upload[u].sale] \in Nat
    BY <1>4 DEF TypeOK
  <2>. QED  BY <1>9, <1>10, <1>13, <2>1 DEF Insert, Goes, TypeOK
<1>14. CASE CheckPolicy(u)
  BY <1>9, <1>10, <1>14 DEF CheckPolicy, Goes, TypeOK
<1>15. CASE Rollback(u)
  BY <1>9, <1>10, <1>15 DEF Rollback, Goes, TypeOK
<1>. QED  BY <1>8, <1>11, <1>12, <1>13, <1>14, <1>15 DEF Serve

LEMMA NextInv == Inv /\ [Next]_vars => Inv'
<1>. SUFFICES ASSUME Inv, [Next]_vars PROVE Inv'
  OBVIOUS
<1>1. ASSUME NEW s \in Sales, NEW o \in Operators, Sell(s, o) PROVE Inv'
  BY <1>1 DEF Inv, Sell, TypeOK, Named, AnswersFit, InsertedAlone, OkIsPosted, PostedOnce,
              SyncedIsPosted, QueueStatuses, dayVars
<1>2. ASSUME NEW t \in Tabs,
             \/ StartSync(t) \/ GiveUp(t) \/ CloseTab(t)
             \/ \E u \in Uploads, s \in Sales: Send(t, u, s)
      PROVE  Inv'
  BY <1>2, DeviceInv
<1>3. ASSUME NEW u \in Uploads, Receive(u) \/ Lose(u) \/ Serve(u) \/ Rollback(u)
      PROVE  Inv'
  BY <1>3, AnswerInv, ServerInv
<1>4. CASE \/ \E o \in Operators: Login(o)
           \/ \E s \in Sales: MovePolicy(s) \/ DeleteProduct(s)
           \/ CloseSession \/ MoveDay \/ UNCHANGED vars
  <2>1. /\ UNCHANGED <<queue, late, seller, tab, upload, orders>>
        /\ objection' \in [Sales -> Objections] /\ operator' \in Operators
        /\ session' \in {"OPEN", "CLOSED"}
        /\ day' \in {"ACTIVE", "AWAITING_REVIEW", "CONFIRMED"}
    BY <1>4
    DEF Login, MovePolicy, DeleteProduct, Objects, CloseSession, MoveDay, vars, deviceVars,
        dayVars, Inv, TypeOK, Objections
  <2>. QED
    BY <2>1
    DEF Inv, TypeOK, Named, AnswersFit, InsertedAlone, OkIsPosted, PostedOnce, SyncedIsPosted
<1>. QED  BY <1>1, <1>2, <1>3, <1>4 DEF Next

LEMMA AlwaysInv == Spec => []Inv
BY InitInv, NextInv, PTL DEF Spec

-----------------------------------------------------------------------------
(* The theorems.                                                           *)

(* A sale that a device uploads any number of times, from any of its tabs, *)
(* is posted once (syncOfflineSale and the unique offlineClientId).        *)
THEOREM SalePostedOnce == Spec => []PostedOnce
BY AlwaysInv, PTL DEF Inv

(* What the device takes for synchronised is posted (syncQueue writes the  *)
(* answer of a sale to the entry of that sale).                            *)
THEOREM NoSaleIsLost == Spec => []SyncedIsPosted
BY AlwaysInv, PTL DEF Inv

-----------------------------------------------------------------------------
(* The offline mode implements SaleDelivery.                               *)

\* Whatever is uploaded was sold on the device before.
MadeFirst ==
    /\ \A s \in Sales: queue[s] = "NONE" => orders[s] = 0 /\ ~Doomed(s)
    /\ \A t \in Tabs:
           /\ \A s \in tab[t].todo: queue[s] # "NONE"
           /\ tab[t].waits # Null => queue[tab[t].waits] # "NONE"
    /\ \A u \in Uploads: upload[u] # Free => queue[upload[u].sale] # "NONE"

\* A request that was admitted is of a sale made in time; one that passed the
\* policy, of a sale that adds up; one that was inserted, of a sale that nothing
\* is against.
InTime ==
    \A u \in Uploads:
        /\ upload[u].pc \in {"admitted", "new", "unique", "inserted"} => ~late[upload[u].sale]
        /\ upload[u].pc \in {"unique", "inserted"} => objection[upload[u].sale] # "CONTENT"
        /\ upload[u].pc = "inserted" => objection[upload[u].sale] # "PRODUCTS"

DInv == Inv /\ MadeFirst /\ InTime

LEMMA DeliveryTypes == Inv => TypeOK /\ Named /\ AnswersFit /\ OkIsPosted /\ PostedOnce
BY DEF Inv

LEMMA InitDInv == Init => DInv
BY InitInv, OfflineAssumption DEF Init, DInv, MadeFirst, InTime, Doomed, Rested, Free

\* A sale of the queue stays there, and was made when it was made.
QueueKept ==
    \A s \in Sales: queue[s] # "NONE" =>
        queue'[s] # "NONE" /\ late'[s] = late[s] /\ objection'[s] = objection[s]

\* Requests that are the same or freed, and no order: what was made first still
\* was, and what was in time.
LEMMA FreedKeeps ==
    ASSUME DInv, QueueKept, UNCHANGED orders,
           \A s \in Sales: queue'[s] = "NONE" => ~Doomed(s)',
           \A u \in Uploads:
               \/ upload'[u] = Free
               \/ /\ upload[u] # Free
                  /\ upload'[u].pc = upload[u].pc /\ upload'[u].sale = upload[u].sale,
           \A t \in Tabs:
               /\ tab'[t].todo \subseteq tab[t].todo \union {s \in Sales: queue[s] # "NONE"}
               /\ tab'[t].waits \in {Null, tab[t].waits}
    PROVE  MadeFirst' /\ InTime'
<1>. USE DeliveryTypes DEF DInv
<1>1. \A s \in Sales: queue'[s] = "NONE" => orders'[s] = 0 /\ ~Doomed(s)'
  BY DEF MadeFirst, QueueKept
<1>2. ASSUME NEW t \in Tabs
      PROVE  /\ \A s \in tab'[t].todo: queue'[s] # "NONE"
             /\ tab'[t].waits # Null => queue'[tab'[t].waits] # "NONE"
  <2>1. tab[t].todo \subseteq Sales /\ tab[t].waits \in Sales \union {Null}
    BY DEF TypeOK, TabRows
  <2>. QED  BY <2>1 DEF MadeFirst, QueueKept
<1>3. ASSUME NEW u \in Uploads
      PROVE  /\ upload'[u] # Free => queue'[upload'[u].sale] # "NONE"
             /\ upload'[u].pc \in {"admitted", "new", "unique", "inserted"} =>
                    ~late'[upload'[u].sale]
             /\ upload'[u].pc \in {"unique", "inserted"} =>
                    objection'[upload'[u].sale] # "CONTENT"
             /\ upload'[u].pc = "inserted" => objection'[upload'[u].sale] # "PRODUCTS"
  BY DEF MadeFirst, InTime, QueueKept, Named, Free
<1>. QED  BY <1>1, <1>2, <1>3 DEF MadeFirst, InTime

Delivers == [Delivery!DeliveryNext]_(Delivery!deliveryVars)

LEMMA NothingDelivered ==
    ASSUME UNCHANGED <<queue, late, objection, orders>>
    PROVE  QueueKept /\ Delivers
BY DEF QueueKept, Delivers, Delivery!deliveryVars, Doomed

\* A sale is made.
LEMMA SellDelivers ==
    ASSUME DInv, NEW s \in Sales, NEW o \in Operators, Sell(s, o)
    PROVE  MadeFirst' /\ InTime' /\ Delivers
<1>. USE DeliveryTypes DEF DInv
<1>1. /\ queue[s] = "NONE"
      /\ queue'[s] = "PENDING_SYNC"
      /\ \A x \in Sales \ {s}:
             queue'[x] = queue[x] /\ late'[x] = late[x] /\ objection'[x] = objection[x]
      /\ late'[s] \in BOOLEAN
      /\ UNCHANGED <<tab, upload, orders>>
  BY DEF Sell, TypeOK
<1>2. QueueKept
  BY <1>1 DEF QueueKept
<1>3. ~Doomed(s) /\ \A x \in Sales \ {s}: Doomed(x)' <=> Doomed(x)
  BY <1>1 DEF MadeFirst, Doomed
<1>4. MadeFirst' /\ InTime'
  <2>1. \A x \in Sales: queue'[x] = "NONE" => ~Doomed(x)'
    BY <1>1, <1>3 DEF MadeFirst
  <2>2. \A u \in Uploads: upload'[u] = Free \/ upload[u] # Free
    BY <1>1
  <2>3. \A t \in Tabs: tab'[t] = tab[t]
    BY <1>1
  <2>. QED  BY <1>1, <1>2, <2>1, <2>2, <2>3, FreedKeeps
<1>5. {x \in Sales: queue'[x] # "NONE"} = {x \in Sales: queue[x] # "NONE"} \union {s}
  BY <1>1
<1>6. {x \in Sales: queue'[x] = "SYNCED"} = {x \in Sales: queue[x] = "SYNCED"}
  BY <1>1
<1>7. {x \in Sales: Doomed(x)'} \in
          {{x \in Sales: Doomed(x)}, {x \in Sales: Doomed(x)} \union {s}}
  <2>1. CASE Doomed(s)'
    <3>1. {x \in Sales: Doomed(x)'} = {x \in Sales: Doomed(x)} \union {s}
      BY <1>3, <2>1
    <3>. QED  BY <3>1
  <2>2. CASE ~Doomed(s)'
    <3>1. {x \in Sales: Doomed(x)'} = {x \in Sales: Doomed(x)}
      BY <1>3, <2>2
    <3>. QED  BY <3>1
  <2>. QED  BY <2>1, <2>2
<1>8. s \in Sales \ {x \in Sales: queue[x] # "NONE"}
  BY <1>1
<1>9. Delivery!Make(s)
  BY <1>1, <1>5, <1>6, <1>7, <1>8 DEF Delivery!Make
<1>. QED  BY <1>4, <1>9 DEF Delivers, Delivery!DeliveryNext

\* The policy moves, or a product goes of a sale that is not posted.
LEMMA ObjectionDelivers ==
    ASSUME DInv, NEW s \in Sales, MovePolicy(s) \/ DeleteProduct(s)
    PROVE  MadeFirst' /\ InTime' /\ Delivers
<1>. USE DeliveryTypes DEF DInv
<1>1. PICK x \in {"NONE", "POLICY", "PRODUCTS"}:
          /\ objection' = [objection EXCEPT ![s] = x]
          /\ x = "PRODUCTS" => orders[s] = 0 /\ ~KeyTaken(s)
          /\ x # "PRODUCTS" => objection[s] \in {"NONE", "POLICY"}
  BY DEF MovePolicy, DeleteProduct, Objects
<1>2. /\ UNCHANGED <<queue, late, tab, upload, orders>>
      /\ queue[s] # "NONE"
  BY DEF MovePolicy, DeleteProduct, Objects, deviceVars
<1>3. /\ objection'[s] = x
      /\ \A y \in Sales \ {s}: objection'[y] = objection[y]
  BY <1>1 DEF TypeOK
<1>4. \A y \in Sales \ {s}: Doomed(y)' <=> Doomed(y)
  BY <1>2, <1>3 DEF Doomed
<1>5. MadeFirst'
  BY <1>2, <1>4 DEF MadeFirst
<1>6. InTime'
  <2>1. ASSUME NEW u \in Uploads
        PROVE  /\ upload[u].pc \in {"unique", "inserted"} =>
                      objection'[upload[u].sale] # "CONTENT"
               /\ upload[u].pc = "inserted" => objection'[upload[u].sale] # "PRODUCTS"
    <3>1. CASE upload[u].pc \in {"unique", "inserted"}
      <4>1. upload[u].sale \in Sales
        BY <3>1 DEF Named, Free
      <4>. QED  BY <1>1, <1>3, <3>1, <4>1 DEF InTime, KeyTaken
    <3>. QED  BY <3>1
  <2>. QED  BY <1>2, <2>1 DEF InTime
<1>7. CASE x = "PRODUCTS"
  <2>1. Doomed(s)'
    BY <1>3, <1>7 DEF Doomed
  <2>2. {y \in Sales: Doomed(y)'} = {y \in Sales: Doomed(y)} \union {s}
    BY <1>4, <2>1
  <2>3. Delivery!Refuse(s)
    BY <1>1, <1>2, <1>7, <2>2 DEF Delivery!Refuse
  <2>. QED  BY <1>5, <1>6, <2>3 DEF Delivers, Delivery!DeliveryNext
<1>8. CASE x # "PRODUCTS"
  <2>1. Doomed(s)' <=> Doomed(s)
    BY <1>1, <1>2, <1>3, <1>8 DEF Doomed
  <2>2. {y \in Sales: Doomed(y)'} = {y \in Sales: Doomed(y)}
    BY <1>4, <2>1
  <2>. QED  BY <1>2, <1>5, <1>6, <2>2 DEF Delivers, Delivery!deliveryVars
<1>. QED  BY <1>7, <1>8

\* An entry of the queue gets its answer.
LEMMA AnswerDelivers ==
    ASSUME DInv, NEW s \in Sales, queue[s] # "NONE", UNCHANGED <<late, objection, orders>>,
           NEW status \in {"SYNCED", "SYNC_FAILED"},
           status = "SYNCED" => orders[s] > 0,
           queue' = [queue EXCEPT ![s] = status]
    PROVE  QueueKept /\ Delivers
<1>. USE DeliveryTypes DEF DInv
<1>1. queue'[s] = status /\ \A x \in Sales \ {s}: queue'[x] = queue[x]
  BY DEF TypeOK
<1>2. QueueKept
  BY <1>1 DEF QueueKept
<1>3. {x \in Sales: queue'[x] # "NONE"} = {x \in Sales: queue[x] # "NONE"}
  BY <1>1
<1>4. {x \in Sales: Doomed(x)'} = {x \in Sales: Doomed(x)}
  BY DEF Doomed
<1>5. CASE status = "SYNCED"
  <2>1. {x \in Sales: queue'[x] = "SYNCED"} = {x \in Sales: queue[x] = "SYNCED"} \union {s}
    BY <1>1, <1>5
  <2>2. s \in {x \in Sales: queue[x] # "NONE"}
    OBVIOUS
  <2>3. orders[s] = 1
    BY <1>5 DEF TypeOK, PostedOnce
  <2>4. Delivery!Learn(s)
    BY <1>3, <1>4, <2>1, <2>2, <2>3 DEF Delivery!Learn
  <2>. QED  BY <1>2, <2>4 DEF Delivers, Delivery!DeliveryNext
<1>6. CASE status = "SYNC_FAILED"
  <2>1. {x \in Sales: queue'[x] = "SYNCED"} = {x \in Sales: queue[x] = "SYNCED"} \ {s}
    BY <1>1, <1>6
  <2>2. Delivery!Doubt(s)
    BY <1>3, <1>4, <2>1 DEF Delivery!Doubt
  <2>. QED  BY <1>2, <2>2 DEF Delivers, Delivery!DeliveryNext
<1>. QED  BY <1>5, <1>6

\* The loop of a tab.
LEMMA DeviceDelivers ==
    ASSUME DInv, NEW t \in Tabs,
           \/ StartSync(t) \/ GiveUp(t) \/ CloseTab(t)
           \/ \E u \in Uploads, s \in Sales: Send(t, u, s)
    PROVE  MadeFirst' /\ InTime' /\ Delivers
<1>. USE OfflineAssumption, DeliveryTypes DEF DInv
<1>1. \A x \in Sales: queue[x] = "NONE" => ~Doomed(x)
  BY DEF MadeFirst
<1>2. CASE StartSync(t)
  <2>1. UNCHANGED <<queue, late, objection, upload, orders>>
    BY <1>2 DEF StartSync
  <2>2. ToSync \subseteq {s \in Sales: queue[s] # "NONE"}
    BY DEF ToSync
  <2>3. \A r \in Tabs:
            /\ tab'[r].todo \subseteq tab[r].todo \union {s \in Sales: queue[s] # "NONE"}
            /\ tab'[r].waits = tab[r].waits
    BY <1>2, <2>2 DEF StartSync, TypeOK, TabRows
  <2>4. QueueKept /\ Delivers
    BY <2>1, NothingDelivered
  <2>5. \A x \in Sales: queue'[x] = "NONE" => ~Doomed(x)'
    BY <1>1, <2>1 DEF Doomed
  <2>. QED  BY <2>1, <2>3, <2>4, <2>5, FreedKeeps
<1>3. ASSUME GiveUp(t) \/ CloseTab(t) PROVE MadeFirst' /\ InTime' /\ Delivers
  <2>1. /\ upload' = Forgotten(t)
        /\ UNCHANGED <<late, objection, orders>>
        /\ \A r \in Tabs: tab'[r].todo \subseteq tab[r].todo /\ tab'[r].waits \in {Null, tab[r].waits}
    <3>1. CASE GiveUp(t)
      BY <3>1, SMTT(40) DEF GiveUp, Answered, TypeOK, TabRows
    <3>2. CASE CloseTab(t)
      BY <3>2, SMTT(40) DEF CloseTab, TypeOK, TabRows, Rested
    <3>. QED  BY <1>3, <3>1, <3>2
  <2>2. \A u \in Uploads:
            \/ upload'[u] = Free
            \/ /\ upload[u] # Free
               /\ upload'[u].pc = upload[u].pc /\ upload'[u].sale = upload[u].sale
    <3>1. \A u \in Uploads:
              /\ upload'[u].pc = upload[u].pc /\ upload'[u].sale = upload[u].sale
              /\ upload[u] = Free => upload'[u] = Free
      BY <2>1 DEF Forgotten, TypeOK, UploadRows, Free
    <3>. QED  BY <3>1
  <2>3. QueueKept /\ Delivers
    <3>1. CASE CloseTab(t)
      BY <3>1, NothingDelivered DEF CloseTab
    <3>2. CASE GiveUp(t)
      <4>1. tab[t].waits \in Sales /\ queue[tab[t].waits] # "NONE"
        BY <3>2 DEF GiveUp, MadeFirst, TypeOK, TabRows
      <4>2. queue' = [queue EXCEPT ![tab[t].waits] = "SYNC_FAILED"]
        BY <3>2 DEF GiveUp, Answered
      <4>. QED  BY <2>1, <4>1, <4>2, AnswerDelivers
    <3>. QED  BY <1>3, <3>1, <3>2
  <2>4. \A x \in Sales: queue'[x] = "NONE" => ~Doomed(x)'
    BY <1>1, <2>1, <2>3 DEF QueueKept, Doomed
  <2>. QED  BY <2>1, <2>2, <2>3, <2>4, FreedKeeps
<1>4. ASSUME NEW u \in Uploads, NEW s \in Sales, Send(t, u, s)
      PROVE  MadeFirst' /\ InTime' /\ Delivers
  <2>1. /\ UNCHANGED <<queue, late, objection, orders>>
        /\ s \in tab[t].todo
        /\ upload'[u] = [pc |-> "sent", sale |-> s, by |-> operator, tab |-> t]
        /\ \A v \in Uploads \ {u}: upload'[v] = upload[v]
        /\ tab'[t].waits = s /\ tab'[t].todo \subseteq tab[t].todo
        /\ \A r \in Tabs \ {t}: tab'[r] = tab[r]
    BY <1>4 DEF Send, TypeOK, TabRows
  <2>2. queue[s] # "NONE"
    BY <2>1 DEF MadeFirst
  <2>3. MadeFirst'
    <3>1. \A r \in Tabs:
              /\ \A x \in tab'[r].todo: queue'[x] # "NONE"
              /\ tab'[r].waits # Null => queue'[tab'[r].waits] # "NONE"
      BY <2>1, <2>2 DEF MadeFirst
    <3>2. \A v \in Uploads: upload'[v] # Free => queue'[upload'[v].sale] # "NONE"
      BY <2>1, <2>2 DEF MadeFirst
    <3>3. \A x \in Sales: queue'[x] = "NONE" => orders'[x] = 0 /\ ~Doomed(x)'
      BY <2>1 DEF MadeFirst, Doomed
    <3>. QED  BY <3>1, <3>2, <3>3 DEF MadeFirst
  <2>4. InTime'
    BY <2>1 DEF InTime
  <2>. QED  BY <2>1, <2>3, <2>4, NothingDelivered
<1>. QED  BY <1>2, <1>3, <1>4

\* An answer is read, or nobody reads it.
LEMMA ReceiptDelivers ==
    ASSUME DInv, NEW u \in Uploads, Receive(u) \/ Lose(u)
    PROVE  MadeFirst' /\ InTime' /\ Delivers
<1>. USE OfflineAssumption, DeliveryTypes DEF DInv
<1>1. /\ upload' = [upload EXCEPT ![u] = Free]
      /\ UNCHANGED <<late, objection, orders>>
      /\ \A v \in Uploads: upload'[v] = IF v = u THEN Free ELSE upload[v]
  BY DEF Receive, Lose, deviceVars, TypeOK
<1>2. /\ QueueKept /\ Delivers
      /\ \A r \in Tabs: tab'[r].todo = tab[r].todo /\ tab'[r].waits \in {Null, tab[r].waits}
  <2>1. CASE Lose(u)
    BY <2>1, NothingDelivered DEF Lose, deviceVars
  <2>2. CASE Receive(u)
    <3>1. /\ upload[u].tab \in Tabs
          /\ tab[upload[u].tab].waits = upload[u].sale
          /\ upload[u] # Free /\ upload[u].sale \in Sales
      BY <2>2 DEF Receive, TypeOK, UploadRows, AnswersFit, Named, Free
    <3>2. queue[upload[u].sale] # "NONE"
      BY <3>1 DEF MadeFirst
    <3>3. PICK status \in {"SYNCED", "SYNC_FAILED"}:
              /\ queue' = [queue EXCEPT ![upload[u].sale] = status]
              /\ status = "SYNCED" => orders[upload[u].sale] > 0
      BY <2>2, <3>1 DEF Receive, Answered, OkIsPosted
    <3>4. QueueKept /\ Delivers
      BY <1>1, <3>1, <3>2, <3>3, AnswerDelivers
    <3>5. \A r \in Tabs: tab'[r].todo = tab[r].todo /\ tab'[r].waits \in {Null, tab[r].waits}
      BY <2>2, <3>1 DEF Receive, Answered, TypeOK, TabRows
    <3>. QED  BY <3>4, <3>5
  <2>. QED  BY <2>1, <2>2
<1>3. \A x \in Sales: queue'[x] = "NONE" => ~Doomed(x)'
  BY <1>1, <1>2 DEF MadeFirst, QueueKept, Doomed
<1>. QED  BY <1>1, <1>2, <1>3, FreedKeeps

\* The handler goes on; its commit posts the sale.
LEMMA ServerDelivers ==
    ASSUME DInv, NEW u \in Uploads, Serve(u) \/ Rollback(u)
    PROVE  MadeFirst' /\ InTime' /\ Delivers
<1>. USE OfflineAssumption, DeliveryTypes DEF DInv
<1>1. /\ upload[u] # Free
      /\ upload[u].sale \in Sales
      /\ queue[upload[u].sale] # "NONE"
  BY DEF Serve, CheckSession, CheckDuplicate, CheckPolicy, Insert, Commit, Rollback, Free, Named, MadeFirst
<1>2. /\ UNCHANGED <<queue, late, objection, tab>>
      /\ \A v \in Uploads: upload'[v].sale = upload[v].sale
      /\ \A v \in Uploads \ {u}: upload'[v] = upload[v]
      /\ upload'[u].pc \in {"admitted", "new", "unique", "inserted"} =>
             ~late[upload[u].sale]
      /\ upload'[u].pc \in {"unique", "inserted"} => objection[upload[u].sale] # "CONTENT"
      /\ upload'[u].pc = "inserted" => objection[upload[u].sale] # "PRODUCTS"
  BY SMTT(60)
  DEF Serve, CheckSession, CheckDuplicate, CheckPolicy, Insert, Commit, Rollback, Goes, deviceVars,
      TypeOK, UploadRows, InTime
<1>3. InTime'
  BY <1>2 DEF InTime
<1>4. \A v \in Uploads: upload'[v] # Free => queue'[upload'[v].sale] # "NONE"
  BY <1>1, <1>2 DEF MadeFirst
<1>5. CASE Commit(u)
  <2>1. /\ orders' = [orders EXCEPT ![upload[u].sale] = 1]
        /\ orders[upload[u].sale] = 0 /\ ~Doomed(upload[u].sale)
    <3>1. /\ upload[u].pc = "inserted"
          /\ orders' = [orders EXCEPT ![upload[u].sale] = orders[upload[u].sale] + 1]
      BY <1>5 DEF Commit
    <3>2. orders[upload[u].sale] = 0 /\ ~Doomed(upload[u].sale)
      BY <3>1 DEF Inv, InsertedAlone, InTime, Doomed
    <3>3. orders[upload[u].sale] + 1 = 1
      BY <3>2
    <3>. QED  BY <3>1, <3>2, <3>3, Zenon
  <2>2. MadeFirst'
    <3>1. \A x \in Sales: queue'[x] = "NONE" => orders'[x] = 0 /\ ~Doomed(x)'
      BY <1>1, <1>2, <2>1 DEF MadeFirst, Doomed, TypeOK
    <3>. QED  BY <1>2, <1>4, <3>1 DEF MadeFirst
  <2>3. upload[u].sale \in {x \in Sales: queue[x] # "NONE"} \ {x \in Sales: Doomed(x)}
    BY <1>1, <2>1
  <2>4. {x \in Sales: Doomed(x)'} = {x \in Sales: Doomed(x)}
    BY <1>2 DEF Doomed
  <2>5. Delivery!Post(upload[u].sale)
    BY <1>2, <2>1, <2>3, <2>4 DEF Delivery!Post
  <2>. QED  BY <1>1, <1>3, <2>2, <2>5 DEF Delivers, Delivery!DeliveryNext
<1>6. CASE UNCHANGED orders
  <2>1. MadeFirst'
    BY <1>2, <1>4, <1>6 DEF MadeFirst, Doomed
  <2>. QED  BY <1>2, <1>3, <1>6, <2>1, NothingDelivered
<1>. QED  BY <1>5, <1>6 DEF Serve, CheckSession, CheckDuplicate, CheckPolicy, Insert, Rollback

LEMMA DeliveryStep == DInv /\ [Next]_vars => MadeFirst' /\ InTime' /\ Delivers
<1>. SUFFICES ASSUME DInv, [Next]_vars PROVE MadeFirst' /\ InTime' /\ Delivers
  OBVIOUS
<1>1. CASE \E s \in Sales:
              \/ MovePolicy(s) \/ DeleteProduct(s)
              \/ \E o \in Operators: Sell(s, o)
  BY <1>1, SellDelivers, ObjectionDelivers
<1>2. CASE \E t \in Tabs:
              \/ StartSync(t) \/ GiveUp(t) \/ CloseTab(t)
              \/ \E u \in Uploads, s \in Sales: Send(t, u, s)
  BY <1>2, DeviceDelivers
<1>3. CASE \E u \in Uploads: Receive(u) \/ Lose(u) \/ Serve(u) \/ Rollback(u)
  BY <1>3, ReceiptDelivers, ServerDelivers
<1>4. CASE (\E o \in Operators: Login(o)) \/ CloseSession \/ MoveDay \/ UNCHANGED vars
  <2>1. UNCHANGED <<queue, late, objection, tab, upload, orders>>
    BY <1>4 DEF Login, CloseSession, MoveDay, vars, deviceVars
  <2>. QED  BY <2>1, NothingDelivered DEF DInv, MadeFirst, InTime, Free, Doomed
<1>. QED  BY <1>1, <1>2, <1>3, <1>4 DEF Next

(* Tabs, network, handler and database implement SaleDelivery: a sale is   *)
(* posted at most once, and never when it was made after its session was   *)
(* closed, does not add up or has lost a product; the device takes it for  *)
(* posted only when it is.                                                 *)
THEOREM SalesAreDelivered == Spec => ImplementsDelivery
<1>1. Init => Delivery!DeliveryInit
  BY DEF Init, Delivery!DeliveryInit, Doomed
<1>2. DInv /\ [Next]_vars => DInv'
  BY NextInv, DeliveryStep DEF DInv
<1>3. DInv /\ [Next]_vars => [Delivery!DeliveryNext]_(Delivery!deliveryVars)
  BY DeliveryStep DEF Delivers
<1>. QED
  BY <1>1, <1>2, <1>3, InitDInv, PTL DEF Spec, ImplementsDelivery, Delivery!DeliverySpec
=============================================================================
