--------------------------- MODULE ProductionProofs ---------------------------
(***************************************************************************)
(* Proofs about Production, for all batches, branches, transactions and    *)
(* quantities.                                                             *)
(*                                                                         *)
(* They rest on what the locks keep for a transaction that runs (Held): no *)
(* other transaction has its batch, which stays open; and once it moved    *)
(* the stock, none has its branch, so that the price it read is the one it *)
(* writes over.  With that a batch is completed once, and is injected once *)
(* (Logged).                                                               *)
(***************************************************************************)
EXTENDS Production, Sums

Open == {"DRAFT", "PLANNED", "IN_PROGRESS"}

Ended == {"COMPLETED", "REVERSED"}

\* What a transaction may rely on until it ends.
HeldBy(r) ==
    LET b == request[r].batch
    IN  /\ b \in Batches
        /\ batch[b].status \in Open
        /\ request[r].pc = "planning" =>
               /\ batch[b].status = "DRAFT"
               /\ request[r].status \in {"PLANNED", "IN_PROGRESS"}
               /\ request[r].reserve <= batch[b].planned
        /\ request[r].pc = "producing" =>
               /\ request[r].read \in Snapshots
               /\ request[r].read.price = Snapshot(BranchOf[b]).price

Held ==
    /\ \A r \in Requests: request[r] # Idle => request[r].pc # "idle" /\ HeldBy(r)
    /\ \A r, q \in Requests:
           r # q /\ request[r].pc # "idle" /\ request[q].pc # "idle" =>
               /\ request[r].batch # request[q].batch
               /\ request[r].pc = "producing" /\ request[q].pc = "producing" =>
                      BranchOf[request[r].batch] # BranchOf[request[q].batch]

\* The last injection of a branch.
IsLast(br, i) == i \in InBranch(br) /\ \A j \in InBranch(br): j <= i

\* The events are of batches that ended, and made something; each has one.
Logged ==
    /\ \A i \in DOMAIN log:
           batch[log[i].batch].status \in Ended /\ batch[log[i].batch].made.good > 0
    /\ \A i, j \in DOMAIN log: log[i].batch = log[j].batch => i = j
    /\ \A b \in Batches:
           batch[b].status = "COMPLETED" /\ batch[b].made.good > 0 =>
               \E i \in DOMAIN log: log[i].batch = b
    /\ \A br \in Branches: InBranch(br) # {} => \E i \in InBranch(br): IsLast(br, i)

Inv == TypeOK /\ ReservedWhileOpen /\ Held /\ Logged

-----------------------------------------------------------------------------
(* The operators.                                                          *)

\* The lesser of two integers is one of them.
LEMMA MinOfTwo ==
    ASSUME NEW m \in Int, NEW n \in Int
    PROVE  Min({m, n}) \in {m, n} /\ Min({m, n}) <= m /\ Min({m, n}) <= n
<1>1. \E x \in {m, n}: \A y \in {m, n}: x <= y
  OBVIOUS
<1>. QED  BY <1>1 DEF Min

LEMMA MaxOfTwo ==
    ASSUME NEW m \in Int, NEW n \in Int
    PROVE  Max({m, n}) \in {m, n} /\ Max({m, n}) >= m /\ Max({m, n}) >= n
<1>1. \E x \in {m, n}: \A y \in {m, n}: x >= y
  OBVIOUS
<1>. QED  BY <1>1 DEF Max

LEMMA OthersReserveUnits ==
    ASSUME TypeOK, NEW b \in Batches
    PROVE  ReservedByOthers(b) \in Nat
<1>. DEFINE others == {c \in Batches \ {b}: BranchOf[c] = BranchOf[b]
                                            /\ batch[c].status \in {"PLANNED", "IN_PROGRESS"}}
<1>1. IsFiniteSet(others)
  BY FS_Subset, ProductionAssumption
<1>2. [c \in others |-> batch[c].reserved] \in [others -> Nat]
  BY ProductionAssumption DEF TypeOK, BatchRows, Units
<1>. HIDE DEF others
<1>3. SumFunction([c \in others |-> batch[c].reserved]) \in Nat
  BY <1>1, <1>2, SumIsNat
<1>. QED  BY <1>3 DEF ReservedByOthers, others

\* What is reserved is at most what was planned.
LEMMA ReserveIsPlanned ==
    ASSUME TypeOK, NEW b \in Batches
    PROVE  LET free == stock[BranchOf[b]].input - ReservedByOthers(b)
               reserve == Min({batch[b].planned, Max({0, free})})
           IN  reserve \in Units /\ reserve <= batch[b].planned
<1>. DEFINE free == stock[BranchOf[b]].input - ReservedByOthers(b)
            most == Max({0, free})
            reserve == Min({batch[b].planned, most})
<1>1. free \in Int
  <2>1. stock[BranchOf[b]].input \in Int
    BY ProductionAssumption DEF TypeOK, Stocks
  <2>. QED  BY <2>1, OthersReserveUnits
<1>2. most \in Int /\ most >= 0
  <2>. HIDE DEF free
  <2>1. Max({0, free}) \in {0, free} /\ Max({0, free}) >= 0
    BY <1>1, MaxOfTwo
  <2>. QED  BY <1>1, <2>1
<1>3. batch[b].planned \in Units
  BY DEF TypeOK, BatchRows
<1>4. reserve \in {batch[b].planned, most} /\ reserve <= batch[b].planned
  <2>. HIDE DEF most
  <2>1. batch[b].planned \in Int
    BY <1>3, ProductionAssumption DEF Units
  <2>. QED  BY <1>2, <2>1, MinOfTwo
<1>. HIDE DEF reserve, most
<1>5. reserve \in Units
  BY <1>2, <1>3, <1>4, ProductionAssumption DEF Units
<1>. QED  BY <1>4, <1>5 DEF reserve, most

LEMMA AfterIsStock ==
    ASSUME NEW s \in Stocks, NEW made \in Made, NEW sign \in {1, -1}
    PROVE  After(s, made, sign) \in Stocks
BY ProductionAssumption DEF After, Stocks, Made, Units

LEMMA SnapshotIsOne ==
    ASSUME TypeOK, NEW br \in Branches
    PROVE  Snapshot(br) \in Snapshots
BY DEF TypeOK, Snapshot, Snapshots, Settings

\* A transaction that runs is in one of three steps, and holds a batch.
LEMMA Running ==
    ASSUME Inv, NEW r \in Requests, request[r].pc # "idle"
    PROVE  HeldBy(r) /\ request[r].batch \in Batches
                     /\ BranchOf[request[r].batch] \in Branches
<1>1. request[r] # Idle
  BY DEF Idle
<1>2. HeldBy(r)
  BY <1>1 DEF Inv, Held
<1>. QED  BY <1>2, ProductionAssumption DEF HeldBy

-----------------------------------------------------------------------------
(* Types.                                                                  *)

LEMMA InitInv == Init => Inv
<1>. SUFFICES ASSUME Init PROVE Inv
  OBVIOUS
<1>. USE ProductionAssumption
<1>1. TypeOK
  BY DEF Init, TypeOK, NoBatch, Nothing, Made, BatchRows, Statuses, Units, Idle, RequestRows,
         Stocks, Settings, Figures
<1>2. ReservedWhileOpen
  BY DEF Init, ReservedWhileOpen, NoBatch
<1>3. Held
  BY DEF Init, Held, Idle
<1>4. Logged
  <2>1. DOMAIN log = {}
    BY DEF Init
  <2>. QED  BY <2>1 DEF Init, Logged, InBranch, NoBatch
<1>. QED  BY <1>1, <1>2, <1>3, <1>4 DEF Inv

LEMMA BeginKeepsTypes ==
    ASSUME TypeOK, NEW r \in Requests, NEW rec \in RequestRows, Begin(r, rec)
    PROVE  request' \in [Requests -> RequestRows]
BY DEF TypeOK, Begin

LEMMA EndKeepsTypes ==
    ASSUME TypeOK, NEW r \in Requests, End(r)
    PROVE  request' \in [Requests -> RequestRows]
BY ProductionAssumption DEF TypeOK, End, Idle, RequestRows, Statuses, Units, Made, Nothing

\* The figures that an injection writes are figures, and so are its snapshots.
LEMMA InjectKeepsTypes ==
    ASSUME TypeOK, NEW b \in Batches, NEW policy \in Policies, NEW before \in Snapshots,
           Inject(b, policy, before)
    PROVE  /\ setting' \in [Branches -> Settings] /\ standard' \in Figures
           /\ log' \in Seq(Events)
<1>. DEFINE current == IF before.price = "UNSET" THEN before.standard ELSE before.price
            next == IF policy = "RECALCULATE" THEN b ELSE current
            written == policy # "APPROVAL_REQUIRED"
            after == [standard |-> IF written THEN next ELSE before.standard, cost |-> b,
                      price |-> IF written THEN next ELSE before.price]
<1>1. next \in Figures /\ b \in Figures
  BY DEF Snapshots, Figures
<1>2. after \in Snapshots
  <2>. HIDE DEF next
  <2>. QED  BY <1>1 DEF Snapshots
<1>. HIDE DEF next
<1>3. standard' \in Figures
  BY <1>1 DEF Inject, TypeOK, next
<1>4. setting' \in [Branches -> Settings]
  <2>1. setting' = [setting EXCEPT ![BranchOf[b]] =
            [cost |-> b,
             price |-> IF written \/ @.price = "NOROW" THEN next ELSE @.price]]
    BY DEF Inject, next
  <2>2. setting[BranchOf[b]] \in Settings
    BY ProductionAssumption DEF TypeOK
  <2>. QED  BY <1>1, <2>1, <2>2 DEF TypeOK, Settings
<1>5. log' = Append(log, [batch |-> b, before |-> before, after |-> after])
  BY DEF Inject, next
<1>6. log' \in Seq(Events)
  <2>1. [batch |-> b, before |-> before, after |-> after] \in Events
    BY <1>2 DEF Events
  <2>. HIDE DEF after
  <2>. QED  BY <1>5, <2>1 DEF TypeOK
<1>. QED  BY <1>3, <1>4, <1>6

\* The injection of a batch that ended and made something is in the log.
LEMMA InjectionIsLogged ==
    ASSUME Inv, NEW b \in Batches, batch[b].status = "COMPLETED", batch[b].made.good > 0
    PROVE  InjectionOf(b) \in DOMAIN log /\ log[InjectionOf(b)].batch = b
<1>1. \E i \in DOMAIN log: log[i].batch = b
  BY DEF Inv, Logged
<1>. QED  BY <1>1 DEF InjectionOf

LEMMA EventsAreTyped ==
    ASSUME TypeOK, NEW i \in DOMAIN log
    PROVE  log[i] \in Events
BY DEF TypeOK

LEMMA RestoreKeepsTypes ==
    ASSUME Inv, NEW b \in Batches, batch[b].status = "COMPLETED", batch[b].made.good > 0,
           Restore(b)
    PROVE  setting' \in [Branches -> Settings] /\ standard' \in Figures
<1>. DEFINE before == log[InjectionOf(b)].before
<1>1. before \in Snapshots
  BY InjectionIsLogged, EventsAreTyped DEF Inv, Events
<1>2. \/ UNCHANGED <<standard, setting>>
      \/ /\ standard' = before.standard
         /\ setting' = [setting EXCEPT ![BranchOf[b]] =
                           [cost |-> before.cost, price |-> before.price]]
  BY DEF Restore
<1>. HIDE DEF before
<1>3. [cost |-> before.cost, price |-> before.price] \in Settings
  BY <1>1 DEF Snapshots, Settings
<1>. QED  BY <1>1, <1>2, <1>3 DEF Inv, TypeOK, Snapshots

\* Zero is a number of units, and nothing is made of nothing.
LEMMA NothingIsMade == 0 \in Units /\ Nothing \in Made
BY ProductionAssumption DEF Units, Nothing, Made

LEMMA TypesKept ==
    ASSUME Inv, [Next]_vars
    PROVE  TypeOK'
<1>. USE DEF Inv
<1>1. ASSUME NEW b \in Batches, NEW n \in Units \ {0}, CreateBatch(b, n)
      PROVE  TypeOK'
  BY <1>1 DEF TypeOK, CreateBatch, BatchRows, Statuses, stockVars, priceVars
<1>2. ASSUME NEW b \in Batches, StartPlanned(b)
      PROVE  TypeOK'
  BY <1>2 DEF TypeOK, StartPlanned, BatchRows, Statuses, stockVars, priceVars
<1>3. ASSUME NEW b \in Batches, CancelBatch(b)
      PROVE  TypeOK'
  <2>1. batch' = [batch EXCEPT ![b] = [batch[b] EXCEPT !.status = "CANCELLED", !.reserved = 0]]
    BY <1>3 DEF TypeOK, CancelBatch
  <2>2. [batch[b] EXCEPT !.status = "CANCELLED", !.reserved = 0] \in BatchRows
    BY NothingIsMade DEF TypeOK, BatchRows, Statuses
  <2>3. batch' \in [Batches -> BatchRows]
    BY <2>1, <2>2 DEF TypeOK
  <2>. QED  BY <1>3, <2>3 DEF TypeOK, CancelBatch, stockVars, priceVars
<1>4. ASSUME NEW b \in Batches, ReverseBatch(b)
      PROVE  TypeOK'
  <2>1. batch' \in [Batches -> BatchRows]
    BY <1>4 DEF TypeOK, ReverseBatch, BatchRows, Statuses
  <2>2. stock' \in [Branches -> Stocks]
    <3>1. stock' = [stock EXCEPT ![BranchOf[b]] = After(stock[BranchOf[b]], batch[b].made, -1)]
      BY <1>4 DEF ReverseBatch
    <3>2. stock[BranchOf[b]] \in Stocks /\ batch[b].made \in Made
      BY ProductionAssumption DEF TypeOK, BatchRows
    <3>3. After(stock[BranchOf[b]], batch[b].made, -1) \in Stocks
      BY <3>2, AfterIsStock
    <3>. QED  BY <3>1, <3>3 DEF TypeOK
  <2>3. setting' \in [Branches -> Settings] /\ standard' \in Figures
    <3>1. CASE batch[b].made.good > 0
      BY <1>4, <3>1, RestoreKeepsTypes DEF ReverseBatch
    <3>2. CASE ~(batch[b].made.good > 0)
      BY <1>4, <3>2 DEF ReverseBatch, TypeOK
    <3>. QED  BY <3>1, <3>2
  <2>. QED  BY <1>4, <2>1, <2>2, <2>3 DEF TypeOK, ReverseBatch
<1>5. ASSUME NEW r \in Requests, NEW b \in Batches, NEW status \in {"PLANNED", "IN_PROGRESS"},
             PlanRead(r, b, status)
      PROVE  TypeOK'
  <2>. DEFINE free == stock[BranchOf[b]].input - ReservedByOthers(b)
              reserve == Min({batch[b].planned, Max({0, free})})
              rec == [Idle EXCEPT !.pc = "planning", !.batch = b, !.status = status,
                                  !.reserve = reserve]
  <2>1. reserve \in Units
    BY ReserveIsPlanned
  <2>2. Begin(r, rec)
    BY <1>5 DEF PlanRead
  <2>. HIDE DEF reserve
  <2>3. rec \in RequestRows
    <3>1. Idle \in RequestRows
      BY NothingIsMade DEF Idle, RequestRows, Statuses
    <3>. QED  BY <2>1, <3>1 DEF RequestRows, Statuses
  <2>. HIDE DEF rec
  <2>4. request' \in [Requests -> RequestRows]
    BY <2>2, <2>3, BeginKeepsTypes
  <2>. QED  BY <1>5, <2>4 DEF PlanRead, TypeOK, stockVars, priceVars
<1>6. ASSUME NEW r \in Requests, NEW b \in Batches, CompleteRead(r, b)
      PROVE  TypeOK'
  <2>. DEFINE rec == [Idle EXCEPT !.pc = "completing", !.batch = b,
                                  !.read = Snapshot(BranchOf[b])]
  <2>1. Snapshot(BranchOf[b]) \in Snapshots
    BY SnapshotIsOne, ProductionAssumption
  <2>2. rec \in RequestRows
    <3>1. Idle \in RequestRows
      BY NothingIsMade DEF Idle, RequestRows, Statuses
    <3>. QED  BY <2>1, <3>1 DEF RequestRows, Statuses
  <2>3. Begin(r, rec)
    BY <1>6 DEF CompleteRead
  <2>. HIDE DEF rec
  <2>4. request' \in [Requests -> RequestRows]
    BY <2>2, <2>3, BeginKeepsTypes
  <2>. QED  BY <1>6, <2>4 DEF CompleteRead, TypeOK, stockVars, priceVars
<1>7. ASSUME NEW r \in Requests, PlanCommit(r)
      PROVE  TypeOK'
  <2>1. request' \in [Requests -> RequestRows]
    BY <1>7, EndKeepsTypes DEF PlanCommit
  <2>2. batch' \in [Batches -> BatchRows]
    <3>. DEFINE b == request[r].batch
                row == [batch[b] EXCEPT !.status = request[r].status,
                                        !.reserved = request[r].reserve]
    <3>1. b \in Batches
      BY <1>7, Running DEF PlanCommit
    <3>2. batch' = [batch EXCEPT ![b] = row]
      BY <1>7, <3>1 DEF PlanCommit, TypeOK
    <3>3. row \in BatchRows
      BY <3>1 DEF TypeOK, BatchRows, RequestRows
    <3>. QED  BY <3>2, <3>3 DEF TypeOK
  <2>. QED  BY <1>7, <2>1, <2>2 DEF PlanCommit, TypeOK, stockVars, priceVars
<1>8. ASSUME NEW r \in Requests, Abort(r)
      PROVE  TypeOK'
  <2>1. request' \in [Requests -> RequestRows]
    BY <1>8, EndKeepsTypes DEF Abort
  <2>. QED  BY <1>8, <2>1 DEF Abort, TypeOK, stockVars, priceVars
<1>9. ASSUME NEW r \in Requests, NEW made \in Made, CompleteMove(r, made)
      PROVE  TypeOK'
  <2>1. Snapshot(BranchOf[request[r].batch]) \in Snapshots
    BY <1>9, Running, SnapshotIsOne DEF CompleteMove
  <2>2. request' \in [Requests -> RequestRows]
    <3>. DEFINE row == [request[r] EXCEPT !.pc = "producing", !.made = made,
                                          !.read = Snapshot(BranchOf[request[r].batch])]
    <3>1. request' = [request EXCEPT ![r] = row]
      BY <1>9 DEF CompleteMove, TypeOK
    <3>2. row \in RequestRows
      BY <2>1 DEF TypeOK, RequestRows
    <3>. QED  BY <3>1, <3>2 DEF TypeOK
  <2>. QED  BY <1>9, <2>2 DEF CompleteMove, TypeOK, stockVars, priceVars
<1>10. ASSUME NEW r \in Requests, NEW policy \in Policies, CompleteCommit(r, policy)
       PROVE  TypeOK'
  <2>. DEFINE b == request[r].batch
              made == request[r].made
  <2>1. HeldBy(r) /\ b \in Batches /\ BranchOf[b] \in Branches
    BY <1>10, Running DEF CompleteCommit
  <2>2. made \in Made /\ request[r].read \in Snapshots
    BY <1>10, <2>1 DEF TypeOK, RequestRows, HeldBy, CompleteCommit
  <2>3. request' \in [Requests -> RequestRows]
    BY <1>10, EndKeepsTypes DEF CompleteCommit
  <2>4. batch' \in [Batches -> BatchRows]
    <3>. DEFINE row == [batch[b] EXCEPT !.status = "COMPLETED", !.reserved = 0, !.made = made]
    <3>1. batch' = [batch EXCEPT ![b] = row]
      BY <1>10, <2>1 DEF CompleteCommit, TypeOK
    <3>2. row \in BatchRows
      BY <2>1, <2>2, NothingIsMade DEF TypeOK, BatchRows, Statuses
    <3>. QED  BY <3>1, <3>2 DEF TypeOK
  <2>5. stock' \in [Branches -> Stocks]
    <3>1. stock' = [stock EXCEPT ![BranchOf[b]] = After(stock[BranchOf[b]], made, 1)]
      BY <1>10 DEF CompleteCommit
    <3>2. After(stock[BranchOf[b]], made, 1) \in Stocks
      BY <2>1, <2>2, AfterIsStock DEF TypeOK
    <3>. QED  BY <3>1, <3>2 DEF TypeOK
  <2>6. setting' \in [Branches -> Settings] /\ standard' \in Figures /\ log' \in Seq(Events)
    <3>1. CASE made.good > 0
      <4>1. Inject(b, policy, request[r].read)
        BY <1>10, <3>1 DEF CompleteCommit
      <4>. QED  BY <2>1, <2>2, <4>1, InjectKeepsTypes
    <3>2. CASE ~(made.good > 0)
      BY <1>10, <3>2 DEF CompleteCommit, TypeOK, priceVars
    <3>. QED  BY <3>1, <3>2
  <2>7. moved' = moved
    BY <1>10 DEF CompleteCommit
  <2>. QED  BY <2>3, <2>4, <2>5, <2>6, <2>7 DEF TypeOK
<1>11. ASSUME NEW br \in Trading, NEW d \in Deltas, Move(br, d)
       PROVE  TypeOK'
  <2>1. br \in Branches
    BY ProductionAssumption
  <2>2. ASSUME NEW s \in Stocks
        PROVE  Plus(s, d) \in Stocks
    BY DEF Plus, Stocks, Deltas
  <2>3. stock[br] \in Stocks /\ moved[br] \in Stocks
    BY <2>1 DEF TypeOK
  <2>4. Plus(stock[br], d) \in Stocks /\ Plus(moved[br], d) \in Stocks
    BY <2>2, <2>3
  <2>. QED  BY <1>11, <2>4 DEF Move, TypeOK, priceVars
<1>12. CASE UNCHANGED vars
  BY <1>12 DEF vars, stockVars, priceVars, TypeOK
<1>. QED
  BY <1>1, <1>2, <1>3, <1>4, <1>5, <1>6, <1>7, <1>8, <1>9, <1>10, <1>11, <1>12 DEF Next

-----------------------------------------------------------------------------
(* Reservations.                                                           *)

LEMMA ReservedKept ==
    ASSUME Inv, [Next]_vars
    PROVE  ReservedWhileOpen'
<1>1. ASSUME batch' = batch PROVE ReservedWhileOpen'
  BY <1>1 DEF Inv, ReservedWhileOpen
<1>2. ASSUME NEW b \in Batches, NEW n \in Units \ {0}, CreateBatch(b, n)
      PROVE  ReservedWhileOpen'
  BY <1>2 DEF Inv, TypeOK, ReservedWhileOpen, CreateBatch, BatchRows, Units
<1>3. ASSUME NEW b \in Batches, StartPlanned(b)
      PROVE  ReservedWhileOpen'
  BY <1>3 DEF Inv, TypeOK, ReservedWhileOpen, StartPlanned, BatchRows
<1>4. ASSUME NEW b \in Batches, CancelBatch(b)
      PROVE  ReservedWhileOpen'
  BY <1>4 DEF Inv, TypeOK, ReservedWhileOpen, CancelBatch, BatchRows
<1>5. ASSUME NEW b \in Batches, ReverseBatch(b)
      PROVE  ReservedWhileOpen'
  BY <1>5 DEF Inv, TypeOK, ReservedWhileOpen, ReverseBatch, BatchRows
<1>6. ASSUME NEW r \in Requests, PlanCommit(r)
      PROVE  ReservedWhileOpen'
  <2>1. HeldBy(r)
    BY <1>6, Running DEF PlanCommit
  <2>. QED  BY <1>6, <2>1 DEF Inv, TypeOK, ReservedWhileOpen, PlanCommit, HeldBy, BatchRows
<1>7. ASSUME NEW r \in Requests, NEW policy \in Policies, CompleteCommit(r, policy)
      PROVE  ReservedWhileOpen'
  BY <1>7 DEF Inv, TypeOK, ReservedWhileOpen, CompleteCommit, BatchRows
<1>. QED
  BY <1>1, <1>2, <1>3, <1>4, <1>5, <1>6, <1>7
     DEF Next, vars, PlanRead, CompleteRead, CompleteMove, Abort, Move

-----------------------------------------------------------------------------
(* Locks.                                                                  *)

\* A transaction keeps what it relies on while nobody touches its batch, nor,
\* once it moved stock, the setting of its branch.
LEMMA StillHeld ==
    ASSUME Inv, NEW r \in Requests, request[r].pc # "idle", request'[r] = request[r],
           batch'[request[r].batch] = batch[request[r].batch],
           request[r].pc = "producing" =>
               setting'[BranchOf[request[r].batch]] = setting[BranchOf[request[r].batch]]
    PROVE  HeldBy(r)'
<1>1. HeldBy(r)
  BY Running
<1>. QED  BY <1>1 DEF HeldBy, Snapshot

\* A transaction that is not Idle runs.
LEMMA RunningOrIdle ==
    ASSUME Inv, NEW r \in Requests
    PROVE  request[r] = Idle <=> request[r].pc = "idle"
BY DEF Inv, Held, Idle

\* The transactions of Held, two at a time.
Apart(r, q) ==
    request[r].pc # "idle" /\ request[q].pc # "idle" =>
        /\ request[r].batch # request[q].batch
        /\ request[r].pc = "producing" /\ request[q].pc = "producing" =>
               BranchOf[request[r].batch] # BranchOf[request[q].batch]

LEMMA HeldIsApart ==
    Held <=> /\ \A r \in Requests:
                    request[r] # Idle => request[r].pc # "idle" /\ HeldBy(r)
             /\ \A r, q \in Requests: r # q => Apart(r, q)
BY DEF Held, Apart

LEMMA ApartIsSymmetric ==
    ASSUME NEW r \in Requests, NEW q \in Requests
    PROVE  Apart(r, q) <=> Apart(q, r)
BY DEF Apart

\* A transaction that moves on, or starts, or ends, leaves the others alone.
LEMMA OthersHeld ==
    ASSUME Inv, NEW r \in Requests, NEW rec \in RequestRows,
           request' = [request EXCEPT ![r] = rec],
           rec # Idle => rec.pc # "idle" /\ HeldBy(r)',
           \A q \in Requests \ {r}: request[q].pc # "idle" =>
               /\ batch'[request[q].batch] = batch[request[q].batch]
               /\ request[q].pc = "producing" =>
                      setting'[BranchOf[request[q].batch]] = setting[BranchOf[request[q].batch]]
               /\ Apart(r, q)'
    PROVE  Held'
<1>1. request'[r] = rec /\ \A q \in Requests \ {r}: request'[q] = request[q]
  BY DEF Inv, TypeOK
<1>2. \A q \in Requests: request'[q] # Idle => request'[q].pc # "idle" /\ HeldBy(q)'
  <2>. SUFFICES ASSUME NEW q \in Requests \ {r}, request[q] # Idle
                PROVE  request'[q].pc # "idle" /\ HeldBy(q)'
    BY <1>1
  <2>1. request[q].pc # "idle"
    BY RunningOrIdle
  <2>. QED  BY <1>1, <2>1, StillHeld
<1>3. \A p, q \in Requests: p # q => Apart(p, q)'
  <2>1. \A q \in Requests \ {r}: Apart(r, q)' /\ Apart(q, r)'
    <3>. SUFFICES ASSUME NEW q \in Requests \ {r}
                  PROVE  Apart(r, q)' /\ Apart(q, r)'
      OBVIOUS
    <3>1. Apart(r, q)'
      <4>1. CASE request[q].pc = "idle"
        BY <1>1, <4>1 DEF Apart
      <4>. QED  BY <4>1
    <3>. QED  BY <3>1 DEF Apart
  <2>2. \A p, q \in Requests \ {r}: p # q => Apart(p, q)'
    <3>1. \A p, q \in Requests \ {r}: p # q => Apart(p, q)
      BY HeldIsApart DEF Inv
    <3>. QED  BY <1>1, <3>1 DEF Apart
  <2>. QED  BY <2>1, <2>2
<1>. QED  BY <1>2, <1>3 DEF Held, Apart

LEMMA BeginHeld ==
    ASSUME Inv, NEW r \in Requests, NEW rec \in RequestRows, Begin(r, rec),
           rec.pc \in {"planning", "completing"}, HeldBy(r)',
           batch' = batch, setting' = setting
    PROVE  Held'
<1>1. request' = [request EXCEPT ![r] = rec] /\ request'[r] = rec
  BY DEF Begin, Inv, TypeOK
<1>2. \A q \in Requests \ {r}: request'[q] = request[q]
  BY <1>1
<1>3. \A q \in Requests: request[q].batch # rec.batch
  BY DEF Begin, BatchLocked
<1>4. \A q \in Requests \ {r}: Apart(r, q)'
  BY <1>1, <1>2, <1>3 DEF Apart
<1>. QED  BY <1>1, <1>4, OthersHeld

\* A transaction ends, and changed only its batch and, if it moved stock, the
\* setting of its branch.
LEMMA EndHeld ==
    ASSUME Inv, NEW r \in Requests, request[r].pc # "idle", End(r),
           \A b \in Batches \ {request[r].batch}: batch'[b] = batch[b],
           \/ setting' = setting
           \/ /\ request[r].pc = "producing"
              /\ \A br \in Branches \ {BranchOf[request[r].batch]}: setting'[br] = setting[br]
    PROVE  Held'
<1>1. request' = [request EXCEPT ![r] = Idle] /\ request'[r] = Idle
  BY DEF End, Inv, TypeOK
<1>2. Idle \in RequestRows
  BY NothingIsMade DEF Idle, RequestRows, Statuses
<1>3. \A q \in Requests \ {r}: request[q].pc # "idle" =>
          /\ batch'[request[q].batch] = batch[request[q].batch]
          /\ request[q].pc = "producing" =>
                 setting'[BranchOf[request[q].batch]] = setting[BranchOf[request[q].batch]]
          /\ Apart(r, q)'
  <2>. SUFFICES ASSUME NEW q \in Requests \ {r}, request[q].pc # "idle"
                PROVE  /\ batch'[request[q].batch] = batch[request[q].batch]
                       /\ request[q].pc = "producing" =>
                              setting'[BranchOf[request[q].batch]]
                                  = setting[BranchOf[request[q].batch]]
                       /\ Apart(r, q)'
    OBVIOUS
  <2>1. request[q].batch \in Batches /\ BranchOf[request[q].batch] \in Branches
    BY Running
  <2>2. Apart(r, q)
    BY HeldIsApart DEF Inv
  <2>3. Apart(r, q)'
    BY <1>1 DEF Apart, Idle
  <2>. QED  BY <2>1, <2>2, <2>3 DEF Apart
<1>. QED  BY <1>1, <1>2, <1>3, OthersHeld

\* A step of no transaction, on a batch that none holds.
LEMMA NobodysHeld ==
    ASSUME Inv, request' = request, NEW b \in Batches,
           \A r \in Requests: request[r].pc # "idle" => request[r].batch # b,
           \A c \in Batches \ {b}: batch'[c] = batch[c],
           \A r \in Requests: request[r].pc = "producing" =>
               setting'[BranchOf[request[r].batch]] = setting[BranchOf[request[r].batch]]
    PROVE  Held'
<1>1. \A r \in Requests: request'[r] # Idle => request'[r].pc # "idle" /\ HeldBy(r)'
  <2>. SUFFICES ASSUME NEW r \in Requests, request[r] # Idle
                PROVE  request'[r].pc # "idle" /\ HeldBy(r)'
    OBVIOUS
  <2>1. request[r].pc # "idle"
    BY RunningOrIdle
  <2>2. request[r].batch \in Batches \ {b}
    BY <2>1, Running
  <2>. QED  BY <2>1, <2>2, StillHeld
<1>2. \A r, q \in Requests: r # q => Apart(r, q)'
  BY HeldIsApart DEF Inv, Apart
<1>. QED  BY <1>1, <1>2 DEF Held, Apart

LEMMA PlanReadHeld ==
    ASSUME Inv, NEW r \in Requests, NEW b \in Batches,
           NEW status \in {"PLANNED", "IN_PROGRESS"}, PlanRead(r, b, status)
    PROVE  Held'
<1>. DEFINE free == stock[BranchOf[b]].input - ReservedByOthers(b)
            reserve == Min({batch[b].planned, Max({0, free})})
            rec == [Idle EXCEPT !.pc = "planning", !.batch = b, !.status = status,
                                !.reserve = reserve]
<1>1. reserve \in Units /\ reserve <= batch[b].planned
  BY ReserveIsPlanned DEF Inv
<1>2. Begin(r, rec) /\ batch' = batch /\ setting' = setting /\ batch[b].status = "DRAFT"
  BY DEF PlanRead, priceVars
<1>. HIDE DEF reserve
<1>3. Idle \in RequestRows
  BY NothingIsMade DEF Idle, RequestRows, Statuses
<1>4. /\ rec \in RequestRows /\ rec.pc = "planning" /\ rec.batch = b
      /\ rec.status = status /\ rec.reserve = reserve
  BY <1>1, <1>3 DEF RequestRows, Statuses
<1>. HIDE DEF rec
<1>5. request'[r] = rec
  BY <1>2 DEF Begin, Inv, TypeOK
<1>6. HeldBy(r)'
  BY <1>1, <1>2, <1>4, <1>5 DEF HeldBy, Open
<1>. QED  BY <1>2, <1>4, <1>6, BeginHeld

LEMMA CompleteReadHeld ==
    ASSUME Inv, NEW r \in Requests, NEW b \in Batches, CompleteRead(r, b)
    PROVE  Held'
<1>. DEFINE rec == [Idle EXCEPT !.pc = "completing", !.batch = b,
                                !.read = Snapshot(BranchOf[b])]
<1>1. Snapshot(BranchOf[b]) \in Snapshots
  BY SnapshotIsOne, ProductionAssumption DEF Inv
<1>2. Begin(r, rec) /\ batch' = batch /\ setting' = setting /\ batch[b].status \in Open
  BY DEF CompleteRead, priceVars, Open
<1>3. Idle \in RequestRows
  BY NothingIsMade DEF Idle, RequestRows, Statuses
<1>4. rec \in RequestRows /\ rec.pc = "completing" /\ rec.batch = b
  BY <1>1, <1>3 DEF RequestRows
<1>. HIDE DEF rec
<1>5. request'[r] = rec
  BY <1>2 DEF Begin, Inv, TypeOK
<1>6. HeldBy(r)'
  BY <1>2, <1>4, <1>5 DEF HeldBy
<1>. QED  BY <1>2, <1>4, <1>6, BeginHeld

LEMMA CompleteMoveHeld ==
    ASSUME Inv, NEW r \in Requests, NEW made \in Made, CompleteMove(r, made)
    PROVE  Held'
<1>. DEFINE br == BranchOf[request[r].batch]
            rec == [request[r] EXCEPT !.pc = "producing", !.made = made, !.read = Snapshot(br)]
<1>1. HeldBy(r) /\ request[r].batch \in Batches /\ br \in Branches
  BY Running DEF CompleteMove
<1>2. Snapshot(br) \in Snapshots
  BY <1>1, SnapshotIsOne DEF Inv
<1>3. /\ rec \in RequestRows /\ rec.pc = "producing" /\ rec.batch = request[r].batch
      /\ rec.read = Snapshot(br)
  BY <1>2 DEF Inv, TypeOK, RequestRows
<1>4. request' = [request EXCEPT ![r] = rec] /\ batch' = batch /\ setting' = setting
  BY DEF CompleteMove, Inv, TypeOK, priceVars
<1>5. \A q \in Requests: request[q].pc = "producing" => BranchOf[request[q].batch] # br
  BY DEF CompleteMove, BalancesLocked
<1>. HIDE DEF rec, br
<1>6. request'[r] = rec
  BY <1>4 DEF Inv, TypeOK
<1>7. HeldBy(r)'
  <2>1. request'[r].batch = request[r].batch /\ request'[r].read.price = Snapshot(br).price
    BY <1>3, <1>6
  <2>. QED  BY <1>1, <1>2, <1>3, <1>4, <1>6, <2>1 DEF HeldBy, Snapshot, br
<1>8. \A q \in Requests \ {r}: Apart(r, q)'
  <2>. SUFFICES ASSUME NEW q \in Requests \ {r} PROVE Apart(r, q)'
    OBVIOUS
  <2>1. Apart(r, q) /\ request'[q] = request[q]
    BY <1>4, HeldIsApart DEF Inv
  <2>. QED  BY <1>3, <1>5, <1>6, <2>1 DEF Apart, CompleteMove, br
<1>. QED  BY <1>3, <1>4, <1>7, <1>8, OthersHeld

\* A transaction that injects writes the setting of its own branch.
LEMMA CompleteCommitHeld ==
    ASSUME Inv, NEW r \in Requests, NEW policy \in Policies, CompleteCommit(r, policy)
    PROVE  Held'
<1>1. request[r].pc = "producing" /\ End(r)
  BY DEF CompleteCommit
<1>2. \A b \in Batches \ {request[r].batch}: batch'[b] = batch[b]
  BY DEF CompleteCommit, Inv, TypeOK
<1>3. \A br \in Branches \ {BranchOf[request[r].batch]}: setting'[br] = setting[br]
  BY DEF CompleteCommit, Inject, Inv, TypeOK, priceVars
<1>. QED  BY <1>1, <1>2, <1>3, EndHeld

LEMMA ReverseBatchHeld ==
    ASSUME Inv, NEW b \in Batches, ReverseBatch(b)
    PROVE  Held'
<1>1. request' = request /\ \A r \in Requests: request[r].batch # b
  BY DEF ReverseBatch, BatchLocked
<1>2. \A c \in Batches \ {b}: batch'[c] = batch[c]
  BY DEF ReverseBatch, Inv, TypeOK
<1>3. \A br \in Branches \ {BranchOf[b]}: setting'[br] = setting[br]
  BY DEF ReverseBatch, Restore, Inv, TypeOK
<1>4. \A r \in Requests: request[r].pc = "producing" =>
          /\ BranchOf[request[r].batch] \in Branches
          /\ BranchOf[request[r].batch] # BranchOf[b]
  BY Running DEF ReverseBatch, BalancesLocked
<1>. QED  BY <1>1, <1>2, <1>3, <1>4, NobodysHeld

LEMMA HeldKept ==
    ASSUME Inv, [Next]_vars
    PROVE  Held'
<1>1. ASSUME NEW b \in Batches, NEW n \in Units \ {0}, CreateBatch(b, n)
      PROVE  Held'
  <2>1. \A r \in Requests: request[r].pc # "idle" => request[r].batch # b
    BY <1>1, Running DEF CreateBatch, HeldBy, Open
  <2>. QED  BY <1>1, <2>1, NobodysHeld DEF CreateBatch, priceVars, Inv, TypeOK
<1>2. ASSUME NEW b \in Batches, StartPlanned(b)
      PROVE  Held'
  BY <1>2, NobodysHeld DEF StartPlanned, BatchLocked, priceVars, Inv, TypeOK
<1>3. ASSUME NEW b \in Batches, CancelBatch(b)
      PROVE  Held'
  BY <1>3, NobodysHeld DEF CancelBatch, BatchLocked, priceVars, Inv, TypeOK
<1>4. ASSUME NEW r \in Requests, PlanCommit(r)
      PROVE  Held'
  BY <1>4, EndHeld DEF PlanCommit, priceVars, Inv, TypeOK
<1>5. ASSUME NEW r \in Requests, Abort(r)
      PROVE  Held'
  BY <1>5, RunningOrIdle, EndHeld DEF Abort, priceVars
<1>6. ASSUME request' = request, batch' = batch, setting' = setting
      PROVE  Held'
  BY <1>6 DEF Inv, Held, HeldBy, Snapshot
<1>. QED
  BY <1>1, <1>2, <1>3, <1>4, <1>5, <1>6, PlanReadHeld, CompleteReadHeld, CompleteMoveHeld,
     CompleteCommitHeld, ReverseBatchHeld
     DEF Next, Move, vars, priceVars

-----------------------------------------------------------------------------
(* The events.                                                             *)

\* A step that neither ends a batch nor writes cost or price.
Quiet ==
    /\ UNCHANGED priceVars
    /\ UNCHANGED stockVars \/ \E br \in Trading, d \in Deltas: Move(br, d)
    /\ \A b \in Batches: \/ batch'[b] = batch[b]
                         \/ batch[b].status \notin Ended /\ batch'[b].status \notin Ended

LEMMA QuietOrEnds ==
    ASSUME Inv, [Next]_vars
    PROVE  \/ Quiet
           \/ \E b \in Batches: ReverseBatch(b)
           \/ \E r \in Requests, policy \in Policies: CompleteCommit(r, policy)
<1>1. ASSUME NEW b \in Batches, NEW n \in Units \ {0}, CreateBatch(b, n)
      PROVE  Quiet
  BY <1>1 DEF CreateBatch, Quiet, Ended, Inv, TypeOK, BatchRows
<1>2. ASSUME NEW b \in Batches, StartPlanned(b)
      PROVE  Quiet
  BY <1>2 DEF StartPlanned, Quiet, Ended, Inv, TypeOK, BatchRows
<1>3. ASSUME NEW b \in Batches, CancelBatch(b)
      PROVE  Quiet
  BY <1>3 DEF CancelBatch, Quiet, Ended, Inv, TypeOK, BatchRows
<1>4. ASSUME NEW r \in Requests, PlanCommit(r)
      PROVE  Quiet
  <2>1. HeldBy(r) /\ request[r].batch \in Batches
    BY <1>4, Running DEF PlanCommit
  <2>. QED  BY <1>4, <2>1 DEF PlanCommit, HeldBy, Open, Quiet, Ended, Inv, TypeOK, BatchRows
<1>5. ASSUME batch' = batch, UNCHANGED priceVars,
             UNCHANGED stockVars \/ \E br \in Trading, d \in Deltas: Move(br, d)
      PROVE  Quiet
  BY <1>5 DEF Quiet
<1>. QED
  BY <1>1, <1>2, <1>3, <1>4, <1>5
     DEF Next, PlanRead, CompleteRead, CompleteMove, Abort, Move, vars

\* What a completion does to the events: nothing, or one is added at the end.
LEMMA CompletionLogs ==
    ASSUME Inv, NEW r \in Requests, NEW policy \in Policies, CompleteCommit(r, policy)
    PROVE  LET b == request[r].batch
               n == Len(log) + 1
           IN  /\ \A i \in DOMAIN log: i < n /\ log'[i] = log[i] /\ log[i].batch # b
               /\ \/ /\ batch'[b].made.good = 0 /\ UNCHANGED priceVars
                  \/ /\ batch'[b].made.good > 0 /\ Inject(b, policy, request[r].read)
                     /\ DOMAIN log' = DOMAIN log \union {n} /\ log'[n].batch = b
<1>. DEFINE b == request[r].batch
            made == request[r].made
            n == Len(log) + 1
<1>1. HeldBy(r) /\ b \in Batches
  BY Running DEF CompleteCommit
<1>2. batch'[b].made = made /\ made \in Made /\ request[r].read \in Snapshots
  BY <1>1 DEF CompleteCommit, HeldBy, Inv, TypeOK, RequestRows, BatchRows
<1>3. \A i \in DOMAIN log: i < n /\ log[i].batch # b
  <2>1. \A i \in DOMAIN log: batch[log[i].batch].status \in Ended
    BY DEF Inv, Logged
  <2>2. \A i \in DOMAIN log: i < n
    BY DEF Inv, TypeOK
  <2>. QED  BY <1>1, <2>1, <2>2 DEF HeldBy, Open, Ended
<1>4. CASE made.good > 0
  <2>1. Inject(b, policy, request[r].read)
    BY <1>4 DEF CompleteCommit
  <2>2. PICK e: log' = Append(log, e) /\ e.batch = b
    BY <2>1 DEF Inject
  <2>3. /\ \A i \in DOMAIN log: log'[i] = log[i]
        /\ DOMAIN log' = DOMAIN log \union {n} /\ log'[n] = e
    BY <2>2 DEF Inv, TypeOK
  <2>. QED  BY <1>2, <1>3, <1>4, <2>1, <2>2, <2>3
<1>5. CASE ~(made.good > 0)
  <2>1. UNCHANGED priceVars
    BY <1>5 DEF CompleteCommit
  <2>2. made.good = 0
    BY <1>2, <1>5, ProductionAssumption DEF Made, Units
  <2>. QED  BY <1>2, <1>3, <2>1, <2>2 DEF priceVars
<1>. QED  BY <1>4, <1>5

LEMMA LoggedKept ==
    ASSUME Inv, [Next]_vars
    PROVE  Logged'
<1>1. ASSUME Quiet PROVE Logged'
  <2>1. log' = log
    BY <1>1 DEF Quiet, priceVars
  <2>2. \A i \in DOMAIN log: log[i].batch \in Batches
    BY EventsAreTyped DEF Inv, Events
  <2>. QED  BY <1>1, <2>1, <2>2 DEF Quiet, Inv, Logged, Ended, InBranch, IsLast
<1>2. ASSUME NEW b \in Batches, ReverseBatch(b)
      PROVE  Logged'
  <2>1. log' = log /\ batch[b].status = "COMPLETED" /\ \A c \in Batches \ {b}: batch'[c] = batch[c]
    BY <1>2 DEF ReverseBatch, Inv, TypeOK
  <2>2. batch'[b].status = "REVERSED" /\ batch'[b].made = batch[b].made
    BY <1>2 DEF ReverseBatch, Inv, TypeOK, BatchRows
  <2>3. \A i \in DOMAIN log: log[i].batch \in Batches
    BY EventsAreTyped DEF Inv, Events
  <2>. QED  BY <2>1, <2>2, <2>3 DEF Inv, Logged, Ended, InBranch, IsLast
<1>3. ASSUME NEW r \in Requests, NEW policy \in Policies, CompleteCommit(r, policy)
      PROVE  Logged'
  <2>. DEFINE b == request[r].batch
              n == Len(log) + 1
  <2>1. HeldBy(r) /\ b \in Batches
    BY <1>3, Running DEF CompleteCommit
  <2>2. batch'[b].status = "COMPLETED" /\ \A c \in Batches \ {b}: batch'[c] = batch[c]
    BY <1>3, <2>1 DEF CompleteCommit, Inv, TypeOK, BatchRows
  <2>3. \A i \in DOMAIN log: /\ i < n /\ log'[i] = log[i]
                             /\ log[i].batch # b /\ log[i].batch \in Batches
    BY <1>3, CompletionLogs, EventsAreTyped DEF Inv, Events
  <2>4. \/ batch'[b].made.good = 0 /\ log' = log
        \/ /\ batch'[b].made.good > 0 /\ DOMAIN log' = DOMAIN log \union {n}
           /\ log'[n].batch = b
    BY <1>3, CompletionLogs DEF priceVars
  <2>. HIDE DEF b
  <2>5. \A i \in DOMAIN log': batch'[log'[i].batch].status \in Ended
                              /\ batch'[log'[i].batch].made.good > 0
    BY <2>2, <2>3, <2>4 DEF Inv, Logged, Ended
  <2>6. \A i, j \in DOMAIN log': log'[i].batch = log'[j].batch => i = j
    BY <2>3, <2>4 DEF Inv, Logged
  <2>7. \A c \in Batches: batch'[c].status = "COMPLETED" /\ batch'[c].made.good > 0 =>
            \E i \in DOMAIN log': log'[i].batch = c
    BY <2>2, <2>3, <2>4 DEF Inv, Logged
  <2>8. ASSUME NEW br \in Branches, InBranch(br)' # {}
        PROVE  \E i \in InBranch(br)': IsLast(br, i)'
    <3>1. CASE log' = log
      BY <2>8, <3>1 DEF Inv, Logged, InBranch, IsLast
    <3>2. CASE DOMAIN log' = DOMAIN log \union {n} /\ log'[n].batch = b
      <4>1. CASE BranchOf[b] = br
        <5>1. \A j \in DOMAIN log \union {n}: j <= n
          BY <2>3 DEF Inv, TypeOK
        <5>. HIDE DEF n
        <5>2. n \in InBranch(br)' /\ \A j \in InBranch(br)': j <= n
          BY <3>2, <4>1, <5>1 DEF InBranch
        <5>. QED  BY <5>2 DEF IsLast
      <4>2. CASE BranchOf[b] # br
        <5>1. InBranch(br)' = InBranch(br)
          BY <2>3, <3>2, <4>2 DEF InBranch
        <5>. QED  BY <2>8, <5>1 DEF Inv, Logged, IsLast
      <4>. QED  BY <4>1, <4>2
    <3>. QED  BY <2>4, <3>1, <3>2
  <2>. QED  BY <2>5, <2>6, <2>7, <2>8 DEF Logged
<1>. QED  BY <1>1, <1>2, <1>3, QuietOrEnds

-----------------------------------------------------------------------------
(* Cost and price.                                                         *)

\* What the last event of a branch says of its cost and price.
Follows(br, i) ==
    LET due == IF batch[log[i].batch].status = "REVERSED" THEN log[i].before ELSE log[i].after
    IN  /\ setting[br].cost = due.cost
        /\ \/ setting[br].price = due.price
           \/ due = log[i].after /\ due.price = "UNSET"

LastFollowed == \A br \in Branches: \A i \in DOMAIN log: IsLast(br, i) => Follows(br, i)

LEMMA EventsAreNumbered ==
    ASSUME Inv
    PROVE  /\ DOMAIN log \subseteq Nat
           /\ \A i \in DOMAIN log: log[i].batch \in Batches
<1>1. DOMAIN log \subseteq Nat
  BY DEF Inv, TypeOK
<1>2. \A i \in DOMAIN log: log[i].batch \in Batches
  BY EventsAreTyped DEF Inv, Events
<1>. QED  BY <1>1, <1>2

LEMMA LastIsOne ==
    ASSUME Inv, NEW br \in Branches, NEW i, IsLast(br, i), NEW j, IsLast(br, j)
    PROVE  i = j
<1>1. i \in Nat /\ j \in Nat /\ i <= j /\ j <= i
  BY EventsAreNumbered DEF IsLast, InBranch
<1>. QED  BY <1>1

LEMMA LastIsMax ==
    ASSUME Inv, NEW br \in Branches, InBranch(br) # {}
    PROVE  IsLast(br, Max(InBranch(br)))
<1>1. PICK i \in InBranch(br): IsLast(br, i)
  BY DEF Inv, Logged
<1>2. InBranch(br) \subseteq Nat
  BY EventsAreNumbered DEF InBranch
<1>3. \A j \in InBranch(br): i >= j
  BY <1>1, <1>2 DEF IsLast
<1>4. /\ Max(InBranch(br)) \in InBranch(br)
      /\ \A j \in InBranch(br): Max(InBranch(br)) >= j
  BY <1>3 DEF Max
<1>. QED  BY <1>2, <1>4 DEF IsLast

LEMMA FollowedIsBranchFollows ==
    ASSUME Inv
    PROVE  LastFollowed => BranchFollowsLastBatch
<1>. SUFFICES ASSUME LastFollowed, NEW br \in Branches, InBranch(br) # {}
              PROVE  Follows(br, Max(InBranch(br)))
  BY DEF BranchFollowsLastBatch, Follows
<1>. QED  BY LastIsMax DEF LastFollowed, IsLast, InBranch

LEMMA QuietFollows ==
    ASSUME Inv, LastFollowed, Quiet
    PROVE  LastFollowed'
<1>1. log' = log /\ setting' = setting
  BY DEF Quiet, priceVars
<1>2. \A i \in DOMAIN log: batch'[log[i].batch] = batch[log[i].batch]
  BY EventsAreNumbered DEF Quiet, Inv, Logged
<1>. QED  BY <1>1, <1>2 DEF LastFollowed, IsLast, InBranch, Follows

\* A reversal gives the branch what the batch found, if its event is the last.
LEMMA ReversalFollows ==
    ASSUME Inv, LastFollowed, NEW b \in Batches, ReverseBatch(b)
    PROVE  LastFollowed'
<1>. SUFFICES ASSUME NEW br \in Branches, NEW i \in DOMAIN log, IsLast(br, i)
              PROVE  Follows(br, i)'
  BY DEF LastFollowed, IsLast, InBranch, ReverseBatch
<1>1. log' = log /\ batch[b].status = "COMPLETED" /\ \A c \in Batches \ {b}: batch'[c] = batch[c]
  BY DEF ReverseBatch, Inv, TypeOK
<1>2. batch'[b].status = "REVERSED"
  BY DEF ReverseBatch, Inv, TypeOK, BatchRows
<1>3. Follows(br, i) /\ log[i].batch \in Batches /\ BranchOf[log[i].batch] = br
  BY EventsAreNumbered DEF LastFollowed, IsLast, InBranch
<1>4. CASE setting'[br] = setting[br] /\ log[i].batch # b
  BY <1>1, <1>3, <1>4 DEF Follows
<1>5. CASE BranchOf[b] # br
  <2>1. setting'[br] = setting[br]
    BY <1>5 DEF ReverseBatch, Restore, Inv, TypeOK
  <2>. QED  BY <1>3, <1>4, <1>5, <2>1
<1>6. CASE ~(batch[b].made.good > 0)
  <2>1. setting'[br] = setting[br]
    BY <1>6 DEF ReverseBatch
  <2>. QED  BY <1>4, <1>6, <2>1 DEF Inv, Logged
<1>7. CASE BranchOf[b] = br /\ batch[b].made.good > 0
  <2>. DEFINE mine == InjectionOf(b)
              before == log[mine].before
  <2>1. mine \in InBranch(br) /\ log[mine].batch = b /\ mine \in DOMAIN log
    BY <1>1, <1>7, InjectionIsLogged DEF InBranch
  <2>2. Restore(b)
    BY <1>7 DEF ReverseBatch
  <2>3. CASE \E j \in InBranch(br): j > mine
    <3>1. setting' = setting
      BY <1>7, <2>2, <2>3 DEF Restore
    <3>2. i # mine
      BY <2>1, <2>3, EventsAreNumbered DEF IsLast, InBranch
    <3>3. log[i].batch # b
      BY <2>1, <3>2 DEF Inv, Logged
    <3>. QED  BY <1>4, <3>1, <3>3
  <2>4. CASE ~ \E j \in InBranch(br): j > mine
    <3>1. setting' = [setting EXCEPT ![br] = [cost |-> before.cost, price |-> before.price]]
      BY <1>7, <2>2, <2>4 DEF Restore
    <3>2. setting'[br].cost = before.cost /\ setting'[br].price = before.price
      BY <3>1 DEF Inv, TypeOK
    <3>3. i = mine
      <4>1. i \in Nat /\ mine \in Nat /\ mine <= i /\ ~(i > mine)
        BY <2>1, <2>4, EventsAreNumbered DEF IsLast, InBranch
      <4>. QED  BY <4>1
    <3>4. log'[i].batch = b /\ log'[i].before = before
      BY <1>1, <2>1, <3>3
    <3>. HIDE DEF mine, before
    <3>. QED  BY <1>2, <3>2, <3>4 DEF Follows
  <2>. QED  BY <2>3, <2>4
<1>. QED  BY <1>5, <1>6, <1>7

\* A completion gives its branch the figures of the event that it adds.
LEMMA InjectionFollows ==
    ASSUME Inv, NEW b \in Batches, NEW policy \in Policies, NEW before \in Snapshots,
           before.price = Snapshot(BranchOf[b]).price, Inject(b, policy, before),
           batch'[b].status = "COMPLETED", NEW n, n = Len(log) + 1
    PROVE  Follows(BranchOf[b], n)'
<1>. DEFINE br == BranchOf[b]
            current == IF before.price = "UNSET" THEN before.standard ELSE before.price
            next == IF policy = "RECALCULATE" THEN b ELSE current
            written == policy # "APPROVAL_REQUIRED"
            after == [standard |-> IF written THEN next ELSE before.standard, cost |-> b,
                      price |-> IF written THEN next ELSE before.price]
            e == [batch |-> b, before |-> before, after |-> after]
<1>. HIDE DEF next
<1>1. log' = Append(log, e)
  BY DEF Inject, next
<1>2. log'[n] = e
  BY <1>1 DEF Inv, TypeOK
<1>3. setting'[br] =
          [cost |-> b,
           price |-> IF written \/ setting[br].price = "NOROW" THEN next ELSE setting[br].price]
  BY ProductionAssumption DEF Inject, Inv, TypeOK, next
<1>4. before.price = IF setting[br].price = "NOROW" THEN "UNSET" ELSE setting[br].price
  BY DEF Snapshot
<1>5. log'[n].batch = b /\ log'[n].after = after
  BY <1>2
<1>6. setting'[br].cost = after.cost
  BY <1>3
<1>7. setting'[br].price = after.price \/ after.price = "UNSET"
  BY <1>3, <1>4
<1>. HIDE DEF after
<1>8. batch'[log'[n].batch].status # "REVERSED"
  BY <1>5
<1>. QED  BY <1>5, <1>6, <1>7, <1>8 DEF Follows

LEMMA CompletionFollows ==
    ASSUME Inv, LastFollowed, NEW r \in Requests, NEW policy \in Policies,
           CompleteCommit(r, policy)
    PROVE  LastFollowed'
<1>. DEFINE b == request[r].batch
            n == Len(log) + 1
<1>1. /\ b \in Batches /\ BranchOf[b] \in Branches
      /\ request[r].read \in Snapshots
      /\ request[r].read.price = Snapshot(BranchOf[b]).price
  BY Running DEF CompleteCommit, HeldBy
<1>2. batch'[b].status = "COMPLETED" /\ \A c \in Batches \ {b}: batch'[c] = batch[c]
  BY <1>1 DEF CompleteCommit, Inv, TypeOK, BatchRows
<1>3. \A i \in DOMAIN log: i < n /\ log'[i] = log[i] /\ log[i].batch # b
  BY CompletionLogs
<1>4. \/ UNCHANGED priceVars
      \/ /\ Inject(b, policy, request[r].read)
         /\ DOMAIN log' = DOMAIN log \union {n} /\ log'[n].batch = b
  BY CompletionLogs
<1>. HIDE DEF b
<1>. SUFFICES ASSUME NEW br \in Branches, NEW i \in DOMAIN log', IsLast(br, i)'
              PROVE  Follows(br, i)'
  BY DEF LastFollowed
<1>5. ASSUME i \in DOMAIN log, IsLast(br, i), setting'[br] = setting[br]
      PROVE  Follows(br, i)'
  <2>1. Follows(br, i) /\ log'[i] = log[i] /\ log[i].batch \in Batches \ {b}
    BY <1>3, <1>5, EventsAreNumbered DEF LastFollowed
  <2>. QED  BY <1>2, <1>5, <2>1 DEF Follows
<1>6. CASE UNCHANGED priceVars
  <2>1. log' = log /\ setting' = setting
    BY <1>6 DEF priceVars
  <2>. QED  BY <1>5, <2>1 DEF IsLast, InBranch
<1>7. CASE /\ Inject(b, policy, request[r].read)
           /\ DOMAIN log' = DOMAIN log \union {n} /\ log'[n].batch = b
  <2>1. CASE BranchOf[b] = br
    <3>1. n \in InBranch(br)'
      BY <1>7, <2>1 DEF InBranch
    <3>2. i = n
      <4>1. n <= i /\ (i \in DOMAIN log => i < n)
        BY <1>3, <3>1 DEF IsLast
      <4>2. i \in DOMAIN log \union {n} /\ DOMAIN log \subseteq Nat /\ n \in Nat
        BY <1>7, EventsAreNumbered DEF Inv, TypeOK
      <4>. QED  BY <4>1, <4>2
    <3>. QED  BY <1>1, <1>2, <1>7, <2>1, <3>2, InjectionFollows
  <2>2. CASE BranchOf[b] # br
    <3>1. InBranch(br)' = InBranch(br)
      BY <1>3, <1>7, <2>2 DEF InBranch
    <3>2. i \in DOMAIN log /\ IsLast(br, i)
      BY <3>1 DEF IsLast, InBranch
    <3>3. setting'[br] = setting[br]
      BY <1>7, <2>2 DEF Inject, Inv, TypeOK
    <3>. QED  BY <1>5, <3>2, <3>3
  <2>. QED  BY <2>1, <2>2
<1>. QED  BY <1>4, <1>6, <1>7

LEMMA LastFollowedKept ==
    ASSUME Inv, LastFollowed, [Next]_vars
    PROVE  LastFollowed'
BY QuietOrEnds, QuietFollows, ReversalFollows, CompletionFollows

-----------------------------------------------------------------------------
(* Stock.                                                                  *)

\* What a batch counts for in a total.
Counted(b, br, status, field) ==
    IF BranchOf[b] = br /\ batch[b].status \in status THEN batch[b].made[field] ELSE 0

Fields == {"used", "good", "second"}

LEMMA CountedIsInt ==
    ASSUME TypeOK, NEW b \in Batches, NEW br, NEW status, NEW field \in Fields
    PROVE  Counted(b, br, status, field) \in Int
<1>1. batch[b].made \in Made
  BY DEF TypeOK, BatchRows
<1>2. batch[b].made[field] \in Int
  BY <1>1, ProductionAssumption DEF Made, Units, Fields
<1>. QED  BY <1>2 DEF Counted

LEMMA TotalOfCounted ==
    ASSUME NEW br, NEW status, NEW field
    PROVE  Total(br, status, field)
               = SumFunction([b \in Batches |-> Counted(b, br, status, field)])
BY Zenon DEF Total, Counted

LEMMA TotalIsInt ==
    ASSUME TypeOK, NEW br, NEW status, NEW field \in Fields
    PROVE  Total(br, status, field) \in Int
<1>1. [b \in Batches |-> Counted(b, br, status, field)] \in [Batches -> Int]
  BY CountedIsInt
<1>2. SumFunction([b \in Batches |-> Counted(b, br, status, field)]) \in Int
  BY <1>1, SumIsInt, ProductionAssumption
<1>. QED  BY <1>2, TotalOfCounted

LEMMA TotalStays ==
    ASSUME NEW br, NEW status, NEW field,
           \A b \in Batches: Counted(b, br, status, field)' = Counted(b, br, status, field)
    PROVE  Total(br, status, field)' = Total(br, status, field)
<1>1. [b \in Batches |-> Counted(b, br, status, field)']
          = [b \in Batches |-> Counted(b, br, status, field)]
  OBVIOUS
<1>2. SumFunction([b \in Batches |-> Counted(b, br, status, field)'])
          = SumFunction([b \in Batches |-> Counted(b, br, status, field)])
  BY <1>1, Zenon
<1>3. Total(br, status, field)'
          = SumFunction([b \in Batches |-> Counted(b, br, status, field)'])
  BY Zenon DEF Total, Counted
<1>. QED  BY <1>2, <1>3, TotalOfCounted

\* The total changes by what its one batch does.
LEMMA TotalChanges ==
    ASSUME TypeOK, TypeOK', NEW br, NEW status, NEW field \in Fields, NEW b \in Batches,
           \A c \in Batches \ {b}: batch'[c] = batch[c]
    PROVE  Total(br, status, field)'
               = Total(br, status, field) - Counted(b, br, status, field)
                     + Counted(b, br, status, field)'
<1>. DEFINE f == [c \in Batches |-> Counted(c, br, status, field)]
            g == [c \in Batches |-> Counted(c, br, status, field)']
<1>1. f \in [Batches -> Int]
  BY CountedIsInt
<1>2. g \in [Batches -> Int]
  <2>1. \A c \in Batches: Counted(c, br, status, field)' \in Int
    <3>1. ASSUME NEW c \in Batches
          PROVE  Counted(c, br, status, field)' \in Int
      <4>1. batch'[c].made \in Made
        BY DEF TypeOK, BatchRows
      <4>2. batch'[c].made[field] \in Int
        BY <4>1, ProductionAssumption DEF Made, Units, Fields
      <4>. QED  BY <4>2 DEF Counted
    <3>. QED  BY <3>1
  <2>. QED  BY <2>1
<1>3. \A c \in Batches \ {b}: g[c] = f[c]
  BY DEF Counted
<1>4. f[b] = Counted(b, br, status, field) /\ g[b] = Counted(b, br, status, field)'
  OBVIOUS
<1>5. /\ Total(br, status, field) = SumFunction(f)
      /\ Total(br, status, field)' = SumFunction(g)
  BY Zenon DEF Total, Counted
<1>. HIDE DEF f, g
<1>6. SumFunction(g) = SumFunction(f) - f[b] + g[b]
  BY <1>1, <1>2, <1>3, SumChange, ProductionAssumption
<1>. QED  BY <1>4, <1>5, <1>6

Balanced(br) ==
    /\ stock[br].input = moved[br].input - Total(br, {"COMPLETED"}, "used")
    /\ stock[br].finished = moved[br].finished + Total(br, {"COMPLETED"}, "good")
    /\ stock[br].second = moved[br].second + Total(br, Ended, "second")

LEMMA BalancedIsFollows == StockFollowsBatches <=> \A br \in Branches: Balanced(br)
BY DEF StockFollowsBatches, Balanced, Ended

LEMMA QuietBalances ==
    ASSUME Inv, \A br \in Branches: Balanced(br), Quiet, NEW br \in Branches
    PROVE  Balanced(br)'
<1>1. \A b \in Batches, field \in Fields:
          /\ Counted(b, br, {"COMPLETED"}, field)' = Counted(b, br, {"COMPLETED"}, field)
          /\ Counted(b, br, Ended, field)' = Counted(b, br, Ended, field)
  BY DEF Counted, Quiet, Ended
<1>2. /\ Total(br, {"COMPLETED"}, "used")' = Total(br, {"COMPLETED"}, "used")
      /\ Total(br, {"COMPLETED"}, "good")' = Total(br, {"COMPLETED"}, "good")
      /\ Total(br, Ended, "second")' = Total(br, Ended, "second")
  BY <1>1, TotalStays DEF Fields
<1>3. CASE UNCHANGED stockVars
  BY <1>2, <1>3 DEF Balanced, stockVars
<1>4. CASE \E c \in Trading, d \in Deltas: Move(c, d)
  <2>1. PICK c \in Trading, d \in Deltas: Move(c, d)
    BY <1>4
  <2>2. /\ stock' = [stock EXCEPT ![c] = Plus(stock[c], d)]
        /\ moved' = [moved EXCEPT ![c] = Plus(moved[c], d)]
    BY <2>1 DEF Move
  <2>3. CASE c = br
    <3>1. stock[br] \in Stocks /\ moved[br] \in Stocks
      BY DEF Inv, TypeOK
    <3>2. stock'[br] = Plus(stock[br], d) /\ moved'[br] = Plus(moved[br], d)
      BY <2>2, <2>3 DEF Inv, TypeOK
    <3>3. d.input \in Int /\ d.finished \in Int /\ d.second \in Int
      BY DEF Deltas
    <3>4. /\ stock'[br].input = stock[br].input + d.input
          /\ stock'[br].finished = stock[br].finished + d.finished
          /\ stock'[br].second = stock[br].second + d.second
          /\ moved'[br].input = moved[br].input + d.input
          /\ moved'[br].finished = moved[br].finished + d.finished
          /\ moved'[br].second = moved[br].second + d.second
      BY <3>1, <3>2 DEF Plus, Stocks
    <3>5. /\ Total(br, {"COMPLETED"}, "used") \in Int
          /\ Total(br, {"COMPLETED"}, "good") \in Int
          /\ Total(br, Ended, "second") \in Int
      BY TotalIsInt DEF Fields, Inv
    <3>6. /\ moved[br].input \in Int /\ moved[br].finished \in Int /\ moved[br].second \in Int
      BY <3>1 DEF Stocks
    <3>. QED  BY <1>2, <3>3, <3>4, <3>5, <3>6 DEF Balanced
  <2>4. CASE c # br
    <3>1. stock'[br] = stock[br] /\ moved'[br] = moved[br]
      BY <2>2, <2>4 DEF Inv, TypeOK
    <3>. QED  BY <1>2, <3>1 DEF Balanced
  <2>. QED  BY <2>3, <2>4
<1>. QED  BY <1>3, <1>4 DEF Quiet

\* One batch ends or is reversed, and its branch gets what its totals gain.
LEMMA EndBalances ==
    ASSUME Inv, TypeOK', \A c \in Branches: Balanced(c), NEW b \in Batches,
           \A c \in Batches \ {b}: batch'[c] = batch[c],
           moved' = moved,
           \A c \in Branches \ {BranchOf[b]}: stock'[c] = stock[c],
           NEW used \in Int, NEW good \in Int, NEW second \in Int,
           LET br == BranchOf[b]
           IN  /\ stock'[br].input = stock[br].input - used
               /\ stock'[br].finished = stock[br].finished + good
               /\ stock'[br].second = stock[br].second + second
               /\ Counted(b, br, {"COMPLETED"}, "used")'
                      = Counted(b, br, {"COMPLETED"}, "used") + used
               /\ Counted(b, br, {"COMPLETED"}, "good")'
                      = Counted(b, br, {"COMPLETED"}, "good") + good
               /\ Counted(b, br, Ended, "second")' = Counted(b, br, Ended, "second") + second,
           NEW br \in Branches
    PROVE  Balanced(br)'
<1>. DEFINE usedOf == Counted(b, br, {"COMPLETED"}, "used")
            goodOf == Counted(b, br, {"COMPLETED"}, "good")
            secondOf == Counted(b, br, Ended, "second")
            allUsed == Total(br, {"COMPLETED"}, "used")
            allGood == Total(br, {"COMPLETED"}, "good")
            allSecond == Total(br, Ended, "second")
<1>1. /\ allUsed' = allUsed - usedOf + usedOf'
      /\ allGood' = allGood - goodOf + goodOf'
      /\ allSecond' = allSecond - secondOf + secondOf'
  BY TotalChanges DEF Fields, Inv
<1>2. usedOf \in Int /\ goodOf \in Int /\ secondOf \in Int
  BY CountedIsInt DEF Fields, Inv
<1>3. allUsed \in Int /\ allGood \in Int /\ allSecond \in Int
  BY TotalIsInt DEF Fields, Inv
<1>4. /\ stock[br].input = moved[br].input - allUsed
      /\ stock[br].finished = moved[br].finished + allGood
      /\ stock[br].second = moved[br].second + allSecond
  BY DEF Balanced
<1>5. moved[br].input \in Int /\ moved[br].finished \in Int /\ moved[br].second \in Int
  BY DEF Inv, TypeOK, Stocks
<1>6. CASE BranchOf[b] = br
  <2>1. /\ usedOf' = usedOf + used /\ goodOf' = goodOf + good /\ secondOf' = secondOf + second
        /\ stock'[br].input = stock[br].input - used
        /\ stock'[br].finished = stock[br].finished + good
        /\ stock'[br].second = stock[br].second + second
    BY <1>6
  <2>. HIDE DEF usedOf, goodOf, secondOf, allUsed, allGood, allSecond
  <2>2. allUsed' = allUsed + used /\ allGood' = allGood + good /\ allSecond' = allSecond + second
    BY <1>1, <1>2, <1>3, <2>1
  <2>3. /\ stock'[br].input = moved'[br].input - allUsed'
        /\ stock'[br].finished = moved'[br].finished + allGood'
        /\ stock'[br].second = moved'[br].second + allSecond'
    BY <1>3, <1>4, <1>5, <2>1, <2>2
  <2>. QED  BY <2>3 DEF Balanced, allUsed, allGood, allSecond
<1>7. CASE BranchOf[b] # br
  <2>1. usedOf' = 0 /\ goodOf' = 0 /\ secondOf' = 0 /\ usedOf = 0 /\ goodOf = 0 /\ secondOf = 0
    BY <1>7 DEF Counted
  <2>2. stock'[br] = stock[br]
    BY <1>7
  <2>. HIDE DEF usedOf, goodOf, secondOf, allUsed, allGood, allSecond
  <2>3. allUsed' = allUsed /\ allGood' = allGood /\ allSecond' = allSecond
    BY <1>1, <1>3, <2>1
  <2>4. /\ stock'[br].input = moved'[br].input - allUsed'
        /\ stock'[br].finished = moved'[br].finished + allGood'
        /\ stock'[br].second = moved'[br].second + allSecond'
    BY <1>4, <2>2, <2>3
  <2>. QED  BY <2>4 DEF Balanced, allUsed, allGood, allSecond
<1>. QED  BY <1>6, <1>7

LEMMA CompletionBalances ==
    ASSUME Inv, TypeOK', \A c \in Branches: Balanced(c),
           NEW r \in Requests, NEW policy \in Policies, CompleteCommit(r, policy),
           NEW br \in Branches
    PROVE  Balanced(br)'
<1>. DEFINE b == request[r].batch
            made == request[r].made
            home == BranchOf[b]
<1>1. HeldBy(r) /\ b \in Batches /\ home \in Branches /\ made \in Made
  BY Running DEF CompleteCommit, Inv, TypeOK, RequestRows
<1>2. batch[b].status \notin Ended
  BY <1>1 DEF HeldBy, Open, Ended
<1>3. batch'[b].status = "COMPLETED" /\ batch'[b].made = made
  BY <1>1 DEF CompleteCommit, Inv, TypeOK, BatchRows
<1>4. \A c \in Batches \ {b}: batch'[c] = batch[c]
  BY <1>1 DEF CompleteCommit, Inv, TypeOK
<1>5. moved' = moved /\ stock' = [stock EXCEPT ![home] = After(stock[home], made, 1)]
  BY DEF CompleteCommit
<1>6. made.used \in Int /\ made.good \in Int /\ made.second \in Int
  BY <1>1, ProductionAssumption DEF Made, Units
<1>7. /\ stock'[home] = After(stock[home], made, 1) /\ stock[home] \in Stocks
      /\ \A c \in Branches \ {home}: stock'[c] = stock[c]
  BY <1>1, <1>5 DEF Inv, TypeOK
<1>8. /\ stock'[home].input = stock[home].input - made.used
      /\ stock'[home].finished = stock[home].finished + made.good
      /\ stock'[home].second = stock[home].second + made.second
  BY <1>6, <1>7 DEF After, Stocks
<1>. HIDE DEF made, b
<1>9. /\ Counted(b, home, {"COMPLETED"}, "used") = 0
      /\ Counted(b, home, {"COMPLETED"}, "good") = 0
      /\ Counted(b, home, Ended, "second") = 0
  BY <1>2 DEF Counted, Ended
<1>10. ASSUME NEW d, d = b
       PROVE  /\ Counted(d, BranchOf[d], {"COMPLETED"}, "used")' = made.used
              /\ Counted(d, BranchOf[d], {"COMPLETED"}, "good")' = made.good
              /\ Counted(d, BranchOf[d], Ended, "second")' = made.second
  BY <1>3, <1>10 DEF Counted, Ended
<1>. QED
  <2>. SUFFICES ASSUME NEW d \in Batches, d = b PROVE Balanced(br)'
    BY <1>1
  <2>. DEFINE at == BranchOf[d]
  <2>1. /\ Counted(d, at, {"COMPLETED"}, "used")'
               = Counted(d, at, {"COMPLETED"}, "used") + made.used
        /\ Counted(d, at, {"COMPLETED"}, "good")'
               = Counted(d, at, {"COMPLETED"}, "good") + made.good
        /\ Counted(d, at, Ended, "second")' = Counted(d, at, Ended, "second") + made.second
    BY <1>6, <1>9, <1>10
  <2>2. /\ stock'[at].input = stock[at].input - made.used
        /\ stock'[at].finished = stock[at].finished + made.good
        /\ stock'[at].second = stock[at].second + made.second
    BY <1>8
  <2>. QED  BY <1>4, <1>5, <1>6, <1>7, <2>1, <2>2, EndBalances

\* A reversed batch still counts for its units of second quality.
LEMMA ReversalBalances ==
    ASSUME Inv, TypeOK', \A c \in Branches: Balanced(c), NEW b \in Batches, ReverseBatch(b),
           NEW br \in Branches
    PROVE  Balanced(br)'
<1>. DEFINE made == batch[b].made
            home == BranchOf[b]
<1>1. home \in Branches /\ made \in Made
  BY ProductionAssumption DEF Inv, TypeOK, BatchRows
<1>2. batch[b].status = "COMPLETED" /\ batch'[b].status = "REVERSED" /\ batch'[b].made = made
  BY DEF ReverseBatch, Inv, TypeOK, BatchRows
<1>3. \A c \in Batches \ {b}: batch'[c] = batch[c]
  BY DEF ReverseBatch, Inv, TypeOK
<1>4. moved' = moved /\ stock' = [stock EXCEPT ![home] = After(stock[home], made, -1)]
  BY DEF ReverseBatch
<1>5. made.used \in Int /\ made.good \in Int /\ made.second \in Int
  BY <1>1, ProductionAssumption DEF Made, Units
<1>6. /\ stock'[home] = After(stock[home], made, -1) /\ stock[home] \in Stocks
      /\ \A c \in Branches \ {home}: stock'[c] = stock[c]
  BY <1>1, <1>4 DEF Inv, TypeOK
<1>7. -made.used \in Int /\ -made.good \in Int /\ 0 \in Int
  BY <1>5
<1>8. /\ stock'[home].input = stock[home].input - (-made.used)
      /\ stock'[home].finished = stock[home].finished + (-made.good)
      /\ stock'[home].second = stock[home].second + 0
  BY <1>5, <1>6 DEF After, Stocks
<1>9. /\ Counted(b, home, {"COMPLETED"}, "used") = made.used
      /\ Counted(b, home, {"COMPLETED"}, "good") = made.good
      /\ Counted(b, home, Ended, "second") = made.second
      /\ Counted(b, home, {"COMPLETED"}, "used")' = 0
      /\ Counted(b, home, {"COMPLETED"}, "good")' = 0
      /\ Counted(b, home, Ended, "second")' = made.second
  BY <1>2 DEF Counted, Ended
<1>. HIDE DEF made
<1>10. /\ Counted(b, home, {"COMPLETED"}, "used")'
              = Counted(b, home, {"COMPLETED"}, "used") + (-made.used)
       /\ Counted(b, home, {"COMPLETED"}, "good")'
              = Counted(b, home, {"COMPLETED"}, "good") + (-made.good)
       /\ Counted(b, home, Ended, "second")' = Counted(b, home, Ended, "second") + 0
  BY <1>5, <1>9
<1>. QED  BY <1>3, <1>4, <1>6, <1>7, <1>8, <1>10, EndBalances

LEMMA BalancedKept ==
    ASSUME Inv, TypeOK', [Next]_vars, \A br \in Branches: Balanced(br)
    PROVE  (\A br \in Branches: Balanced(br))'
BY QuietOrEnds, QuietBalances, CompletionBalances, ReversalBalances

-----------------------------------------------------------------------------
(* The price of the product.                                               *)

\* Whatever has been injected is of one branch.
Sole(br) == \A i \in DOMAIN log: BranchOf[log[i].batch] = br

\* The price of the product that a transaction read is the one it writes over,
\* unless another branch wrote.
CurrentRead ==
    \A r \in Requests:
        request[r].pc = "producing" /\ Sole(BranchOf[request[r].batch]) =>
            request[r].read.standard = standard

\* The branch of a batch that produces has no other one.
LEMMA ProducesAlone ==
    ASSUME Inv, NEW r \in Requests, NEW q \in Requests,
           request[r].pc = "producing", request[q].pc = "producing",
           BranchOf[request[r].batch] = BranchOf[request[q].batch]
    PROVE  r = q
BY DEF Inv, Held

LEMMA CurrentReadKept ==
    ASSUME Inv, CurrentRead, [Next]_vars
    PROVE  CurrentRead'
<1>. SUFFICES ASSUME NEW r \in Requests, request'[r].pc = "producing",
                     \A i \in DOMAIN log': BranchOf[log'[i].batch] = BranchOf[request'[r].batch]
              PROVE  request'[r].read.standard = standard'
  BY DEF CurrentRead, Sole
<1>1. ASSUME request'[r] = request[r], standard' = standard, log' = log
      PROVE  request'[r].read.standard = standard'
  BY <1>1 DEF CurrentRead, Sole
<1>2. Idle \in RequestRows /\ Idle.pc = "idle"
  BY NothingIsMade DEF Idle, RequestRows, Statuses
<1>3. CASE /\ request' = request
           /\ UNCHANGED priceVars
  BY <1>1, <1>3 DEF priceVars
<1>4. ASSUME NEW q \in Requests,
             \/ Abort(q) \/ PlanCommit(q)
             \/ \E b \in Batches, status \in {"PLANNED", "IN_PROGRESS"}: PlanRead(q, b, status)
             \/ \E b \in Batches: CompleteRead(q, b)
      PROVE  request'[r].read.standard = standard'
  <2>1. standard' = standard /\ log' = log
    BY <1>4 DEF Abort, PlanCommit, PlanRead, CompleteRead, priceVars
  <2>2. \A p \in Requests \ {q}: request'[p] = request[p]
    BY <1>4 DEF Abort, PlanCommit, PlanRead, CompleteRead, Begin, End, Inv, TypeOK
  <2>3. request'[q].pc # "producing"
    <3>1. ASSUME End(q) PROVE request'[q].pc # "producing"
      BY <3>1, <1>2 DEF End, Inv, TypeOK
    <3>2. ASSUME NEW b \in Batches, NEW status, PlanRead(q, b, status)
          PROVE  request'[q].pc # "producing"
      BY <3>2 DEF PlanRead, Begin, Idle, Inv, TypeOK
    <3>3. ASSUME NEW b \in Batches, CompleteRead(q, b)
          PROVE  request'[q].pc # "producing"
      BY <3>3 DEF CompleteRead, Begin, Idle, Inv, TypeOK
    <3>. QED  BY <1>4, <3>1, <3>2, <3>3 DEF Abort, PlanCommit
  <2>. QED  BY <1>1, <2>1, <2>2, <2>3
<1>5. ASSUME NEW q \in Requests, NEW made \in Made, CompleteMove(q, made)
      PROVE  request'[r].read.standard = standard'
  <2>1. /\ standard' = standard /\ log' = log
        /\ \A p \in Requests \ {q}: request'[p] = request[p]
    BY <1>5 DEF CompleteMove, priceVars, Inv, TypeOK
  <2>2. request'[q].read = Snapshot(BranchOf[request[q].batch])
    BY <1>5 DEF CompleteMove, Inv, TypeOK, RequestRows
  <2>3. request'[q].read.standard = standard
    BY <2>2 DEF Snapshot
  <2>. QED  BY <1>1, <2>1, <2>3
<1>6. ASSUME NEW q \in Requests, NEW policy \in Policies, CompleteCommit(q, policy)
      PROVE  request'[r].read.standard = standard'
  <2>1. /\ request[q].pc = "producing" /\ r # q
        /\ request[r].pc = "producing" /\ request'[r] = request[r]
    BY <1>2, <1>6 DEF CompleteCommit, End, Inv, TypeOK
  <2>2. BranchOf[request[r].batch] # BranchOf[request[q].batch]
    BY <2>1, ProducesAlone
  <2>3. \/ UNCHANGED priceVars
        \/ Len(log) + 1 \in DOMAIN log' /\ log'[Len(log) + 1].batch = request[q].batch
    BY <1>6, CompletionLogs
  <2>4. UNCHANGED priceVars
    BY <2>1, <2>2, <2>3 DEF Sole
  <2>. QED  BY <1>1, <2>1, <2>4 DEF priceVars
<1>7. ASSUME NEW b \in Batches, ReverseBatch(b)
      PROVE  request'[r].read.standard = standard'
  <2>1. /\ request' = request /\ log' = log /\ batch[b].status = "COMPLETED"
        /\ BranchOf[request[r].batch] # BranchOf[b]
    BY <1>7 DEF ReverseBatch, BalancesLocked
  <2>2. ~(batch[b].made.good > 0)
    BY <2>1, InjectionIsLogged DEF Sole
  <2>. QED  BY <1>1, <1>7, <2>1, <2>2 DEF ReverseBatch
<1>. QED
  BY <1>3, <1>4, <1>5, <1>6, <1>7
  DEF Next, CreateBatch, StartPlanned, CancelBatch, Move, vars, priceVars

LEMMA ProductFollowsKept ==
    ASSUME Inv, CurrentRead, PriceFollowsSoleBranch, [Next]_vars
    PROVE  PriceFollowsSoleBranch'
<1>. DEFINE n == Len(log)
<1>1. log # <<>> => n \in DOMAIN log /\ \A i \in DOMAIN log: i \in Nat /\ i <= n
  BY DEF Inv, TypeOK
<1>2. ASSUME log' = log, standard' = standard,
             \A i \in DOMAIN log: \/ batch'[log[i].batch] = batch[log[i].batch]
                                 \/ batch'[log[i].batch].status = "REVERSED"
      PROVE  PriceFollowsSoleBranch'
  BY <1>1, <1>2 DEF PriceFollowsSoleBranch, PriceFollows
<1>3. CASE Quiet
  BY <1>2, <1>3, EventsAreNumbered DEF Quiet, priceVars, Inv, Logged
<1>4. ASSUME NEW b \in Batches, ReverseBatch(b)
      PROVE  PriceFollowsSoleBranch'
  <2>1. /\ log' = log /\ batch'[b].status = "REVERSED"
        /\ \A c \in Batches \ {b}: batch'[c] = batch[c]
    BY <1>4 DEF ReverseBatch, Inv, TypeOK, BatchRows
  <2>. SUFFICES ASSUME log # <<>>, log[n].batch # b,
                       \A i, j \in DOMAIN log: BranchOf[log[i].batch] = BranchOf[log[j].batch]
                PROVE  standard' = standard
    BY <1>2, <2>1, EventsAreNumbered DEF PriceFollowsSoleBranch, PriceFollows
  <2>2. CASE batch[b].made.good > 0
    <3>1. InjectionOf(b) \in DOMAIN log /\ log[InjectionOf(b)].batch = b
      BY <1>4, <2>2, InjectionIsLogged DEF ReverseBatch
    <3>2. n > InjectionOf(b)
      BY <1>1, <3>1
    <3>3. n \in InBranch(BranchOf[b])
      BY <1>1, <3>1 DEF InBranch
    <3>. QED  BY <1>4, <2>2, <3>2, <3>3 DEF ReverseBatch, Restore
  <2>3. CASE ~(batch[b].made.good > 0)
    BY <1>4, <2>3 DEF ReverseBatch
  <2>. QED  BY <2>2, <2>3
<1>5. ASSUME NEW r \in Requests, NEW policy \in Policies, CompleteCommit(r, policy)
      PROVE  PriceFollowsSoleBranch'
  <2>. DEFINE b == request[r].batch
              before == request[r].read
  <2>1. /\ \A i \in DOMAIN log: log'[i] = log[i] /\ log[i].batch # b
        /\ \/ UNCHANGED priceVars
           \/ /\ Inject(b, policy, before)
              /\ DOMAIN log' = DOMAIN log \union {n + 1} /\ log'[n + 1].batch = b
    BY <1>5, CompletionLogs
  <2>2. \A c \in Batches \ {b}: batch'[c] = batch[c]
    BY <1>5 DEF CompleteCommit, Inv, TypeOK
  <2>3. Sole(BranchOf[b]) => before.standard = standard
    BY <1>5 DEF CompleteCommit, CurrentRead
  <2>. HIDE DEF b, before
  <2>4. CASE UNCHANGED priceVars
    BY <1>2, <2>1, <2>2, <2>4, EventsAreNumbered DEF priceVars
  <2>5. CASE /\ Inject(b, policy, before)
             /\ DOMAIN log' = DOMAIN log \union {n + 1} /\ log'[n + 1].batch = b
    <3>. SUFFICES ASSUME (\A i, j \in DOMAIN log: BranchOf[log[i].batch] = BranchOf[log[j].batch])'
                  PROVE  PriceFollows'
      BY DEF PriceFollowsSoleBranch
    <3>1. before.standard = standard
      BY <2>1, <2>3, <2>5 DEF Sole
    <3>2. PICK e: /\ log' = Append(log, e)
                  /\ e.after.standard = standard'
      <4>. DEFINE current == IF before.price = "UNSET" THEN before.standard ELSE before.price
                  next == IF policy = "RECALCULATE" THEN b ELSE current
                  written == policy # "APPROVAL_REQUIRED"
                  after == [standard |-> IF written THEN next ELSE before.standard, cost |-> b,
                            price |-> IF written THEN next ELSE before.price]
      <4>. HIDE DEF next
      <4>1. /\ log' = Append(log, [batch |-> b, before |-> before, after |-> after])
            /\ standard' = IF written THEN next ELSE standard
        BY <2>5 DEF Inject, next
      <4>2. after.standard = standard'
        BY <3>1, <4>1
      <4>. HIDE DEF after
      <4>. QED  BY <4>1, <4>2
    <3>3. Len(log') = n + 1 /\ log'[n + 1] = e
      BY <3>2 DEF Inv, TypeOK
    <3>. QED  BY <3>2, <3>3 DEF PriceFollows
  <2>. QED  BY <2>1, <2>4, <2>5
<1>. QED  BY <1>3, <1>4, <1>5, QuietOrEnds

-----------------------------------------------------------------------------
(* The theorems.                                                           *)

LEMMA InvIsKept == Spec => []Inv
<1>1. Inv /\ [Next]_vars => Inv'
  BY TypesKept, ReservedKept, HeldKept, LoggedKept DEF Inv
<1>. QED  BY InitInv, <1>1, PTL DEF Spec

(* The rows of batches, transactions, stock, settings and events have      *)
(* their types, for all instances (ProductionBatch, InventoryBalance,      *)
(* BranchProductSetting, the PRODUCTION_COST_INJECTED events).             *)
THEOREM TypesAreKept == Spec => []TypeOK
<1>1. Inv => TypeOK
  BY DEF Inv
<1>. QED  BY InvIsKept, <1>1, PTL

(* No reservation outlives its batch, whatever plans, starts, completions  *)
(* and cancellations overlap (reserveBatchInputsTx,                        *)
(* releaseBatchReservationsTx).                                            *)
THEOREM ReservationsEnd == Spec => []ReservedWhileOpen
<1>1. Inv => ReservedWhileOpen
  BY DEF Inv
<1>. QED  BY InvIsKept, <1>1, PTL

(* Cost and price of a branch are the ones of its last batch, or what that *)
(* batch found if it was reversed (applyProductionCostsTx,                 *)
(* restoreProductionCostTx).                                               *)
THEOREM BranchesFollow == Spec => []BranchFollowsLastBatch
<1>1. Init => LastFollowed
  BY DEF Init, LastFollowed
<1>2. Inv /\ LastFollowed /\ [Next]_vars => LastFollowed'
  BY LastFollowedKept
<1>3. Inv /\ LastFollowed => BranchFollowsLastBatch
  BY FollowedIsBranchFollows
<1>. QED  BY InvIsKept, <1>1, <1>2, <1>3, PTL DEF Spec

(* The stock of every branch is what came from elsewhere, and what its     *)
(* completed batches took and made, each once (completeBatchTx,            *)
(* reverseBatchTx).                                                        *)
THEOREM StockFollows == Spec => []StockFollowsBatches
<1>. DEFINE AllBalanced == \A br \in Branches: Balanced(br)
<1>1. Init => AllBalanced
  <2>. SUFFICES ASSUME Init, NEW br \in Branches PROVE Balanced(br)
    OBVIOUS
  <2>1. ASSUME NEW status, "NONE" \notin status, NEW field
        PROVE  Total(br, status, field) = 0
    <3>1. \A b \in Batches: Counted(b, br, status, field) = 0
      BY <2>1 DEF Init, NoBatch, Counted
    <3>2. SumFunction([b \in Batches |-> Counted(b, br, status, field)]) = 0
      BY <3>1, SumOfZeros, ProductionAssumption
    <3>. QED  BY <3>2, TotalOfCounted
  <2>2. /\ Total(br, {"COMPLETED"}, "used") = 0 /\ Total(br, {"COMPLETED"}, "good") = 0
        /\ Total(br, Ended, "second") = 0
    BY <2>1 DEF Ended
  <2>3. stock[br] \in Stocks /\ moved[br] = stock[br]
    BY ProductionAssumption DEF Init, Stocks
  <2>. QED  BY <2>2, <2>3 DEF Balanced, Stocks
<1>2. Inv /\ Inv' /\ AllBalanced /\ [Next]_vars => AllBalanced'
  BY BalancedKept DEF Inv
<1>3. AllBalanced => StockFollowsBatches
  BY BalancedIsFollows
<1>. HIDE DEF AllBalanced
<1>. QED  BY InvIsKept, <1>1, <1>2, <1>3, PTL DEF Spec

(* As long as one branch completed batches, the price of the product is   *)
(* the one of the last of them, if not reversed: looking for a later batch *)
(* in the branch alone (restoreProductionCostTx) is then enough.           *)
THEOREM SoleBranchPrices == Spec => []PriceFollowsSoleBranch
<1>1. Init => CurrentRead /\ PriceFollowsSoleBranch
  BY DEF Init, CurrentRead, Idle, PriceFollowsSoleBranch
<1>2. Inv /\ CurrentRead /\ PriceFollowsSoleBranch /\ [Next]_vars =>
          CurrentRead' /\ PriceFollowsSoleBranch'
  BY CurrentReadKept, ProductFollowsKept
<1>. QED  BY InvIsKept, <1>1, <1>2, PTL DEF Spec
=============================================================================
