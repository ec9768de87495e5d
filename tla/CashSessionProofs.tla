-------------------------- MODULE CashSessionProofs --------------------------
(***************************************************************************)
(* Theorems about OperationalDay, for every calendar, and CashSession, for *)
(* every number of boxes, sessions, orders and transactions in flight,     *)
(* every amount and every choice of handlers.                              *)
(*                                                                         *)
(* The inductive invariant is Inv: the types, what the transactions in     *)
(* flight rely on (InFlightSound) and the state of the review              *)
(* (ReviewStateSound).  Every step changes a session row in one of the     *)
(* ways SessionChange lists (lemma SessionStep), and the properties of the *)
(* sessions follow from that list instead of from the forty actions.       *)
(***************************************************************************)
EXTENDS CashSession, TLAPS

-----------------------------------------------------------------------------
(* The day.                                                                *)

\* What the branch-lock holder has read is a day row.
LEMMA ResolvingType ==
    ASSUME DayTypeOK, resolving # Null
    PROVE  resolving \in Resolutions
BY DEF DayTypeOK

\* Sweeping yields lifecycles, and never CANCELLED from anything else.
LEMMA SweptType ==
    ASSUME DayTypeOK, NEW days
    PROVE  /\ Swept(days) \in [Days -> Lifecycles]
           /\ \A d \in Days: Swept(days)[d] = "CANCELLED" => life[d] = "CANCELLED"
BY DEF DayTypeOK, Swept, Lifecycles

LEMMA DayInitType == DayInit => DayTypeOK
BY DayAssumption DEF DayInit, DayTypeOK, Days, Lifecycles

(* Every step of the day keeps the types; also used for the composed       *)
(* specification of the cash drawer.                                       *)
LEMMA DayNextType == DayTypeOK /\ [DayNext]_dayVars => DayTypeOK'
<1> SUFFICES ASSUME DayTypeOK, [DayNext]_dayVars PROVE DayTypeOK'
  OBVIOUS
<1> USE DayAssumption
<1>1. CASE UNCHANGED dayVars
  BY <1>1 DEF dayVars, DayTypeOK
<1>2. CASE NextDay
  BY <1>2 DEF NextDay, DayTypeOK, Days
<1>3. CASE ResolveRead
  BY <1>3 DEF ResolveRead, DayRead, DayTypeOK, Resolutions
<1>4. CASE ResolveCommit
  <2>1. resolving \in Resolutions
    BY <1>4, ResolvingType DEF ResolveCommit
  <2>2. Swept(StaleDays) \in [Days -> Lifecycles]
    BY SweptType
  <2>3. life' \in [Days -> Lifecycles]
    BY <1>4, <2>1, <2>2 DEF ResolveCommit, Lifecycles
  <2>4. signed' \in [Days -> BOOLEAN]
    BY <1>4, <2>1 DEF ResolveCommit, KeepsSignature, DayTypeOK, Resolutions
  <2> QED BY <1>4, <2>3, <2>4 DEF ResolveCommit, DayTypeOK
<1>5. CASE ResolveAbort
  BY <1>5 DEF ResolveAbort, DayTypeOK
<1>6. ASSUME NEW d \in Days, DayEndShift(d) PROVE DayTypeOK'
  BY <1>6, SweptType DEF DayEndShift, DayTypeOK
<1>7. ASSUME NEW d \in Days, DaySweepStale(d) PROVE DayTypeOK'
  BY <1>7, SweptType DEF DaySweepStale, DayTypeOK
<1>8. ASSUME NEW d \in Days, DayConfirm(d) PROVE DayTypeOK'
  BY <1>8, SweptType DEF DayConfirm, DayTypeOK
<1>9. ASSUME NEW d \in Days, DayRevert(d) PROVE DayTypeOK'
  BY <1>9 DEF DayRevert, DayTypeOK
<1>10. ASSUME NEW d \in Days, DayCancel(d) PROVE DayTypeOK'
  BY <1>10 DEF DayCancel, DayTypeOK, Lifecycles
<1>11. ASSUME NEW d \in Days, DayReopen(d) PROVE DayTypeOK'
  BY <1>11 DEF DayReopen, DayTypeOK, Lifecycles
<1>12. ASSUME NEW d \in Days, DayOpenRead(d) PROVE DayTypeOK'
  BY <1>12 DEF DayOpenRead, DayRead, DayTypeOK, Resolutions
<1> QED
  BY <1>1, <1>2, <1>3, <1>4, <1>5, <1>6, <1>7, <1>8, <1>9, <1>10, <1>11, <1>12
  DEF DayNext

(* The types of the day hold in every reachable state.                     *)
THEOREM DayTypeCorrect == DaySpec => []DayTypeOK
<1>1. DayInit => DayTypeOK
  BY DayInitType
<1>2. DayTypeOK /\ [DayNext]_dayVars => DayTypeOK'
  BY DayNextType
<1> QED BY <1>1, <1>2, PTL DEF DaySpec

(* A step never brings a signature and a cancellation together.            *)
LEMMA DayNextSigned ==
    DayTypeOK /\ SignedNeverCancelled /\ [DayNext]_dayVars => SignedNeverCancelled'
<1> SUFFICES ASSUME DayTypeOK, SignedNeverCancelled, [DayNext]_dayVars,
                    NEW e \in Days, signed'[e]
             PROVE  life'[e] # "CANCELLED"
  BY DEF SignedNeverCancelled, Days
<1> USE DEF SignedNeverCancelled, DayTypeOK
<1>1. CASE UNCHANGED dayVars
  BY <1>1 DEF dayVars
<1>2. CASE NextDay \/ ResolveRead \/ ResolveAbort \/ \E d \in Days: DayOpenRead(d)
  BY <1>2 DEF NextDay, ResolveRead, ResolveAbort, DayOpenRead
<1>3. CASE ResolveCommit
  <2>1. signed[e]
    BY <1>3 DEF ResolveCommit
  <2>2. Swept(StaleDays)[e] # "CANCELLED"
    BY <2>1, SweptType
  <2> QED BY <1>3, <2>2 DEF ResolveCommit
<1>4. ASSUME NEW d \in Days, DayEndShift(d) \/ DaySweepStale(d)
      PROVE  life'[e] # "CANCELLED"
  BY <1>4, SweptType DEF DayEndShift, DaySweepStale
<1>5. ASSUME NEW d \in Days, DayConfirm(d) PROVE life'[e] # "CANCELLED"
  BY <1>5, SweptType DEF DayConfirm
<1>6. ASSUME NEW d \in Days, DayRevert(d) PROVE life'[e] # "CANCELLED"
  BY <1>6 DEF DayRevert
<1>7. ASSUME NEW d \in Days, DayCancel(d) PROVE life'[e] # "CANCELLED"
  BY <1>7 DEF DayCancel
<1>8. ASSUME NEW d \in Days, DayReopen(d) PROVE life'[e] # "CANCELLED"
  BY <1>8 DEF DayReopen
<1> QED
  BY <1>1, <1>2, <1>3, <1>4, <1>5, <1>6, <1>7, <1>8 DEF DayNext

(* A confirmed day is never cancelled, on any calendar.                    *)
THEOREM SignedDaysNeverCancelled == DaySpec => []SignedNeverCancelled
<1>1. DayInit => SignedNeverCancelled
  BY DEF DayInit, SignedNeverCancelled
<1>2. DayTypeOK /\ SignedNeverCancelled /\ [DayNext]_dayVars => SignedNeverCancelled'
  BY DayNextSigned
<1> QED BY <1>1, <1>2, DayTypeCorrect, PTL DEF DaySpec

-----------------------------------------------------------------------------
(* The day inside the drawer.                                              *)

(* Every step of the drawer is a step of the day, or leaves the day alone. *)
LEMMA StepIsDayStep == [Next]_vars => [DayNext]_dayVars
<1> SUFFICES ASSUME [Next]_vars PROVE [DayNext]_dayVars
  OBVIOUS
<1> USE DEF DayNext
<1>1. CASE UNCHANGED vars
  BY <1>1 DEF vars
<1>2. ASSUME NEW r \in Requests, OpenSteps(r) PROVE [DayNext]_dayVars
  BY <1>2 DEF OpenSteps, OpenRead, OpenResolve, OpenCommit
<1>3. ASSUME NEW r \in Requests, SaleSteps(r) PROVE [DayNext]_dayVars
  BY <1>3 DEF SaleSteps, DraftResolve, SubmitRead, DraftCommit, SubmitCommit, PayOrder
<1>4. ASSUME NEW r \in Requests, DirectSteps(r) PROVE [DayNext]_dayVars
  BY <1>4 DEF DirectSteps, DirectRead, DirectCommit
<1>5. ASSUME NEW r \in Requests, CancelSteps(r) PROVE [DayNext]_dayVars
  BY <1>5 DEF CancelSteps, CancelUnpaid, CancelPlan, CancelSync, CancelCommit
<1>6. ASSUME NEW r \in Requests, MoveSteps(r) \/ PayrollSteps(r)
      PROVE  [DayNext]_dayVars
  BY <1>6 DEF MoveSteps, MoveRead, ExpenseRead, MoveSync,
              PayrollSteps, PayrollPaid, PayrollRead, PayrollSync
<1>7. ASSUME NEW r \in Requests,
             SyncCommit(r) \/ Abort(r) \/ \E s \in Sessions: Recalculate(r, s)
      PROVE  [DayNext]_dayVars
  BY <1>7 DEF SyncCommit, Abort, Recalculate
<1>8. ASSUME NEW s \in Sessions,
             \/ CountSteps(s) \/ AutoClose(s) \/ ReviewSteps(s)
             \/ ForceClose(s) \/ ForceResolve(s)
      PROVE  [DayNext]_dayVars
  BY <1>8 DEF CountSteps, RequestClose, Close, AutoClose, ReviewSteps, Review,
              ForceClose, ForceResolve
<1>9. ASSUME NEW d \in Days,
             \/ EndShift(d) \/ SweepStale(d) \/ Confirm(d) \/ Revert(d)
             \/ CancelDay(d) \/ Reopen(d) \/ OpenDayRead(d)
      PROVE  [DayNext]_dayVars
  BY <1>9 DEF EndShift, SweepStale, Confirm, Revert, CancelDay, Reopen, OpenDayRead
<1>10. CASE OpenDayCommit \/ OpenDayAbort \/ DayPasses
  BY <1>10 DEF OpenDayCommit, OpenDayAbort, DayPasses
<1> QED
  BY <1>1, <1>2, <1>3, <1>4, <1>5, <1>6, <1>7, <1>8, <1>9, <1>10 DEF Next

(* The drawer implements the operational day: whatever sales, closings and *)
(* reviews do, the day only moves as OperationalDay allows.                *)
THEOREM ImplementsOperationalDay == Spec => DaySpec
<1>1. Init => DayInit
  BY DEF Init
<1> QED BY <1>1, StepIsDayStep, PTL DEF Spec, DaySpec

-----------------------------------------------------------------------------
(* What a step does to a session row.                                      *)

Inv == TypeOK /\ InFlightSound /\ ReviewStateSound

Awaiting == "AUTO_CLOSED_PENDING_REVIEW"

\* A snapshot: an expected cash, and a difference when the row has a count.
IsSynced(s) ==
    \E sum \in Int, diff \in Amounts:
        /\ session'[s] = Synced(session[s], sum, diff)
        /\ diff # Null => session[s].status \in Counted

IsOpened(s) ==
    \E b \in Boxes, d \in Days:
        /\ session[s].status = "ABSENT"
        /\ session'[s] = OpenedRow(b, d, payroll = "DUE")
        /\ \A t \in Sessions \ {s}: session'[t].key # b

IsAutoClosed(s) ==
    /\ session[s].status \in {"OPEN", "RECONCILING"}
    /\ session'[s] = AutoClosed(session[s], Formula(s))

IsRequested(s) ==
    /\ session[s].status = "OPEN"
    /\ session'[s] = [session[s] EXCEPT !.status = "RECONCILING", !.key = Null]

IsCounted(s) ==
    \E sum, count \in Int:
        \/ /\ session[s].status = "RECONCILING"
           /\ session'[s] = CountedRow(session[s], "CLOSED", sum, count)
        \/ /\ session[s].status = Awaiting
           /\ session'[s] = CountedRow(session[s], "AUTO_CLOSED", sum, count)

IsForced(s) ==
    \E count \in Int:
        /\ session[s].status = Awaiting
        /\ session'[s] = [session[s] EXCEPT !.status = "AUTO_CLOSED", !.counted = count,
                                            !.difference = 0, !.requiresReview = FALSE]

SessionChange(s) ==
    \/ session'[s] = session[s]
    \/ IsSynced(s)
    \/ IsOpened(s)
    \/ IsAutoClosed(s)
    \/ IsRequested(s)
    \/ IsCounted(s)
    \/ IsForced(s)

\* Two sessions change in one step only by a sweep, or by the opening it is part of.
ChangeTogether(s, t) ==
    \/ session'[s] = session[s]
    \/ session'[t] = session[t]
    \/ IsAutoClosed(s) /\ (IsAutoClosed(t) \/ IsOpened(t))
    \/ IsOpened(s) /\ IsAutoClosed(t)

\* A step changes no session but s.
OnlyChanges(s, row) == session' = [session EXCEPT ![s] = row]

LEMMA FormulaType ==
    ASSUME TypeOK, NEW s \in Sessions
    PROVE  Formula(s) \in Int
BY DEF TypeOK, SessionRows, Formula

(* A sync writes a difference only on a session that has been counted.     *)
LEMMA SyncDifferenceSound ==
    ASSUME Inv, NEW s \in Sessions, NEW sum \in Int
    PROVE  /\ SyncDifference(s, sum) \in Amounts
           /\ SyncDifference(s, sum) # Null => session[s].status \in Counted
<1>1. session[s] \in SessionRows
  BY DEF Inv, TypeOK
<1>2. session[s].counted # Null => session[s].counted \in Int
  BY <1>1 DEF SessionRows, Amounts
<1>3. session[s].counted # Null <=> session[s].status \in Counted
  BY DEF Inv, ReviewStateSound
<1> QED BY <1>2, <1>3 DEF SyncDifference, Amounts

(* A sweep closes what is open in its days and leaves the other sessions.  *)
LEMMA SweptChange ==
    ASSUME Inv, NEW days, session' = SweptSessions(days)
    PROVE  /\ session' = [s \in Sessions |-> session'[s]]
           /\ \A s \in Sessions: session'[s] = session[s] \/ IsAutoClosed(s)
BY DEF SweptSessions, Orphan, IsAutoClosed

LEMMA OneChange ==
    ASSUME TypeOK, NEW s \in Sessions, NEW row, OnlyChanges(s, row),
           session'[s] = row => SessionChange(s)
    PROVE  /\ session' = [t \in Sessions |-> session'[t]]
           /\ \A t \in Sessions: SessionChange(t)
           /\ \A t, u \in Sessions: t # u => ChangeTogether(t, u)
<1>1. session' = [t \in Sessions |-> IF t = s THEN row ELSE session[t]]
  BY DEF OnlyChanges, TypeOK
<1> QED BY <1>1 DEF SessionChange, ChangeTogether

LEMMA NoChange ==
    ASSUME TypeOK, UNCHANGED session
    PROVE  /\ session' = [t \in Sessions |-> session'[t]]
           /\ \A t \in Sessions: SessionChange(t)
           /\ \A t, u \in Sessions: t # u => ChangeTogether(t, u)
BY DEF TypeOK, SessionChange, ChangeTogether

(* Every step changes each session in one of the ways above, and two only  *)
(* as ChangeTogether says.                                                 *)
LEMMA SessionStep ==
    ASSUME Inv, [Next]_vars
    PROVE  /\ session' = [s \in Sessions |-> session'[s]]
           /\ \A s \in Sessions: SessionChange(s)
           /\ \A s, t \in Sessions: s # t => ChangeTogether(s, t)
<1> DEFINE Goal == /\ session' = [s \in Sessions |-> session'[s]]
                   /\ \A s \in Sessions: SessionChange(s)
                   /\ \A s, t \in Sessions: s # t => ChangeTogether(s, t)
<1>0. TypeOK
  BY DEF Inv
<1>1. UNCHANGED session => Goal
  BY <1>0, NoChange
<1>2. ASSUME NEW s \in Sessions, NEW row, OnlyChanges(s, row),
             session'[s] = row => SessionChange(s)
      PROVE  Goal
  BY <1>0, <1>2, OneChange
<1>3. ASSUME NEW days, session' = SweptSessions(days) PROVE Goal
  BY <1>3, SweptChange DEF SessionChange, ChangeTogether
<1> SUFFICES Goal
  OBVIOUS
<1> HIDE DEF Goal
<1>4. CASE UNCHANGED vars
  BY <1>1, <1>4 DEF vars, cashVars, tables
<1>5. ASSUME NEW r \in Requests, OpenSteps(r) PROVE Goal
  <2>1. ASSUME NEW b \in Boxes, OpenRead(r, b) PROVE Goal
    BY <1>1, <2>1 DEF OpenRead, tables
  <2>2. CASE OpenResolve(r)
    BY <1>1, <2>2 DEF OpenResolve, tables
  <2>3. ASSUME NEW s \in Sessions, OpenCommit(r, s) PROVE Goal
    <3> DEFINE b     == req[r].box
               swept == SweptSessions(Claimed(StaleDays))
               new   == OpenedRow(b, resolving.day, payroll = "DUE")
    <3>1. b \in Boxes /\ b # Null
      BY <1>0, <2>3, CashAssumption
      DEF Inv, InFlightSound, RefersToRows, OpenCommit, TypeOK, RequestRows
    <3>2. resolving.day \in Days
      BY <1>0, <2>3, ResolvingType DEF TypeOK, OpenCommit, ResolveCommit, Resolutions
    <3>3. /\ session[s].status = "ABSENT"
          /\ \A t \in Sessions: swept[t].key # b
          /\ session' = [swept EXCEPT ![s] = new]
      BY <2>3 DEF OpenCommit
    <3>4. swept = [t \in Sessions |-> swept[t]]
      BY DEF SweptSessions
    <3>5. session' = [t \in Sessions |-> IF t = s THEN new ELSE swept[t]]
      BY <3>3, <3>4
    <3>6. IsOpened(s)
      BY <3>1, <3>2, <3>3, <3>5 DEF IsOpened
    <3>7. ASSUME NEW t \in Sessions \ {s}
          PROVE  session'[t] = session[t] \/ IsAutoClosed(t)
      BY <3>5, <3>7 DEF SweptSessions, Orphan, IsAutoClosed
    <3>8. session' = [t \in Sessions |-> session'[t]]
      BY <3>5
    <3>9. \A t \in Sessions: SessionChange(t)
      BY <3>6, <3>7 DEF SessionChange
    <3>10. \A t, u \in Sessions: t # u => ChangeTogether(t, u)
      <4> HIDE DEF new, swept, b
      <4> QED BY <3>6, <3>7 DEF ChangeTogether
    <3> QED BY <3>8, <3>9, <3>10 DEF Goal
  <2> QED BY <1>5, <2>1, <2>2, <2>3 DEF OpenSteps
<1>6. ASSUME NEW r \in Requests, SaleSteps(r) PROVE Goal
  <2>1. ASSUME NEW o \in Orders, DraftResolve(r, o) \/ SubmitRead(r, o) PROVE Goal
    BY <1>1, <2>1 DEF DraftResolve, SubmitRead, tables
  <2>2. CASE DraftCommit(r)
    BY <1>3, <2>2 DEF DraftCommit
  <2>3. CASE SubmitCommit(r)
    BY <1>1, <2>3 DEF SubmitCommit
  <2>4. ASSUME NEW o \in Orders, NEW s \in Sessions, NEW cash \in {0, Price},
               PayOrder(o, s, cash)
        PROVE  Goal
    <3> DEFINE sum  == Formula(s) + cash
               diff == SyncDifference(s, sum)
    <3>1. sum \in Int
      BY <1>0, FormulaType, CashAssumption
    <3> HIDE DEF sum
    <3>2. diff \in Amounts /\ (diff # Null => session[s].status \in Counted)
      BY <3>1, SyncDifferenceSound
    <3>3. OnlyChanges(s, Synced(session[s], sum, diff))
      BY <2>4 DEF PayOrder, OnlyChanges, sum
    <3>4. session'[s] = Synced(session[s], sum, diff) => SessionChange(s)
      BY <3>1, <3>2 DEF IsSynced, SessionChange
    <3> QED BY <1>2, <3>3, <3>4
  <2> QED BY <1>6, <2>1, <2>2, <2>3, <2>4 DEF SaleSteps
<1>7. ASSUME NEW r \in Requests, DirectSteps(r) PROVE Goal
  BY <1>1, <1>7 DEF DirectSteps, DirectRead, DirectCommit, tables
<1>8. ASSUME NEW r \in Requests,
             req[r].pc = "synced",
             LET s == req[r].sess
             IN  session' = [session EXCEPT ![s] = Synced(@, req[r].sum, req[r].diff)]
      PROVE  Goal
  <2> DEFINE s == req[r].sess
  <2>1. /\ s \in Sessions
        /\ req[r].sum \in Int
        /\ req[r].diff \in Amounts
        /\ req[r].diff # Null => session[s].status \in Counted
    BY <1>0, <1>8 DEF Inv, TypeOK, RequestRows, InFlightSound, RefersToRows
  <2>2. OnlyChanges(s, Synced(session[s], req[r].sum, req[r].diff))
    BY <1>8 DEF OnlyChanges
  <2>3. session'[s] = Synced(session[s], req[r].sum, req[r].diff) => SessionChange(s)
    BY <2>1 DEF IsSynced, SessionChange
  <2> QED BY <1>2, <2>1, <2>2, <2>3
<1>9. ASSUME NEW r \in Requests, CancelSteps(r) PROVE Goal
  <2>1. ASSUME NEW o \in Orders, CancelUnpaid(o) PROVE Goal
    BY <1>1, <2>1 DEF CancelUnpaid
  <2>2. ASSUME NEW o \in Orders, NEW refunded \in BOOLEAN, CancelPlan(r, o, refunded)
        PROVE  Goal
    BY <1>1, <2>2 DEF CancelPlan, tables
  <2>3. CASE CancelSync(r)
    BY <1>1, <2>3 DEF CancelSync, tables
  <2>4. CASE CancelCommit(r)
    BY <1>8, <2>4 DEF CancelCommit
  <2> QED BY <1>9, <2>1, <2>2, <2>3, <2>4 DEF CancelSteps
<1>10. ASSUME NEW r \in Requests, MoveSteps(r) \/ PayrollSteps(r) PROVE Goal
  BY <1>1, <1>10 DEF MoveSteps, MoveRead, ExpenseRead, MoveSync, PayrollSteps,
                     PayrollPaid, PayrollRead, PayrollSync, tables
<1>11. ASSUME NEW r \in Requests, Abort(r) \/ \E s \in Sessions: Recalculate(r, s)
       PROVE  Goal
  BY <1>1, <1>11 DEF Abort, Recalculate, tables
<1>12. ASSUME NEW r \in Requests, SyncCommit(r) PROVE Goal
  BY <1>8, <1>12 DEF SyncCommit
<1>13. ASSUME NEW s \in Sessions,
              \/ CountSteps(s) \/ AutoClose(s) \/ ReviewSteps(s)
              \/ ForceClose(s) \/ ForceResolve(s)
       PROVE  Goal
  <2>0. Formula(s) \in Int /\ session[s] \in SessionRows
    BY <1>0, FormulaType DEF TypeOK
  <2>1. CASE RequestClose(s)
    <3> DEFINE row == [session[s] EXCEPT !.status = "RECONCILING", !.key = Null]
    <3>1. OnlyChanges(s, row)
      BY <2>1 DEF RequestClose, OnlyChanges
    <3>2. session'[s] = row => SessionChange(s)
      BY <2>1 DEF RequestClose, IsRequested, SessionChange
    <3> QED BY <1>2, <3>1, <3>2
  <2>2. ASSUME NEW count \in Counts, Close(s, count) PROVE Goal
    <3> DEFINE row == CountedRow(session[s], "CLOSED", Formula(s), count)
    <3>1. OnlyChanges(s, row)
      BY <2>2 DEF Close, OnlyChanges
    <3>2. session'[s] = row => SessionChange(s)
      BY <2>0, <2>2, CashAssumption DEF Close, IsCounted, SessionChange
    <3> QED BY <1>2, <3>1, <3>2
  <2>3. CASE AutoClose(s)
    <3> DEFINE row == AutoClosed(session[s], Formula(s))
    <3>1. OnlyChanges(s, row)
      BY <2>3 DEF AutoClose, OnlyChanges
    <3>2. session'[s] = row => SessionChange(s)
      BY <2>3 DEF AutoClose, IsAutoClosed, SessionChange
    <3> QED BY <1>2, <3>1, <3>2
  <2>4. ASSUME NEW count \in Int, Review(s, count) PROVE Goal
    <3> DEFINE base == ReviewBase(s)
               row  == CountedRow(session[s], "AUTO_CLOSED", base, count)
    <3>1. base \in Int
      BY <2>0 DEF ReviewBase, SessionRows, Amounts
    <3> HIDE DEF base
    <3>2. OnlyChanges(s, row)
      BY <2>4 DEF Review, OnlyChanges, base
    <3>3. session'[s] = row => SessionChange(s)
      BY <2>4, <3>1 DEF Review, IsCounted, Awaiting, SessionChange
    <3> QED BY <1>2, <3>2, <3>3
  <2>5. CASE ReviewSteps(s)
    <3>1. session[s].expected # Null => session[s].expected \in Int
      BY <2>0 DEF SessionRows, Amounts
    <3> QED BY <2>4, <2>5, <3>1, CashAssumption DEF ReviewSteps
  <2>6. CASE ForceResolve(s)
    <3> DEFINE count == IF session[s].expected = Null THEN 0 ELSE session[s].expected
               row == [session[s] EXCEPT !.status = "AUTO_CLOSED", !.counted = count,
                                         !.difference = 0, !.requiresReview = FALSE]
    <3>1. count \in Int
      BY <2>0 DEF SessionRows, Amounts
    <3>2. OnlyChanges(s, row)
      BY <2>6 DEF ForceResolve, OnlyChanges
    <3> HIDE DEF count
    <3>3. session'[s] = row => SessionChange(s)
      BY <2>6, <3>1 DEF ForceResolve, IsForced, Awaiting, SessionChange
    <3> QED BY <1>2, <3>2, <3>3
  <2> QED BY <1>13, <2>1, <2>2, <2>3, <2>5, <2>6 DEF CountSteps, ForceClose
<1>14. ASSUME NEW d \in Days,
              \/ EndShift(d) \/ SweepStale(d) \/ Confirm(d) \/ Revert(d)
              \/ CancelDay(d) \/ Reopen(d) \/ OpenDayRead(d)
       PROVE  Goal
  <2>1. CASE EndShift(d) \/ SweepStale(d) \/ Confirm(d)
    BY <1>3, <2>1 DEF EndShift, SweepStale, Confirm, SweepsSessions
  <2>2. CASE Revert(d) \/ CancelDay(d) \/ Reopen(d) \/ OpenDayRead(d)
    BY <1>1, <2>2 DEF Revert, CancelDay, Reopen, OpenDayRead, cashVars, tables
  <2> QED BY <1>14, <2>1, <2>2
<1>15. CASE OpenDayCommit \/ OpenDayAbort \/ DayPasses
  BY <1>1, <1>15 DEF OpenDayCommit, OpenDayAbort, DayPasses, cashVars, tables
<1> QED
  BY <1>4, <1>5, <1>6, <1>7, <1>9, <1>10, <1>11, <1>12, <1>13, <1>14, <1>15 DEF Next

-----------------------------------------------------------------------------
(* What follows from the ways a session row changes.                       *)

\* The review state of one row, of which ReviewStateSound is the conjunction.
ReviewSound(row) ==
    /\ row.requiresReview <=> row.status = Awaiting
    /\ row.counted # Null <=> row.status \in Counted
    /\ row.difference # Null <=> row.status \in Counted
    /\ row.status \in Counted \union {Awaiting} => row.expected # Null

LEMMA ReviewStateByRow ==
    ReviewStateSound <=> \A s \in Sessions: ReviewSound(session[s])
BY DEF ReviewStateSound, ReviewSound, Awaiting

LEMMA SyncedRow ==
    ASSUME NEW row \in SessionRows, ReviewSound(row), NEW sum \in Int,
           NEW diff \in Amounts, diff # Null => row.status \in Counted
    PROVE  Synced(row, sum, diff) \in SessionRows /\ ReviewSound(Synced(row, sum, diff))
<1>1. Synced(row, sum, diff) \in SessionRows
  BY DEF Synced, SessionRows, Amounts
<1>2. ReviewSound(Synced(row, sum, diff))
  BY DayAssumption DEF Synced, SessionRows, ReviewSound
<1> QED BY <1>1, <1>2

LEMMA OpenedRowSound ==
    ASSUME NEW b \in Boxes, NEW d \in Days, NEW due \in BOOLEAN
    PROVE  OpenedRow(b, d, due) \in SessionRows /\ ReviewSound(OpenedRow(b, d, due))
<1>1. (IF due THEN Opening - PayrollAmount ELSE Null) \in Amounts
  BY CashAssumption DEF Amounts
<1>2. Opening \in Int /\ Null \in Amounts /\ "OPEN" \in Statuses
  BY CashAssumption DEF Amounts, Statuses
<1>3. OpenedRow(b, d, due) \in SessionRows
  BY <1>1, <1>2 DEF OpenedRow, NoSession, SessionRows
<1>4. ReviewSound(OpenedRow(b, d, due))
  BY CashAssumption DEF OpenedRow, NoSession, ReviewSound, Counted, Awaiting
<1> QED BY <1>3, <1>4

LEMMA AutoClosedRow ==
    ASSUME NEW row \in SessionRows, NEW sum \in Int
    PROVE  AutoClosed(row, sum) \in SessionRows /\ ReviewSound(AutoClosed(row, sum))
<1>1. AutoClosed(row, sum) \in SessionRows
  BY DEF AutoClosed, SessionRows, Statuses, Amounts
<1>2. ReviewSound(AutoClosed(row, sum))
  BY DayAssumption DEF AutoClosed, SessionRows, ReviewSound, Awaiting, Counted
<1> QED BY <1>1, <1>2

LEMMA CountedRowSound ==
    ASSUME NEW row \in SessionRows, NEW status \in Counted,
           NEW sum \in Int, NEW count \in Int
    PROVE  /\ CountedRow(row, status, sum, count) \in SessionRows
           /\ ReviewSound(CountedRow(row, status, sum, count))
<1>1. status \in Statuses /\ {count - sum, sum, count} \subseteq Amounts
  BY DEF Statuses, Counted, Amounts
<1>2. CountedRow(row, status, sum, count) \in SessionRows
  BY <1>1 DEF CountedRow, SessionRows
<1>3. ReviewSound(CountedRow(row, status, sum, count))
  BY DayAssumption DEF CountedRow, SessionRows, ReviewSound, Awaiting, Counted
<1> QED BY <1>2, <1>3

LEMMA SessionChangeSound ==
    ASSUME Inv, NEW s \in Sessions, SessionChange(s)
    PROVE  /\ session'[s] \in SessionRows
           /\ ReviewSound(session'[s])
           /\ session[s].status \in Counted
                => /\ session'[s].status = session[s].status
                   /\ session'[s].counted = session[s].counted
<1>1. session[s] \in SessionRows /\ ReviewSound(session[s])
  BY ReviewStateByRow DEF Inv, TypeOK
<1>3. CASE session'[s] = session[s]
  BY <1>1, <1>3
<1>4. CASE IsSynced(s)
  <2>1. PICK sum \in Int, diff \in Amounts:
            /\ session'[s] = Synced(session[s], sum, diff)
            /\ diff # Null => session[s].status \in Counted
    BY <1>4 DEF IsSynced
  <2>2. session'[s].status = session[s].status /\ session'[s].counted = session[s].counted
    BY <1>1, <2>1 DEF Synced, SessionRows
  <2> QED BY <1>1, <2>1, <2>2, SyncedRow
<1>5. CASE IsOpened(s)
  <2>1. PICK b \in Boxes, d \in Days:
            /\ session[s].status = "ABSENT"
            /\ session'[s] = OpenedRow(b, d, payroll = "DUE")
    BY <1>5 DEF IsOpened
  <2>2. (payroll = "DUE") \in BOOLEAN
    OBVIOUS
  <2>3. session[s].status \notin Counted
    BY <2>1 DEF Counted
  <2> QED BY <2>1, <2>2, <2>3, OpenedRowSound
<1>6. CASE IsAutoClosed(s)
  BY <1>1, <1>6, FormulaType, AutoClosedRow DEF IsAutoClosed, Counted, Inv
<1>7. CASE IsRequested(s)
  BY <1>1, <1>7, CashAssumption
  DEF IsRequested, SessionRows, Statuses, ReviewSound, Counted, Awaiting
<1>8. CASE IsCounted(s)
  <2>1. PICK sum \in Int, count \in Int, status \in Counted:
            /\ session[s].status \notin Counted
            /\ session'[s] = CountedRow(session[s], status, sum, count)
    BY <1>8 DEF IsCounted, Counted, Awaiting
  <2> QED BY <1>1, <2>1, CountedRowSound
<1>9. CASE IsForced(s)
  <2>1. PICK count \in Int:
            /\ session[s].status = Awaiting
            /\ session'[s] = [session[s] EXCEPT !.status = "AUTO_CLOSED",
                                !.counted = count, !.difference = 0,
                                !.requiresReview = FALSE]
    BY <1>9 DEF IsForced
  <2>2. session'[s] \in SessionRows
    <3>1. "AUTO_CLOSED" \in Statuses /\ count \in Amounts /\ 0 \in Amounts
      BY DEF Statuses, Amounts
    <3> QED BY <1>1, <2>1, <3>1 DEF SessionRows
  <2>3. ReviewSound(session'[s]) /\ session[s].status \notin Counted
    BY <1>1, <2>1, DayAssumption DEF SessionRows, ReviewSound, Counted, Awaiting
  <2> QED BY <2>2, <2>3
<1> QED
  BY <1>3, <1>4, <1>5, <1>6, <1>7, <1>8, <1>9 DEF SessionChange

LEMMA SessionsSound ==
    ASSUME Inv, [Next]_vars
    PROVE  /\ session' \in [Sessions -> SessionRows]
           /\ ReviewStateSound'
           /\ \A s \in Sessions: session[s].status \in Counted
                => /\ session'[s].status = session[s].status
                   /\ session'[s].counted = session[s].counted
<1>1. /\ session' = [s \in Sessions |-> session'[s]]
      /\ \A s \in Sessions: SessionChange(s)
  BY SessionStep
<1>2. \A s \in Sessions: session'[s] \in SessionRows /\ ReviewSound(session'[s])
  BY <1>1, SessionChangeSound
<1>3. ReviewStateSound'
  BY <1>2, ReviewStateByRow DEF ReviewStateSound, ReviewSound, Awaiting
<1>4. \A s \in Sessions: session[s].status \in Counted
                => /\ session'[s].status = session[s].status
                   /\ session'[s].counted = session[s].counted
  BY <1>1, SessionChangeSound
<1> QED BY <1>1, <1>2, <1>3, <1>4

-----------------------------------------------------------------------------
(* What a step does to the transactions in flight.                         *)

\* The request r is idle, or has reached a row that names what it uses, whose
\* cancelled order (if any) is posted to its session and cancelled by nobody
\* else, and whose difference (if any) is of a counted session.
IsRequest(r, row) ==
    /\ row \in RequestRows
    /\ RefersToRows(row)
    /\ \A o \in Orders: row.pc \in {"cancelPlanned", "synced"} /\ row.ord = o
          => /\ paid[o] # Null
             /\ paid[o].sess = row.sess
             /\ \A q \in Requests: Cancelling(q, o) => q = r
    /\ row.pc = "synced" /\ row.diff # Null => session[row.sess].status \in Counted

\* No transaction is touched, or one is, and the payments of the orders that
\* the others are cancelling are left alone.
RequestChange ==
    \/ /\ req' = req
       /\ \A o \in Orders: OrderLocked(o) => paid'[o] = paid[o]
    \/ \E r \in Requests, row \in RequestRows:
          /\ req' = [req EXCEPT ![r] = row]
          /\ IsRequest(r, row)
          /\ \/ paid' = paid
             \/ /\ row.pc = "idle"
                /\ \A o \in Orders: (\E q \in Requests \ {r}: Cancelling(q, o))
                                      => paid'[o] = paid[o]

LEMMA IdleSound == Idle \in RequestRows /\ \A r \in Requests: IsRequest(r, Idle)
<1>1. Idle \in RequestRows
  BY DEF Idle, RequestRows, Pcs, Plans, Amounts
<1> QED BY <1>1 DEF IsRequest, Idle, RefersToRows

(* The rows of the transactions stay sound under such a change.            *)
LEMMA RequestChangeSound ==
    ASSUME Inv, [Next]_vars, RequestChange
    PROVE  req' \in [Requests -> RequestRows] /\ InFlightSound'
<1>1. \A s \in Sessions: session[s].status \in Counted => session'[s].status \in Counted
  BY SessionsSound
<1>2. TypeOK /\ InFlightSound
  BY DEF Inv
<1>3. CASE req' = req /\ \A o \in Orders: OrderLocked(o) => paid'[o] = paid[o]
  <2>1. \A r \in Requests: req[r].pc = "synced" => req[r].sess \in Sessions
    BY <1>2 DEF InFlightSound, RefersToRows, TypeOK, RequestRows
  <2> QED BY <1>1, <1>2, <1>3, <2>1 DEF InFlightSound, OrderLocked, Cancelling, TypeOK
<1>4. ASSUME NEW r \in Requests, NEW row \in RequestRows,
             req' = [req EXCEPT ![r] = row],
             IsRequest(r, row),
             \/ paid' = paid
             \/ /\ row.pc = "idle"
                /\ \A o \in Orders: (\E q \in Requests \ {r}: Cancelling(q, o))
                                      => paid'[o] = paid[o]
      PROVE  req' \in [Requests -> RequestRows] /\ InFlightSound'
  <2>1. req' = [q \in Requests |-> IF q = r THEN row ELSE req[q]]
    BY <1>2, <1>4 DEF TypeOK
  <2>2. req' \in [Requests -> RequestRows]
    BY <1>2, <2>1 DEF TypeOK
  <2>3. \A q \in Requests: RefersToRows(req'[q])
    BY <1>2, <1>4, <2>1 DEF InFlightSound, IsRequest
  <2>4. ASSUME NEW p \in Requests, NEW o \in Orders, Cancelling(p, o)'
        PROVE  /\ paid'[o] # Null
               /\ paid'[o].sess = req'[p].sess
               /\ \A q \in Requests: Cancelling(q, o)' => q = p
    <3>1. CASE p = r
      BY <1>4, <2>1, <2>4, <3>1 DEF Cancelling, IsRequest
    <3>2. CASE p # r
      <4>1. Cancelling(p, o) /\ req'[p] = req[p]
        BY <2>1, <2>4, <3>2 DEF Cancelling
      <4>2. paid'[o] = paid[o]
        BY <1>4, <3>2, <4>1
      <4>3. ASSUME NEW q \in Requests, Cancelling(q, o)' PROVE q = p
        <5>1. q # r => Cancelling(q, o)
          BY <2>1, <4>3 DEF Cancelling
        <5>2. q # r
          BY <1>4, <2>1, <3>2, <4>1, <4>3 DEF Cancelling, IsRequest
        <5> QED BY <1>2, <4>1, <5>1, <5>2 DEF InFlightSound
      <4> QED BY <1>2, <4>1, <4>2, <4>3 DEF InFlightSound
    <3> QED BY <3>1, <3>2
  <2>5. ASSUME NEW p \in Requests, req'[p].pc = "synced", req'[p].diff # Null
        PROVE  session'[req'[p].sess].status \in Counted
    <3>1. req'[p].sess \in Sessions
      BY <2>2, <2>3, <2>5 DEF RefersToRows, RequestRows
    <3>2. session[req'[p].sess].status \in Counted
      BY <1>2, <1>4, <2>1, <2>5 DEF InFlightSound, IsRequest
    <3> QED BY <1>1, <3>1, <3>2
  <2> QED BY <2>2, <2>3, <2>4, <2>5 DEF InFlightSound
<1> QED BY <1>3, <1>4 DEF RequestChange

\* A transaction ends: it was cancelling no order, or voids its own.
LEMMA Ends ==
    ASSUME NEW r \in Requests, req' = [req EXCEPT ![r] = Idle],
           \A o \in Orders: (\E q \in Requests \ {r}: Cancelling(q, o)) => paid'[o] = paid[o]
    PROVE  RequestChange
<1>1. Idle.pc = "idle"
  BY DEF Idle
<1> QED BY <1>1, IdleSound DEF RequestChange

LEMMA RequestMoves ==
    ASSUME NEW r \in Requests, NEW row, req' = [req EXCEPT ![r] = row],
           IsRequest(r, row), paid' = paid
    PROVE  RequestChange
BY DEF RequestChange, IsRequest

(* The snapshot a transaction computes is sound when the order it cancels  *)
(* is the one it planned to.                                               *)
LEMMA SnapshotSound ==
    ASSUME Inv, NEW r \in Requests, NEW s \in Sessions,
           NEW net \in Int, NEW number \in Nat, NEW cash \in Int,
           ComputesSnapshot(r, s, net, number, cash), UNCHANGED paid,
           \A o \in Orders: req[r].ord = o => Cancelling(r, o) /\ req[r].sess = s
    PROVE  RequestChange
<1> DEFINE sum  == Formula(s) + net - cash
           diff == SyncDifference(s, sum)
           row  == [req[r] EXCEPT !.pc = "synced", !.sess = s, !.amt = net,
                                  !.inserted = number, !.sum = sum, !.diff = diff]
<1>1. TypeOK /\ InFlightSound
  BY DEF Inv
<1>2. sum \in Int
  BY <1>1, FormulaType
<1>3. req' = [req EXCEPT ![r] = row]
  BY <1>1 DEF ComputesSnapshot, TypeOK
<1> HIDE DEF sum
<1>4. diff \in Amounts /\ (diff # Null => session[s].status \in Counted)
  BY <1>2, SyncDifferenceSound
<1> HIDE DEF diff
<1>5. req[r] \in RequestRows
  BY <1>1 DEF TypeOK
<1>6. /\ row \in RequestRows
      /\ row.pc = "synced" /\ row.sess = s /\ row.ord = req[r].ord /\ row.diff = diff
  BY <1>2, <1>4, <1>5 DEF RequestRows, Pcs
<1>7. RefersToRows(row)
  BY <1>6, CashAssumption DEF RefersToRows
<1> HIDE DEF row
<1>8. IsRequest(r, row)
  BY <1>1, <1>4, <1>6, <1>7 DEF IsRequest, InFlightSound
<1> QED BY <1>3, <1>8, RequestMoves

(* Every step treats the transactions in flight in this way.               *)
LEMMA RequestStep ==
    ASSUME Inv, [Next]_vars
    PROVE  RequestChange
<1>0. TypeOK /\ InFlightSound
  BY DEF Inv
<1>1. UNCHANGED <<req, paid>> => RequestChange
  BY DEF RequestChange
<1>2. ASSUME NEW r \in Requests, req' = [req EXCEPT ![r] = Idle], UNCHANGED paid
      PROVE  RequestChange
  BY <1>2, Ends
<1>3. ASSUME NEW r \in Requests, NEW row \in RequestRows,
             req' = [req EXCEPT ![r] = row], UNCHANGED paid,
             RefersToRows(row), row.pc \notin {"cancelPlanned", "synced"}
      PROVE  RequestChange
  BY <1>3, RequestMoves DEF IsRequest
<1>4. CASE UNCHANGED vars
  BY <1>1, <1>4 DEF vars, cashVars, tables
<1> USE DEF tables, cashVars
<1>5. ASSUME NEW r \in Requests, OpenSteps(r) PROVE RequestChange
  <2>1. ASSUME NEW b \in Boxes, OpenRead(r, b) PROVE RequestChange
    <3> DEFINE row == [Idle EXCEPT !.pc = "openChecked", !.box = b]
    <3>1. row \in RequestRows /\ row.pc = "openChecked" /\ RefersToRows(row)
      BY CashAssumption, IdleSound DEF Idle, RequestRows, Pcs, RefersToRows
    <3> HIDE DEF row
    <3> QED BY <1>3, <2>1, <3>1 DEF OpenRead, row
  <2>2. CASE OpenResolve(r)
    <3> DEFINE row == [req[r] EXCEPT !.pc = "openResolved"]
    <3>0. req[r] \in RequestRows /\ req[r].box # Null
      BY <1>0, <2>2 DEF OpenResolve, TypeOK, InFlightSound, RefersToRows
    <3>1. row \in RequestRows /\ row.pc = "openResolved" /\ RefersToRows(row)
      BY <3>0 DEF RequestRows, Pcs, RefersToRows
    <3>2. req' = [req EXCEPT ![r] = row]
      BY <1>0, <2>2 DEF OpenResolve, TypeOK
    <3> HIDE DEF row
    <3> QED BY <1>3, <2>2, <3>1, <3>2 DEF OpenResolve
  <2>3. ASSUME NEW s \in Sessions, OpenCommit(r, s) PROVE RequestChange
    BY <1>2, <2>3 DEF OpenCommit
  <2> QED BY <1>5, <2>1, <2>2, <2>3 DEF OpenSteps
<1>6. ASSUME NEW r \in Requests, SaleSteps(r) PROVE RequestChange
  <2>1. ASSUME NEW o \in Orders, DraftResolve(r, o) PROVE RequestChange
    <3> DEFINE row == [Idle EXCEPT !.pc = "draftResolved", !.ord = o]
    <3>1. row \in RequestRows /\ row.pc = "draftResolved" /\ RefersToRows(row)
      BY CashAssumption, IdleSound DEF Idle, RequestRows, Pcs, RefersToRows
    <3> HIDE DEF row
    <3> QED BY <1>3, <2>1, <3>1 DEF DraftResolve, row
  <2>2. ASSUME NEW o \in Orders, SubmitRead(r, o) PROVE RequestChange
    <3> DEFINE row == [Idle EXCEPT !.pc = "submitRead", !.ord = o]
    <3>1. row \in RequestRows /\ row.pc = "submitRead" /\ RefersToRows(row)
      BY CashAssumption, IdleSound DEF Idle, RequestRows, Pcs, RefersToRows
    <3> HIDE DEF row
    <3> QED BY <1>3, <2>2, <3>1 DEF SubmitRead, row
  <2>3. CASE DraftCommit(r) \/ SubmitCommit(r)
    BY <1>2, <2>3 DEF DraftCommit, SubmitCommit
  <2>4. ASSUME NEW o \in Orders, NEW s \in Sessions, NEW cash \in {0, Price},
               PayOrder(o, s, cash)
        PROVE  RequestChange
    BY <1>0, <2>4 DEF PayOrder, RequestChange, TypeOK
  <2> QED BY <1>6, <2>1, <2>2, <2>3, <2>4 DEF SaleSteps
<1>7. ASSUME NEW r \in Requests, DirectSteps(r) PROVE RequestChange
  <2>1. ASSUME NEW o \in Orders, NEW s \in Sessions, DirectRead(r, o, s)
        PROVE  RequestChange
    <3> DEFINE row == [Idle EXCEPT !.pc = "directRead", !.ord = o, !.sess = s]
    <3>1. row \in RequestRows /\ row.pc = "directRead" /\ RefersToRows(row)
      BY CashAssumption, IdleSound DEF Idle, RequestRows, Pcs, RefersToRows
    <3> HIDE DEF row
    <3> QED BY <1>3, <2>1, <3>1 DEF DirectRead, row
  <2>2. ASSUME NEW cash \in {0, Price}, DirectCommit(r, cash) PROVE RequestChange
    <3>1. \A o \in Orders: OrderLocked(o) => paid'[o] = paid[o]
      BY <1>0, <2>2 DEF DirectCommit, TypeOK
    <3> QED BY <2>2, <3>1, Ends DEF DirectCommit, OrderLocked
  <2> QED BY <1>7, <2>1, <2>2 DEF DirectSteps
<1>8. ASSUME NEW r \in Requests, CancelSteps(r) PROVE RequestChange
  <2>1. ASSUME NEW o \in Orders, CancelUnpaid(o) PROVE RequestChange
    BY <1>1, <2>1 DEF CancelUnpaid
  <2>2. ASSUME NEW o \in Orders, NEW refunded \in BOOLEAN, CancelPlan(r, o, refunded)
        PROVE  RequestChange
    <3> DEFINE row == [Idle EXCEPT !.pc = "cancelPlanned", !.ord = o,
                                   !.sess = paid[o].sess, !.plan = CashPlan(o, refunded)]
    <3>1. paid[o].sess \in Sessions /\ CashPlan(o, refunded) \in Plans
      BY <1>0, <2>2 DEF CancelPlan, TypeOK, CashPlan, Plans
    <3>2. /\ row \in RequestRows /\ row.pc = "cancelPlanned" /\ row.ord = o
          /\ row.sess = paid[o].sess /\ RefersToRows(row)
      BY <3>1, CashAssumption, IdleSound DEF Idle, RequestRows, Pcs, RefersToRows
    <3> HIDE DEF row
    <3>3. IsRequest(r, row)
      BY <2>2, <3>2 DEF IsRequest, CancelPlan, OrderLocked
    <3> QED BY <2>2, <3>3, RequestMoves DEF CancelPlan, row
  <2>3. CASE CancelSync(r)
    <3> DEFINE s == req[r].sess
               o == req[r].ord
               n == IF req[r].plan = "CREATE_DRAWER_REFUND" THEN 2 ELSE 0
    <3>1. s \in Sessions /\ o \in Orders
      BY <1>0, <2>3 DEF CancelSync, TypeOK, RequestRows, InFlightSound, RefersToRows
    <3>2. Cancelling(r, o) /\ paid[o].cash \in Int
      BY <1>0, <2>3, <3>1, CashAssumption
      DEF CancelSync, Cancelling, InFlightSound, TypeOK
    <3>3. n \in Nat /\ ComputesSnapshot(r, s, 0, n, paid[o].cash) /\ UNCHANGED paid
      BY <2>3 DEF CancelSync
    <3> HIDE DEF n
    <3> QED BY <3>1, <3>2, <3>3, SnapshotSound
  <2>4. CASE CancelCommit(r)
    <3>1. \A o \in Orders: o = req[r].ord => Cancelling(r, o)
      BY <2>4 DEF CancelCommit, Cancelling
    <3>2. \A o \in Orders: (\E q \in Requests \ {r}: Cancelling(q, o)) => paid'[o] = paid[o]
      BY <1>0, <2>4, <3>1 DEF CancelCommit, InFlightSound, TypeOK
    <3> QED BY <2>4, <3>2, Ends DEF CancelCommit
  <2> QED BY <1>8, <2>1, <2>2, <2>3, <2>4 DEF CancelSteps
<1>9. ASSUME NEW r \in Requests, req[r].pc \in {"idle", "moveRead", "payrollRead"},
             NEW s \in Sessions, NEW net \in Int, NEW number \in Nat,
             ComputesSnapshot(r, s, net, number, 0), UNCHANGED paid
      PROVE  RequestChange
  <2>1. req[r].ord = Null
    BY <1>0, <1>9 DEF InFlightSound, RefersToRows
  <2> QED BY <1>9, <2>1, SnapshotSound, CashAssumption
<1>10. ASSUME NEW r \in Requests, MoveSteps(r) PROVE RequestChange
  <2>1. ASSUME NEW s \in Sessions, NEW a \in Moves, MoveRead(r, s, a) \/ ExpenseRead(r, s, a)
        PROVE  RequestChange
    <3> DEFINE row == [Idle EXCEPT !.pc = "moveRead", !.sess = s, !.amt = a]
    <3>1. row \in RequestRows /\ row.pc = "moveRead" /\ RefersToRows(row)
      BY CashAssumption, IdleSound DEF Idle, RequestRows, Pcs, RefersToRows
    <3> HIDE DEF row
    <3> QED BY <1>3, <2>1, <3>1 DEF MoveRead, ExpenseRead, row
  <2>2. CASE MoveSync(r)
    <3>1. req[r].sess \in Sessions /\ req[r].amt \in Int
      BY <1>0, <2>2 DEF MoveSync, TypeOK, RequestRows, InFlightSound, RefersToRows
    <3> QED BY <1>9, <2>2, <3>1 DEF MoveSync
  <2> QED BY <1>10, <2>1, <2>2 DEF MoveSteps
<1>11. ASSUME NEW r \in Requests, PayrollSteps(r) PROVE RequestChange
  <2>1. CASE PayrollPaid
    BY <1>1, <2>1 DEF PayrollPaid
  <2>2. ASSUME NEW s \in Sessions, PayrollRead(r, s) PROVE RequestChange
    <3> DEFINE row == [Idle EXCEPT !.pc = "payrollRead", !.sess = s, !.forPayroll = TRUE]
    <3>1. row \in RequestRows /\ row.pc = "payrollRead" /\ RefersToRows(row)
      BY CashAssumption, IdleSound DEF Idle, RequestRows, Pcs, RefersToRows
    <3> HIDE DEF row
    <3> QED BY <1>3, <2>2, <3>1 DEF PayrollRead, row
  <2>3. CASE PayrollSync(r)
    <3>1. req[r].sess \in Sessions
      BY <1>0, <2>3 DEF PayrollSync, TypeOK, RequestRows, InFlightSound, RefersToRows
    <3> QED BY <1>9, <2>3, <3>1, CashAssumption DEF PayrollSync
  <2> QED BY <1>11, <2>1, <2>2, <2>3 DEF PayrollSteps
<1>12. ASSUME NEW r \in Requests, NEW s \in Sessions, Recalculate(r, s)
       PROVE  RequestChange
  BY <1>9, <1>12 DEF Recalculate
<1>13. ASSUME NEW r \in Requests, SyncCommit(r) \/ Abort(r) PROVE RequestChange
  BY <1>2, <1>13 DEF SyncCommit, Abort
<1>14. ASSUME NEW s \in Sessions,
              \/ CountSteps(s) \/ AutoClose(s) \/ ReviewSteps(s)
              \/ ForceClose(s) \/ ForceResolve(s)
       PROVE  RequestChange
  BY <1>1, <1>14 DEF CountSteps, RequestClose, Close, AutoClose, ReviewSteps, Review,
                     ForceClose, ForceResolve
<1>15. ASSUME NEW d \in Days,
              \/ EndShift(d) \/ SweepStale(d) \/ Confirm(d) \/ Revert(d)
              \/ CancelDay(d) \/ Reopen(d) \/ OpenDayRead(d)
       PROVE  RequestChange
  BY <1>1, <1>15 DEF EndShift, SweepStale, Confirm, SweepsSessions, Revert, CancelDay,
                     Reopen, OpenDayRead
<1>16. CASE OpenDayCommit \/ OpenDayAbort \/ DayPasses
  BY <1>1, <1>16 DEF OpenDayCommit, OpenDayAbort, DayPasses
<1> QED
  BY <1>4, <1>5, <1>6, <1>7, <1>8, <1>10, <1>11, <1>12, <1>13, <1>14, <1>15, <1>16 DEF Next

-----------------------------------------------------------------------------
(* The types of the remaining tables.                                      *)

BooksTypeOK ==
    /\ tendered \in [Sessions -> Int]
    /\ moved \in [Sessions -> Int]
    /\ rows \in [Sessions -> Nat]
    /\ voided \in [Sessions -> BOOLEAN]
    /\ order \in [Orders -> [status: OrderStatuses, day: Days \union {Null}]]
    /\ paid \in [Orders -> [sess: Sessions, cash: {0, Price}] \union {Null}]
    /\ payroll \in {"NONE", "DUE", "APPLIED"}
    /\ cashedOut \in Nat

LEMMA BooksStep ==
    ASSUME Inv, [Next]_vars
    PROVE  BooksTypeOK'
<1>0. BooksTypeOK /\ TypeOK /\ InFlightSound
  BY DEF Inv, TypeOK, BooksTypeOK
<1> USE CashAssumption DEF BooksTypeOK, OrderStatuses
<1>1. CASE UNCHANGED <<tendered, moved, rows, voided, order, paid, payroll, cashedOut>>
  BY <1>0, <1>1
<1>2. ASSUME NEW r \in Requests, NEW s \in Sessions, OpenCommit(r, s)
      PROVE  BooksTypeOK'
  <2>1. /\ moved' \in [Sessions -> Int]
        /\ rows' \in [Sessions -> Nat]
        /\ payroll' \in {"NONE", "DUE", "APPLIED"}
        /\ cashedOut' \in Nat
    BY <1>0, <1>2 DEF OpenCommit
  <2> QED BY <1>0, <1>2, <2>1 DEF OpenCommit
<1>3. ASSUME NEW r \in Requests, DraftCommit(r) PROVE BooksTypeOK'
  <2>1. resolving.day \in Days
    BY <1>0, <1>3, ResolvingType DEF TypeOK, DraftCommit, ResolveCommit, Resolutions
  <2> QED BY <1>0, <1>3, <2>1 DEF DraftCommit
<1>4. ASSUME NEW r \in Requests, SubmitCommit(r) PROVE BooksTypeOK'
  BY ZenonT(40), <1>0, <1>4 DEF SubmitCommit
<1>5. ASSUME NEW o \in Orders, NEW s \in Sessions, NEW cash \in {0, Price},
             PayOrder(o, s, cash)
      PROVE  BooksTypeOK'
  BY <1>0, <1>5 DEF PayOrder
<1>6. ASSUME NEW r \in Requests, NEW cash \in {0, Price}, DirectCommit(r, cash)
      PROVE  BooksTypeOK'
  <2>1. req[r].sess \in Sessions /\ req[r].ord \in Orders
    BY <1>0, <1>6 DEF DirectCommit, TypeOK, RequestRows, InFlightSound, RefersToRows
  <2>2. tendered' \in [Sessions -> Int]
    BY <1>0, <1>6, <2>1 DEF DirectCommit
  <2>3. [sess |-> req[r].sess, cash |-> cash] \in [sess: Sessions, cash: {0, Price}]
    BY <2>1
  <2>4. paid' \in [Orders -> [sess: Sessions, cash: {0, Price}] \union {Null}]
    BY <1>0, <1>6, <2>1, <2>3 DEF DirectCommit
  <2> QED BY <1>0, <1>6, <2>2, <2>4 DEF DirectCommit
<1>7. ASSUME NEW o \in Orders, CancelUnpaid(o) PROVE BooksTypeOK'
  BY <1>0, <1>7 DEF CancelUnpaid
<1>8. CASE PayrollPaid
  BY <1>0, <1>8 DEF PayrollPaid
<1>9. ASSUME NEW r \in Requests, req[r].pc = "synced"
      PROVE  req[r].amt \in Int /\ req[r].inserted \in Nat /\ req[r].sess \in Sessions
  BY <1>0, <1>9 DEF TypeOK, RequestRows, InFlightSound, RefersToRows
<1>10. ASSUME NEW r \in Requests, SyncCommit(r) PROVE BooksTypeOK'
  <2>1. moved' \in [Sessions -> Int]
    BY <1>0, <1>9, <1>10 DEF SyncCommit
  <2>2. rows' \in [Sessions -> Nat]
    BY <1>0, <1>9, <1>10 DEF SyncCommit
  <2> QED BY <1>0, <1>10, <2>1, <2>2 DEF SyncCommit
<1>11. ASSUME NEW r \in Requests, CancelCommit(r) PROVE BooksTypeOK'
  <2> DEFINE o == req[r].ord
  <2>1. o \in Orders /\ Cancelling(r, o)
    BY <1>0, <1>11 DEF CancelCommit, TypeOK, RequestRows, Cancelling
  <2>2. paid[o].cash \in Int
    BY <1>0, <2>1 DEF InFlightSound
  <2>3. tendered' \in [Sessions -> Int]
    BY <1>0, <1>9, <1>11, <2>2 DEF CancelCommit
  <2>4. rows' \in [Sessions -> Nat]
    BY <1>0, <1>9, <1>11 DEF CancelCommit
  <2>5. /\ voided' \in [Sessions -> BOOLEAN]
        /\ order' \in [Orders -> [status: OrderStatuses, day: Days \union {Null}]]
        /\ paid' \in [Orders -> [sess: Sessions, cash: {0, Price}] \union {Null}]
    BY ZenonT(40), <1>0, <1>11, <2>1 DEF CancelCommit
  <2> QED BY <1>0, <1>11, <2>3, <2>4, <2>5 DEF CancelCommit
<1> HIDE DEF BooksTypeOK
<1> USE DEF tables, cashVars
<1>12. ASSUME NEW r \in Requests,
              \/ OpenSteps(r) \/ SaleSteps(r) \/ DirectSteps(r) \/ CancelSteps(r)
              \/ MoveSteps(r) \/ PayrollSteps(r)
              \/ \E s \in Sessions: Recalculate(r, s)
              \/ SyncCommit(r) \/ Abort(r)
       PROVE  BooksTypeOK'
  <2>1. CASE OpenSteps(r)
    BY <1>1, <1>2, <2>1 DEF OpenSteps, OpenRead, OpenResolve
  <2>2. CASE SaleSteps(r)
    BY <1>1, <1>3, <1>4, <1>5, <2>2 DEF SaleSteps, DraftResolve, SubmitRead
  <2>3. CASE DirectSteps(r) \/ CancelSteps(r)
    BY <1>1, <1>6, <1>7, <1>11, <2>3
    DEF DirectSteps, DirectRead, CancelSteps, CancelPlan, CancelSync
  <2>4. CASE MoveSteps(r) \/ PayrollSteps(r)
    BY <1>1, <1>8, <2>4 DEF MoveSteps, MoveRead, ExpenseRead, MoveSync, PayrollSteps,
                            PayrollRead, PayrollSync
  <2>5. CASE Abort(r) \/ \E s \in Sessions: Recalculate(r, s)
    BY <1>1, <2>5 DEF Abort, Recalculate
  <2> QED BY <1>10, <1>12, <2>1, <2>2, <2>3, <2>4, <2>5
<1>13. ASSUME NEW s \in Sessions,
              \/ CountSteps(s) \/ AutoClose(s) \/ ReviewSteps(s)
              \/ ForceClose(s) \/ ForceResolve(s)
       PROVE  BooksTypeOK'
  BY <1>1, <1>13 DEF CountSteps, RequestClose, Close, AutoClose, ReviewSteps, Review,
                     ForceClose, ForceResolve
<1>14. ASSUME NEW d \in Days,
              \/ EndShift(d) \/ SweepStale(d) \/ Confirm(d) \/ Revert(d)
              \/ CancelDay(d) \/ Reopen(d) \/ OpenDayRead(d)
       PROVE  BooksTypeOK'
  BY <1>1, <1>14 DEF EndShift, SweepStale, Confirm, SweepsSessions, Revert, CancelDay,
                     Reopen, OpenDayRead
<1>15. CASE OpenDayCommit \/ OpenDayAbort \/ DayPasses \/ UNCHANGED vars
  BY <1>1, <1>15 DEF OpenDayCommit, OpenDayAbort, DayPasses, vars
<1> QED BY <1>12, <1>13, <1>14, <1>15 DEF Next

-----------------------------------------------------------------------------
(* The inductive invariant and what it implies.                            *)

LEMMA InvInit == Init => Inv
<1> SUFFICES ASSUME Init PROVE Inv
  OBVIOUS
<1>1. DayTypeOK
  BY DayInitType DEF Init
<1>2. NoSession \in SessionRows
  BY DEF NoSession, SessionRows, Statuses, Amounts
<1>3. TypeOK
  BY <1>1, <1>2, IdleSound DEF Init, TypeOK, OrderStatuses
<1>4. InFlightSound
  BY DEF Init, InFlightSound, RefersToRows, Cancelling, Idle
<1>5. ReviewStateSound
  BY DEF Init, ReviewStateSound, NoSession, Counted
<1> QED BY <1>3, <1>4, <1>5 DEF Inv

LEMMA InvStep == Inv /\ [Next]_vars => Inv'
<1> SUFFICES ASSUME Inv, [Next]_vars PROVE Inv'
  OBVIOUS
<1>1. DayTypeOK'
  BY StepIsDayStep, DayNextType DEF Inv, TypeOK
<1>2. session' \in [Sessions -> SessionRows] /\ ReviewStateSound'
  BY SessionsSound
<1>3. req' \in [Requests -> RequestRows] /\ InFlightSound'
  BY RequestStep, RequestChangeSound
<1>4. BooksTypeOK'
  BY BooksStep
<1> QED BY <1>1, <1>2, <1>3, <1>4 DEF Inv, TypeOK, BooksTypeOK

LEMMA Invariance == Spec => []Inv
<1> QED BY InvInit, InvStep, PTL DEF Spec

(* The types hold in every reachable state.                                *)
THEOREM TypeCorrect == Spec => []TypeOK
<1>1. Inv => TypeOK
  BY DEF Inv
<1> QED BY <1>1, Invariance, PTL

(* What a transaction in flight decided on stays true until it commits.    *)
THEOREM InFlightCorrect == Spec => []InFlightSound
<1>1. Inv => InFlightSound
  BY DEF Inv
<1> QED BY <1>1, Invariance, PTL

(* A session awaits review exactly while nobody has counted its drawer.    *)
THEOREM ReviewStateCorrect == Spec => []ReviewStateSound
<1>1. Inv => ReviewStateSound
  BY DEF Inv
<1> QED BY <1>1, Invariance, PTL

(* A drawer is counted once.                                               *)
THEOREM CountsAreFinal == Spec => CountIsFinal
<1>1. Inv /\ [Next]_vars
        => [\A s \in Sessions: session[s].status \in Counted
              => /\ session'[s].status = session[s].status
                 /\ session'[s].counted = session[s].counted]_vars
  BY SessionsSound
<1> QED BY <1>1, Invariance, PTL DEF Spec, CountIsFinal

-----------------------------------------------------------------------------
(* The unique key.                                                         *)

(* OneOpenPerBox is not inductive alone: a new session is refused because  *)
(* another HOLDS the key, so the key must say which sessions are open.     *)
LEMMA KeyStep ==
    Inv /\ KeyMatchesStatus /\ OneOpenPerBox /\ [Next]_vars
        => KeyMatchesStatus' /\ OneOpenPerBox'
<1> SUFFICES ASSUME Inv, KeyMatchesStatus, OneOpenPerBox, [Next]_vars
             PROVE  KeyMatchesStatus' /\ OneOpenPerBox'
  OBVIOUS
<1> DEFINE Matches(row) == row.key = IF row.status = "OPEN" THEN row.box ELSE Null
           Opens(s) == \E b \in Boxes:
                          /\ session'[s].box = b
                          /\ \A t \in Sessions \ {s}: session'[t].key # b
           Stays(s) == /\ session'[s].status = "OPEN" => session[s].status = "OPEN"
                       /\ session'[s].box = session[s].box
<1>1. ASSUME NEW s \in Sessions
      PROVE  Matches(session'[s]) /\ (Opens(s) \/ Stays(s))
  <2>1. session[s] \in SessionRows /\ Matches(session[s])
    BY DEF Inv, TypeOK, KeyMatchesStatus
  <2>2. SessionChange(s)
    BY SessionStep
  <2> USE DEF SessionRows
  <2>3. CASE session'[s] = session[s]
    BY <2>1, <2>3
  <2>4. CASE IsSynced(s)
    BY <2>1, <2>4 DEF IsSynced, Synced
  <2>5. CASE IsOpened(s)
    BY <2>5 DEF IsOpened, OpenedRow, NoSession
  <2>6. CASE IsAutoClosed(s)
    BY <2>1, <2>6 DEF IsAutoClosed, AutoClosed
  <2>7. CASE IsRequested(s)
    BY <2>1, <2>7 DEF IsRequested
  <2>8. CASE IsCounted(s)
    BY ZenonT(40), <2>1, <2>8 DEF IsCounted, CountedRow, Awaiting
  <2>9. CASE IsForced(s)
    BY <2>1, <2>9 DEF IsForced, Awaiting
  <2> QED BY <2>2, <2>3, <2>4, <2>5, <2>6, <2>7, <2>8, <2>9 DEF SessionChange
<1>2. KeyMatchesStatus'
  BY <1>1 DEF KeyMatchesStatus
<1>3. ASSUME NEW s \in Sessions, NEW t \in Sessions,
             session'[s].status = "OPEN", session'[t].status = "OPEN",
             session'[s].box = session'[t].box, s # t
      PROVE  FALSE
  <2>1. session'[s].key = session'[s].box /\ session'[t].key = session'[t].box
    BY <1>1, <1>3
  <2>2. ~Opens(s) /\ ~Opens(t)
    BY <1>3, <2>1
  <2>3. Stays(s) /\ Stays(t)
    BY <1>1, <2>2
  <2> QED BY <1>3, <2>3 DEF OneOpenPerBox
<1> QED BY <1>2, <1>3 DEF OneOpenPerBox

LEMMA KeyInvariance == Spec => [](KeyMatchesStatus /\ OneOpenPerBox)
<1>1. Init => KeyMatchesStatus /\ OneOpenPerBox
  BY DEF Init, NoSession, KeyMatchesStatus, OneOpenPerBox
<1> QED BY <1>1, KeyStep, Invariance, PTL DEF Spec

(* The unique key is held exactly by the OPEN session of its box.          *)
THEOREM KeysMatchStatus == Spec => []KeyMatchesStatus
<1> QED BY KeyInvariance, PTL

(* A physical cash box never has two OPEN sessions.                        *)
THEOREM OneOpenSessionPerBox == Spec => []OneOpenPerBox
<1> QED BY KeyInvariance, PTL

-----------------------------------------------------------------------------
(* The sessions implement the drawers.                                     *)

\* The phases of two rows of the same status are the same.
LEMMA PhaseOfStatus ==
    /\ PhaseOf["ABSENT"] = "UNUSED"
    /\ PhaseOf["OPEN"] = "HELD"
    /\ PhaseOf["RECONCILING"] = "COUNTING"
    /\ PhaseOf[Awaiting] = "UNCOUNTED"
    /\ \A status \in Counted: PhaseOf[status] = "COUNTED"
    /\ \A status \in Statuses: PhaseOf[status] = "HELD" => status = "OPEN"
BY DEF PhaseOf, Awaiting, Counted, Statuses

Phase(s) == PhaseOf[session[s].status]

AutoClosedNow == {s \in Sessions: IsAutoClosed(s)}

\* A session that a sweep closes becomes uncounted; a late snapshot changes
\* nothing the drawers know of.
LEMMA AutoClosedDrawer ==
    ASSUME Inv, NEW s \in Sessions, IsAutoClosed(s)
    PROVE  /\ Phase(s) \in {"HELD", "COUNTING"}
           /\ Phase(s)' = "UNCOUNTED"
           /\ session'[s].box = session[s].box
           /\ session'[s].counted = session[s].counted
<1>1. session[s] \in SessionRows
  BY DEF Inv, TypeOK
<1>2. session[s].counted = Null
  BY DEF Inv, ReviewStateSound, IsAutoClosed, Counted
<1> QED BY <1>1, <1>2, PhaseOfStatus DEF IsAutoClosed, AutoClosed, Phase, SessionRows, Awaiting

LEMMA QuietDrawer ==
    ASSUME Inv, NEW s \in Sessions, session'[s] = session[s] \/ IsSynced(s)
    PROVE  /\ Phase(s)' = Phase(s)
           /\ session'[s].box = session[s].box
           /\ session'[s].counted = session[s].counted
           /\ ~IsAutoClosed(s)
<1>1. session[s] \in SessionRows
  BY DEF Inv, TypeOK
<1>2. /\ session'[s].status = session[s].status
      /\ session'[s].box = session[s].box
      /\ session'[s].counted = session[s].counted
  BY <1>1 DEF IsSynced, Synced, SessionRows
<1>3. ASSUME IsAutoClosed(s) PROVE FALSE
  BY <1>1, <1>2, <1>3 DEF IsAutoClosed, AutoClosed, SessionRows
<1> QED BY <1>2, <1>3 DEF Phase

\* A step that closes sessions without a count, and otherwise changes nothing
\* the drawers know of.
LEMMA SweepDrawers ==
    ASSUME Inv,
           \A s \in Sessions: session'[s] = session[s] \/ IsSynced(s) \/ IsAutoClosed(s)
    PROVE  Drawers!DrawerNext
<1> DEFINE gone == AutoClosedNow
<1>1. gone \in SUBSET Drawers!Leaving
  BY AutoClosedDrawer DEF AutoClosedNow, Drawers!Leaving, Phase
<1>2. \A s \in Sessions:
          Phase(s)' = IF s \in gone THEN "UNCOUNTED" ELSE Phase(s)
  BY AutoClosedDrawer, QuietDrawer DEF AutoClosedNow
<1>3. \A s \in Sessions: session'[s].box = session[s].box
                         /\ session'[s].counted = session[s].counted
  BY AutoClosedDrawer, QuietDrawer
<1>4. Drawers!LetGo(gone)
  BY <1>1, <1>2, <1>3 DEF Drawers!LetGo, Drawers!After, Phase
<1> HIDE DEF gone
<1>5. \E g \in SUBSET Drawers!Leaving: Drawers!LetGo(g)
  BY <1>1, <1>4 DEF Drawers!LetGo
<1> QED BY <1>5 DEF Drawers!DrawerNext

\* The opening of a session, with the sweep it may make.
LEMMA TakeDrawer ==
    ASSUME Inv, KeyMatchesStatus, NEW s \in Sessions, IsOpened(s),
           \A t \in Sessions \ {s}: session'[t] = session[t] \/ IsAutoClosed(t)
    PROVE  Drawers!DrawerNext
<1> DEFINE gone == AutoClosedNow
<1>1. PICK b \in Boxes, d \in Days:
          /\ session[s].status = "ABSENT"
          /\ session'[s] = OpenedRow(b, d, payroll = "DUE")
          /\ \A t \in Sessions \ {s}: session'[t].key # b
  BY DEF IsOpened
<1>2. /\ Phase(s) = "UNUSED" /\ Phase(s)' = "HELD"
      /\ session'[s].box = b
      /\ session'[s].counted = Null
      /\ s \notin gone
  BY <1>1, PhaseOfStatus DEF OpenedRow, NoSession, Phase, AutoClosedNow, IsAutoClosed
<1>3. session[s].counted = Null
  BY <1>1 DEF Inv, ReviewStateSound, Counted
<1>4. gone \in SUBSET Drawers!Leaving
  BY AutoClosedDrawer DEF AutoClosedNow, Drawers!Leaving, Phase
<1>5. ASSUME NEW t \in Sessions, t # s
      PROVE  /\ Phase(t)' = IF t \in gone THEN "UNCOUNTED" ELSE Phase(t)
             /\ session'[t].box = session[t].box
             /\ session'[t].counted = session[t].counted
             /\ t \notin gone /\ Phase(t) = "HELD" => session[t].box # b
  <2>1. CASE IsAutoClosed(t)
    BY <2>1, AutoClosedDrawer DEF AutoClosedNow
  <2>2. CASE ~IsAutoClosed(t)
    <3>1. session'[t] = session[t]
      BY <1>5, <2>2
    <3>2. session[t].status \in Statuses
      BY DEF Inv, TypeOK, SessionRows
    <3>3. Phase(t) = "HELD" => session[t].key = session[t].box
      BY <3>2, PhaseOfStatus DEF Phase, KeyMatchesStatus
    <3> QED BY <2>2, <3>1, <3>3, <1>1, <1>5 DEF AutoClosedNow, Phase
  <2> QED BY <2>1, <2>2
<1>6. Drawers!Take(s, b, gone)
  <2>1. \A t \in Sessions: Drawers!After(gone)[t] = "HELD" => session[t].box # b
    BY <1>2, <1>5 DEF Drawers!After, Phase
  <2>2. [t \in Sessions |-> Phase(t)]' = [Drawers!After(gone) EXCEPT ![s] = "HELD"]
    BY <1>2, <1>5 DEF Drawers!After, Phase
  <2>3. [t \in Sessions |-> session[t].box]' =
            [[t \in Sessions |-> session[t].box] EXCEPT ![s] = b]
    BY <1>2, <1>5
  <2>4. [t \in Sessions |-> session[t].counted]' = [t \in Sessions |-> session[t].counted]
    BY <1>2, <1>3, <1>5
  <2> QED BY <1>2, <2>1, <2>2, <2>3, <2>4 DEF Drawers!Take, Phase
<1> HIDE DEF gone
<1>7. \E c \in Boxes: Drawers!Take(s, c, gone)
  BY <1>6 DEF Drawers!Take
<1>8. \E t \in Sessions, c \in Boxes: Drawers!Take(t, c, gone)
  BY <1>7 DEF Drawers!Take
<1>9. \E g \in SUBSET Drawers!Leaving: \E t \in Sessions, c \in Boxes: Drawers!Take(t, c, g)
  BY <1>4, <1>8 DEF Drawers!Take
<1> QED BY <1>9 DEF Drawers!DrawerNext

\* The count of a drawer is begun.
LEMMA BeginDrawer ==
    ASSUME Inv, NEW s \in Sessions, IsRequested(s),
           \A t \in Sessions \ {s}: session'[t] = session[t]
    PROVE  Drawers!DrawerNext
<1>1. session[s] \in SessionRows
  BY DEF Inv, TypeOK
<1>2. /\ Phase(s) = "HELD" /\ Phase(s)' = "COUNTING"
      /\ session'[s].box = session[s].box
      /\ session'[s].counted = session[s].counted
  BY <1>1, PhaseOfStatus DEF IsRequested, Phase, SessionRows
<1>3. \A t \in Sessions: t # s => session'[t] = session[t]
  OBVIOUS
<1>4. Drawers!BeginCount(s)
  BY <1>2, <1>3 DEF Drawers!BeginCount, Phase
<1> QED BY <1>4 DEF Drawers!DrawerNext

\* A drawer is counted, by the closing, by the review or by the forced one.
LEMMA CountDrawer ==
    ASSUME Inv, NEW s \in Sessions, IsCounted(s) \/ IsForced(s),
           \A t \in Sessions \ {s}: session'[t] = session[t]
    PROVE  Drawers!DrawerNext
<1>1. session[s] \in SessionRows
  BY DEF Inv, TypeOK
<1>2. /\ Phase(s) \in {"COUNTING", "UNCOUNTED"} /\ Phase(s)' = "COUNTED"
      /\ session'[s].box = session[s].box
      /\ session'[s].counted \in Int
  BY ZenonT(40), <1>1, PhaseOfStatus
  DEF IsCounted, IsForced, CountedRow, Phase, SessionRows, Counted, Awaiting
<1>3. \A t \in Sessions: t # s => session'[t] = session[t]
  OBVIOUS
<1>4. Drawers!Count(s)
  BY <1>2, <1>3 DEF Drawers!Count, Phase
<1> QED BY <1>4 DEF Drawers!DrawerNext

\* Every step is one of the drawers, or leaves them as they are.
LEMMA DrawerStep ==
    ASSUME Inv, KeyMatchesStatus, [Next]_vars
    PROVE  Drawers!DrawerNext
<1>1. /\ \A s \in Sessions: SessionChange(s)
      /\ \A s, t \in Sessions: s # t => ChangeTogether(s, t)
  BY SessionStep
<1>2. ASSUME NEW s \in Sessions, IsOpened(s) PROVE Drawers!DrawerNext
  <2>1. session'[s] # session[s] /\ ~IsAutoClosed(s)
    BY <1>2 DEF IsOpened, OpenedRow, NoSession, IsAutoClosed
  <2>2. \A t \in Sessions \ {s}: session'[t] = session[t] \/ IsAutoClosed(t)
    BY <1>1, <2>1 DEF ChangeTogether
  <2> QED BY <1>2, <2>2, TakeDrawer
<1>3. ASSUME NEW s \in Sessions, IsRequested(s) \/ IsCounted(s) \/ IsForced(s)
      PROVE  Drawers!DrawerNext
  <2>1. session[s] \in SessionRows
    BY DEF Inv, TypeOK
  <2>2. session'[s] # session[s] /\ ~IsAutoClosed(s) /\ ~IsOpened(s)
    BY <1>3, <2>1
    DEF IsRequested, IsCounted, IsForced, CountedRow, IsAutoClosed, AutoClosed, IsOpened,
        Awaiting, SessionRows
  <2>3. \A t \in Sessions \ {s}: session'[t] = session[t]
    BY <1>1, <2>2 DEF ChangeTogether
  <2> QED BY <1>3, <2>3, BeginDrawer, CountDrawer
<1>4. CASE \A s \in Sessions:
               ~IsOpened(s) /\ ~IsRequested(s) /\ ~IsCounted(s) /\ ~IsForced(s)
  BY <1>1, <1>4, SweepDrawers DEF SessionChange
<1> QED BY <1>2, <1>3, <1>4

(* The sessions implement the drawers: each is taken when no other session *)
(* has it, let go once and counted once, for any number of sessions, boxes *)
(* and transactions in flight.                                             *)
THEOREM SessionsImplementDrawers == Spec => ImplementsDrawers
<1>1. Init => Drawers!DrawerInit
  BY PhaseOfStatus DEF Init, Drawers!DrawerInit, NoSession
<1>2. Inv /\ KeyMatchesStatus /\ [Next]_vars => [Drawers!DrawerNext]_(Drawers!drawerVars)
  BY DrawerStep
<1> QED
  BY <1>1, <1>2, Invariance, KeyInvariance, PTL DEF Spec, ImplementsDrawers, Drawers!DrawerSpec

-----------------------------------------------------------------------------
(* Cancelled orders.                                                       *)

LEMMA CancelledStep ==
    Inv /\ CancelledOrdersUnpaid /\ [Next]_vars => CancelledOrdersUnpaid'
<1> SUFFICES ASSUME Inv, CancelledOrdersUnpaid, [Next]_vars, NEW e \in Orders,
                    order'[e].status = "CANCELLED"
             PROVE  paid'[e] = Null
  BY DEF CancelledOrdersUnpaid
<1>0. TypeOK /\ (order[e].status = "CANCELLED" => paid[e] = Null)
  BY DEF Inv, CancelledOrdersUnpaid
<1> USE DEF tables, cashVars
<1>1. CASE UNCHANGED <<order, paid>>
  BY <1>0, <1>1
<1>2. ASSUME NEW r \in Requests, DraftCommit(r) \/ SubmitCommit(r) PROVE paid'[e] = Null
  BY <1>0, <1>2 DEF DraftCommit, SubmitCommit, TypeOK
<1>3. ASSUME NEW o \in Orders, NEW s \in Sessions, NEW cash \in {0, Price},
             PayOrder(o, s, cash)
      PROVE  paid'[e] = Null
  BY <1>0, <1>3 DEF PayOrder, TypeOK
<1>4. ASSUME NEW r \in Requests, NEW cash \in {0, Price}, DirectCommit(r, cash)
      PROVE  paid'[e] = Null
  BY <1>0, <1>4 DEF DirectCommit, TypeOK
<1>5. ASSUME NEW o \in Orders, CancelUnpaid(o) PROVE paid'[e] = Null
  BY <1>0, <1>5 DEF CancelUnpaid, TypeOK
<1>6. ASSUME NEW r \in Requests, CancelCommit(r) PROVE paid'[e] = Null
  BY <1>0, <1>6 DEF CancelCommit, TypeOK
<1>7. ASSUME NEW r \in Requests,
             \/ OpenSteps(r) \/ SaleSteps(r) \/ DirectSteps(r) \/ CancelSteps(r)
             \/ MoveSteps(r) \/ PayrollSteps(r)
             \/ \E s \in Sessions: Recalculate(r, s)
             \/ SyncCommit(r) \/ Abort(r)
      PROVE  paid'[e] = Null
  <2>1. CASE OpenSteps(r)
    BY <1>1, <2>1 DEF OpenSteps, OpenRead, OpenResolve, OpenCommit
  <2>2. CASE SaleSteps(r)
    BY <1>1, <1>2, <1>3, <2>2 DEF SaleSteps, DraftResolve, SubmitRead
  <2>3. CASE DirectSteps(r) \/ CancelSteps(r)
    BY <1>1, <1>4, <1>5, <1>6, <2>3
    DEF DirectSteps, DirectRead, CancelSteps, CancelPlan, CancelSync
  <2>4. CASE MoveSteps(r) \/ PayrollSteps(r)
    BY <1>1, <2>4 DEF MoveSteps, MoveRead, ExpenseRead, MoveSync, PayrollSteps,
                      PayrollPaid, PayrollRead, PayrollSync
  <2>5. CASE SyncCommit(r) \/ Abort(r) \/ \E s \in Sessions: Recalculate(r, s)
    BY <1>1, <2>5 DEF SyncCommit, Abort, Recalculate
  <2> QED BY <1>7, <2>1, <2>2, <2>3, <2>4, <2>5
<1>8. ASSUME NEW s \in Sessions,
             \/ CountSteps(s) \/ AutoClose(s) \/ ReviewSteps(s)
             \/ ForceClose(s) \/ ForceResolve(s)
      PROVE  paid'[e] = Null
  BY <1>1, <1>8 DEF CountSteps, RequestClose, Close, AutoClose, ReviewSteps, Review,
                    ForceClose, ForceResolve
<1>9. ASSUME NEW d \in Days,
             \/ EndShift(d) \/ SweepStale(d) \/ Confirm(d) \/ Revert(d)
             \/ CancelDay(d) \/ Reopen(d) \/ OpenDayRead(d)
      PROVE  paid'[e] = Null
  BY <1>1, <1>9 DEF EndShift, SweepStale, Confirm, SweepsSessions, Revert, CancelDay,
                    Reopen, OpenDayRead
<1>10. CASE OpenDayCommit \/ OpenDayAbort \/ DayPasses \/ UNCHANGED vars
  BY <1>1, <1>10 DEF OpenDayCommit, OpenDayAbort, DayPasses, vars
<1> QED BY <1>7, <1>8, <1>9, <1>10 DEF Next

(* A cancelled order keeps no posted payment.                              *)
THEOREM CancelledOrdersStayUnpaid == Spec => []CancelledOrdersUnpaid
<1>1. Init => CancelledOrdersUnpaid
  BY DEF Init, CancelledOrdersUnpaid
<1> QED BY <1>1, CancelledStep, Invariance, PTL DEF Spec
=============================================================================
