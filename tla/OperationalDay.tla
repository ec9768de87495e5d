--------------------------- MODULE OperationalDay ---------------------------
(***************************************************************************)
(* The operational day of one branch ("Dia Operativo 360"):                *)
(* hammer-api/src/modules/operations/day-lifecycle.ts and day-resolver.ts. *)
(*                                                                         *)
(* A day is the row of one business date.  Its lifecycle axis is moved by  *)
(* the system (a sweep takes a day out of ACTIVE, an operation of the      *)
(* branch puts today's day back), its review axis by a human signature.    *)
(*                                                                         *)
(* Every lifecycle handler locks the day row and is one action.  The two   *)
(* handlers that open or reactivate a day lock the BRANCH row instead and  *)
(* read the day without a lock, so each is two actions: the read, whose    *)
(* result is held in `resolving' until the commit, and the commit.  The    *)
(* branch lock admits one of them at a time.                               *)
(***************************************************************************)
EXTENDS Integers

CONSTANTS
    MaxDay,         \* business dates are 0 .. MaxDay (a bound on the calendar)
    Null            \* the absent value

ASSUME DayAssumption == MaxDay \in Nat /\ Null \notin Int

VARIABLES
    today,          \* the current business date (businessDateFromNow)
    life,           \* day -> OperationalDay.lifecycle, "NONE" without a row
    signed,         \* day -> reviewStatus = CONFIRMED
    resolving       \* what the holder of the branch lock has read, or Null

dayVars == <<today, life, signed, resolving>>

Days       == 0..MaxDay
Lifecycles == {"NONE", "ACTIVE", "AWAITING_REVIEW", "CANCELLED"}

\* The day row as the branch-lock holder read it; `sweeps' tells the resolver,
\* which also sweeps the past days, from the manual opening.
Resolutions == [day: Days, life: Lifecycles, signed: BOOLEAN, sweeps: BOOLEAN]

DayTypeOK ==
    /\ today \in Days
    /\ life \in [Days -> Lifecycles]
    /\ signed \in [Days -> BOOLEAN]
    /\ resolving \in Resolutions \union {Null}

DayInit ==
    /\ today = 0
    /\ life = [d \in Days |-> "NONE"]
    /\ signed = [d \in Days |-> FALSE]
    /\ resolving = Null

-----------------------------------------------------------------------------
(* The calendar.                                                           *)

NextDay ==
    /\ today < MaxDay
    /\ today' = today + 1
    /\ UNCHANGED <<life, signed, resolving>>

-----------------------------------------------------------------------------
(* Sweeping: out of ACTIVE, never finalised.                               *)

\* sweepDayToAwaitingReviewTx: the claim of every ACTIVE day of a set.
Swept(days) ==
    [d \in Days |-> IF d \in days /\ life[d] = "ACTIVE"
                      THEN "AWAITING_REVIEW" ELSE life[d]]

\* endShiftOperationalDay: the branch ends its shift by hand.
DayEndShift(d) ==
    /\ life[d] = "ACTIVE"
    /\ life' = Swept({d})
    /\ UNCHANGED <<today, signed, resolving>>

\* Mutant: yesterday is not stale yet.
DaySweepStaleLate(d) ==
    /\ life[d] = "ACTIVE"
    /\ d + 1 < today
    /\ life' = Swept({d})
    /\ UNCHANGED <<today, signed, resolving>>

\* sweepStaleOperationalDaysToAwaitingReview: the cron, one day a transaction.
DaySweepStale(d) ==
    /\ life[d] = "ACTIVE"
    /\ d < today
    /\ life' = Swept({d})
    /\ UNCHANGED <<today, signed, resolving>>

-----------------------------------------------------------------------------
(* The human signature.                                                    *)

\* confirmOperationalDay: signs, sweeping the day first when it is ACTIVE.
DayConfirm(d) ==
    /\ ~signed[d]
    /\ life[d] \in {"ACTIVE", "AWAITING_REVIEW"}
    /\ life' = Swept({d})
    /\ signed' = [signed EXCEPT ![d] = TRUE]
    /\ UNCHANGED <<today, resolving>>

\* revertOperationalDayConfirmation
DayRevert(d) ==
    /\ signed[d]
    /\ signed' = [signed EXCEPT ![d] = FALSE]
    /\ UNCHANGED <<today, life, resolving>>

\* Mutant: the override also reaches a signed day.
DayCancelSigned(d) ==
    /\ life[d] \in {"ACTIVE", "AWAITING_REVIEW"}
    /\ life' = [life EXCEPT ![d] = "CANCELLED"]
    /\ UNCHANGED <<today, signed, resolving>>

\* cancelOperationalDay: the override makes real activity no obstacle.
DayCancel(d) ==
    /\ ~signed[d]
    /\ life[d] \in {"ACTIVE", "AWAITING_REVIEW"}
    /\ life' = [life EXCEPT ![d] = "CANCELLED"]
    /\ UNCHANGED <<today, signed, resolving>>

\* reopenOperationalDay: today's day only, and no other day ACTIVE.
DayReopen(d) ==
    /\ d = today
    /\ life[d] = "AWAITING_REVIEW"
    /\ \A other \in Days \ {d}: life[other] # "ACTIVE"
    /\ life' = [life EXCEPT ![d] = "ACTIVE"]
    /\ signed' = [signed EXCEPT ![d] = FALSE]
    /\ UNCHANGED <<today, resolving>>

-----------------------------------------------------------------------------
(* Handlers that hold the branch lock between a read and a write.          *)

DayRead(d, sweeps) ==
    [day |-> d, life |-> life[d], signed |-> signed[d], sweeps |-> sweeps]

\* resolveOperationalDayForOperationTx, up to the read of today's day.
ResolveRead ==
    /\ resolving = Null
    /\ resolving' = DayRead(today, TRUE)
    /\ UNCHANGED <<today, life, signed>>

\* openOperationalDay, up to the read of the chosen day.
DayOpenRead(d) ==
    /\ resolving = Null
    /\ life[d] # "ACTIVE"
    /\ resolving' = DayRead(d, FALSE)
    /\ UNCHANGED <<today, life, signed>>

\* The ACTIVE days of a past date the resolver takes out of ACTIVE.
StaleDays == {d \in Days: resolving.sweeps /\ d < resolving.day}

\* Both handlers' writes: a day read as ACTIVE is left alone, any other is
\* created or reactivated, and a signature is dropped when the READ showed it
\* (the resolver also resets it on a day it read as CANCELLED).
KeepsSignature ==
    \/ resolving.life = "ACTIVE"
    \/ ~resolving.signed /\ ~(resolving.sweeps /\ resolving.life = "CANCELLED")

ResolveCommit ==
    /\ resolving # Null
    /\ life' = [d \in Days |-> IF d = resolving.day /\ resolving.life # "ACTIVE"
                                 THEN "ACTIVE" ELSE Swept(StaleDays)[d]]
    /\ signed' = [signed EXCEPT ![resolving.day] = @ /\ KeepsSignature]
    /\ resolving' = Null
    /\ UNCHANGED today

\* The transaction rolls back.
ResolveAbort ==
    /\ resolving # Null
    /\ resolving' = Null
    /\ UNCHANGED <<today, life, signed>>

-----------------------------------------------------------------------------

DayNext ==
    \/ NextDay
    \/ ResolveRead \/ ResolveCommit \/ ResolveAbort
    \/ \E d \in Days:
          \/ DayEndShift(d) \/ DaySweepStale(d)
          \/ DayConfirm(d) \/ DayRevert(d) \/ DayCancel(d) \/ DayReopen(d)
          \/ DayOpenRead(d)

DaySpec == DayInit /\ [][DayNext]_dayVars

-----------------------------------------------------------------------------
(* A confirmed day is never cancelled, whatever handlers touch the day     *)
(* between the signature and the cancellation (cancelOperationalDay: "Un   *)
(* dia confirmado NUNCA se cancela (ni con override)").                    *)
SignedNeverCancelled == \A d \in Days: signed[d] => life[d] # "CANCELLED"

(* A day that starts moving again carries no signature (day-resolver.ts:   *)
(* "la reactivacion revierte la firma a PENDING porque el dia vuelve a     *)
(* moverse"); the resolver decides on a read made before its write.        *)
ReactivationRevertsSignature ==
    [][\A d \in Days: life[d] # "ACTIVE" /\ life'[d] = "ACTIVE" => ~signed'[d]]_dayVars

(* A day whose date has passed leaves ACTIVE: the cron sweeps it, unless a *)
(* person, or the next operation of the branch, has moved it before.       *)
StaleDayLeavesActive ==
    \A d \in Days: (life[d] = "ACTIVE" /\ d < today) ~> (life[d] # "ACTIVE")
=============================================================================
