----------------------------- MODULE StockCount ------------------------------
(***************************************************************************)
(* A count of one product of a branch (stock-count-service.ts of           *)
(* hammer-api/src/modules/inventory) while its stock moves: phones scan    *)
(* units, the count is sent, reviewed, and what it found different becomes *)
(* an entry of one line (Intake), applied when the entry gets to it.       *)
(*                                                                         *)
(* A scan reads the stock and the status of the count outside of the       *)
(* transaction that stores it; so does the approval, once it has claimed   *)
(* the count.  Every scan is of one unit.                                  *)
(***************************************************************************)
EXTENDS Intake, Stock

CONSTANTS
    Phones,         \* scans and corrections in progress at a time (a bound)
    Events,         \* clientEventIds (a bound)
    Starts,         \* the balances a count may find at its start
    Figure,         \* the figure a correction types in
    MaxMoves        \* movements of others before they stop (a bound)

LineRows == [counted: Nat, atScan: Nat]

ASSUME StockCountAssumption ==
    /\ NLines = 1
    /\ Starts \subseteq Balances
    /\ Figure \in Nat
    /\ MaxMoves \in Nat
    /\ Null \notin LineRows

VARIABLES
    count,      \* StockCount.status
    line,       \* its StockCountLine of the product, or Null
    events,     \* the StockCountEvents of scans
    edited,     \* has a correction been stored?
    phone,      \* scans and corrections in progress
    approval,   \* the approval of the count
    balance,    \* the stock of the product
    start,      \* what it was at the start
    moves,      \* movements of others so far, and
    moved       \* what they added up to: in all, at the approval's reading
                \* and at the last application of the entry

countVars ==
    <<count, line, events, edited, phone, approval, balance, start, moves, moved>>
allVars == <<intakeVars, countVars>>

-----------------------------------------------------------------------------
(* Data.                                                                   *)

CountStatuses == {"OPEN", "SUBMITTED", "APPROVED", "REJECTED"}

PhoneRows ==
    [pc: {"idle", "scanning", "correcting"}, event: Events \union {Null}, value: Nat]

IdlePhone == [pc |-> "idle", event |-> Null, value |-> 0]

\* Its step, the figures it claimed with the count and the quantity it sends.
ApprovalRows ==
    [pc: {"idle", "claimed", "read", "ended"},
     counted: Nat, atScan: Nat, quantity: Nat]

NoApproval == [pc |-> "idle", counted |-> 0, atScan |-> 0, quantity |-> 0]

StockCountTypeOK ==
    /\ IntakeTypeOK
    /\ count \in CountStatuses
    /\ line \in LineRows \union {Null}
    /\ events \subseteq Events
    /\ edited \in BOOLEAN
    /\ phone \in [Phones -> PhoneRows]
    /\ approval \in ApprovalRows
    /\ balance \in Balances
    /\ start \in Starts
    /\ moves \in Nat
    /\ moved \in [all: Int, read: Int, applied: Int]

StockCountInit ==
    /\ IntakeInit
    /\ count = "OPEN"
    /\ line = Null
    /\ events = {}
    /\ edited = FALSE
    /\ phone = [p \in Phones |-> IdlePhone]
    /\ approval = NoApproval
    /\ start \in Starts
    /\ balance = start
    /\ moves = 0
    /\ moved = [all |-> 0, read |-> 0, applied |-> 0]

AtLeastZero(n) == IF n < 0 THEN 0 ELSE n

Difference == approval.counted - approval.atScan

-----------------------------------------------------------------------------
(* Scans and corrections.                                                  *)

\* scanStockCount up to the reading of the stock; an event that is stored
\* already is answered with the line.
ScanRead(p, e) ==
    /\ phone[p].pc = "idle"
    /\ e \notin events
    /\ count = "OPEN"
    /\ phone' = [phone EXCEPT
           ![p] = [pc |-> "scanning", event |-> e, value |-> OnHand(balance)]]
    /\ UNCHANGED <<intakeVars, count, line, events, edited, approval,
                   balance, start, moves, moved>>

Scanned(value) ==
    IF line = Null THEN [counted |-> 1, atScan |-> value]
    ELSE [counted |-> line.counted + 1, atScan |-> value]

\* Mutant: the line is written before, and not with, its unique event.
ScanStoreTwice(p) ==
    /\ phone[p].pc = "scanning"
    /\ line' = Scanned(phone[p].value)
    /\ events' = events \union {phone[p].event}
    /\ phone' = [phone EXCEPT ![p] = IdlePhone]
    /\ UNCHANGED <<intakeVars, count, edited, approval, balance, start, moves, moved>>

\* ... and the transaction that stores it: the clientEventId is unique.
ScanStore(p) ==
    /\ phone[p].pc = "scanning"
    /\ phone[p].event \notin events
    /\ line' = Scanned(phone[p].value)
    /\ events' = events \union {phone[p].event}
    /\ phone' = [phone EXCEPT ![p] = IdlePhone]
    /\ UNCHANGED <<intakeVars, count, edited, approval, balance, start, moves, moved>>

\* Mutant: a step back from zero.
CorrectReadBelowZero(p) ==
    /\ phone[p].pc = "idle"
    /\ count = "OPEN"
    /\ line # Null
    /\ \E value \in {line.counted - 1, Figure}:
           phone' = [phone EXCEPT ![p] = [pc |-> "correcting", event |-> Null, value |-> value]]
    /\ UNCHANGED <<intakeVars, count, line, events, edited, approval,
                   balance, start, moves, moved>>

\* correctStockCountLine of a step back or of a figure typed in ...
CorrectRead(p) ==
    /\ phone[p].pc = "idle"
    /\ count = "OPEN"
    /\ line # Null
    /\ \E value \in {AtLeastZero(line.counted - 1), Figure}:
           phone' = [phone EXCEPT ![p] = [pc |-> "correcting", event |-> Null, value |-> value]]
    /\ UNCHANGED <<intakeVars, count, line, events, edited, approval,
                   balance, start, moves, moved>>

\* ... and its transaction.
CorrectStore(p) ==
    /\ phone[p].pc = "correcting"
    /\ line' = [line EXCEPT !.counted = phone[p].value]
    /\ edited' = TRUE
    /\ phone' = [phone EXCEPT ![p] = IdlePhone]
    /\ UNCHANGED <<intakeVars, count, events, approval, balance, start, moves, moved>>

\* The request is lost, or its event was stored meanwhile.
PhoneStop(p) ==
    /\ phone[p].pc # "idle"
    /\ phone' = [phone EXCEPT ![p] = IdlePhone]
    /\ UNCHANGED <<intakeVars, count, line, events, edited, approval,
                   balance, start, moves, moved>>

-----------------------------------------------------------------------------
(* The count is sent and reviewed.                                         *)

\* submitStockCount, rejectStockCount and reopenStockCount
SetStatus(from, to) ==
    /\ count = from
    /\ count' = to
    /\ UNCHANGED <<intakeVars, line, events, edited, phone, approval,
                   balance, start, moves, moved>>

Submit == SetStatus("OPEN", "SUBMITTED")
Reject == SetStatus("SUBMITTED", "REJECTED")

\* Mutant: the count is sent back whatever became of it.
ReopenAny == \E from \in CountStatuses: SetStatus(from, "OPEN")

Reopen == SetStatus("SUBMITTED", "OPEN")

\* approveStockCount claims the count and reads its line ...
ApproveClaim ==
    /\ count = "SUBMITTED"
    /\ count' = "APPROVED"
    /\ approval' = IF line = Null THEN [NoApproval EXCEPT !.pc = "ended"]
                   ELSE [pc |-> "claimed", counted |-> line.counted,
                         atScan |-> line.atScan, quantity |-> 0]
    /\ UNCHANGED <<intakeVars, line, events, edited, phone, balance, start, moves, moved>>

\* Mutant: the entry takes the figure that was counted.
ApproveReadCounted ==
    /\ approval.pc = "claimed"
    /\ approval' = IF Difference = 0 THEN [approval EXCEPT !.pc = "ended"]
                   ELSE [approval EXCEPT !.pc = "read", !.quantity = approval.counted]
    /\ moved' = [moved EXCEPT !.read = moved.all]
    /\ UNCHANGED <<intakeVars, count, line, events, edited, phone, balance, start, moves>>

\* ... reads the stock ...
ApproveRead ==
    /\ approval.pc = "claimed"
    /\ approval' = IF Difference = 0 THEN [approval EXCEPT !.pc = "ended"]
                   ELSE [approval EXCEPT !.pc = "read",
                         !.quantity = AtLeastZero(OnHand(balance) + Difference)]
    /\ moved' = [moved EXCEPT !.read = moved.all]
    /\ UNCHANGED <<intakeVars, count, line, events, edited, phone, balance, start, moves>>

\* ... and creates the entry, whose first call is this one.
ApproveCreate(c) ==
    /\ approval.pc = "read"
    /\ Create(c)
    /\ approval' = [approval EXCEPT !.pc = "ended"]
    /\ UNCHANGED <<count, line, events, edited, phone, balance, start, moves, moved>>

\* The server stops, or a failed entry of the same products stands in the way
\* (PossibleDuplicateIntakeError).
ApproveStop ==
    /\ approval.pc \in {"claimed", "read"}
    /\ approval' = [approval EXCEPT !.pc = "ended"]
    /\ UNCHANGED <<intakeVars, count, line, events, edited, phone,
                   balance, start, moves, moved>>

-----------------------------------------------------------------------------
(* The stock.                                                              *)

\* The batch of the entry: the product is set to the quantity of its line.
ApplyCount(c) ==
    /\ ApplyBatch(c)
    /\ balance' \in SetToPhysical(balance, approval.quantity)
    /\ moved' = [moved EXCEPT !.applied = moved.all]
    /\ UNCHANGED <<count, line, events, edited, phone, approval, start, moves>>

\* Sales, purchases and the opening of a package, meanwhile.
Move(delta) ==
    /\ moves < MaxMoves
    /\ Fits(balance, 0, delta)
    /\ balance' = Changed(balance, 0, delta)
    /\ moves' = moves + 1
    /\ moved' = [moved EXCEPT !.all = @ + delta]
    /\ UNCHANGED <<intakeVars, count, line, events, edited, phone, approval, start>>

OpenPackage ==
    /\ balance.closed > 0
    /\ balance' = Opened(balance, 1)
    /\ UNCHANGED <<intakeVars, count, line, events, edited, phone,
                   approval, start, moves, moved>>

-----------------------------------------------------------------------------
(* The specification.                                                      *)

EntryStep ==
    /\ \/ \E c \in Calls: \/ Continue(c) \/ Retry(c)
                          \/ ReadOverride(c) \/ ReadProgress(c) \/ Reread(c)
                          \/ OutOfTime(c) \/ Finish(c) \/ Fail(c) \/ Crash(c)
       \/ EditOpen \/ EditCommit \/ Discard
    /\ UNCHANGED countVars

StockCountNext ==
    \/ \E p \in Phones:
           \/ \E e \in Events: ScanRead(p, e)
           \/ ScanStore(p) \/ CorrectRead(p) \/ CorrectStore(p) \/ PhoneStop(p)
    \/ Submit \/ Reject \/ Reopen
    \/ ApproveClaim \/ ApproveRead \/ ApproveStop
    \/ \E c \in Calls: ApproveCreate(c) \/ ApplyCount(c)
    \/ EntryStep
    \/ \E delta \in {-1, 1}: Move(delta)
    \/ OpenPackage

StockCountSpec == StockCountInit /\ [][StockCountNext]_allVars

-----------------------------------------------------------------------------
(* Safety.                                                                 *)

(* A scan that a phone sends again, or that two requests carry at once, is *)
(* counted once: without corrections the count is the number of its scans. *)
ScansCountedOnce ==
    ~edited => Cardinality(events) = IF line = Null THEN 0 ELSE line.counted

(* Only a count that was approved becomes an entry, and only if it found a *)
(* difference: one sent back or rejected never touches the stock.          *)
OnlyApprovedApplied ==
    status # "NONE" =>
        /\ count = "APPROVED"
        /\ approval.pc = "ended"
        /\ Difference # 0

(* What moved between the last scan and the approval's reading, and after  *)
(* the entry was applied, is kept: the stock is what it was, with what the *)
(* reviewed count found different and all but the movements in between.    *)
\* (Of a product without packages: see ExactlyCounted.)
MovementsKept ==
    applied[1] > 0 /\ start.closed = 0 =>
        OnHand(balance) =
            AtLeastZero(start.loose + moved.read + Difference) + moved.all - moved.applied

-----------------------------------------------------------------------------
(* What the repository says and the code does not keep (see the README).   *)

(* "Si no hubo ningún movimiento posterior, esto es exactamente 'contado'" *)
(* (approveStockCount): with no movement at all, what was counted is what  *)
(* is there once the entry is applied.                                     *)
ExactlyCounted == applied[1] > 0 /\ moves = 0 => OnHand(balance) = approval.counted

(* "si sí hubo (ventas/entradas entre el escaneo y la aprobación), el      *)
(* conteo no las borra": no movement is lost to the count.                 *)
CountErasesNothing ==
    applied[1] > 0 /\ OnHand(start) + moved.all + Difference >= 0 =>
        OnHand(balance) = OnHand(start) + moved.all + Difference
=============================================================================
