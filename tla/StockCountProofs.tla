-------------------------- MODULE StockCountProofs ---------------------------
(***************************************************************************)
(* Proofs about Intake and about StockCount, which ends in an entry: for   *)
(* every number of lines, size of a batch and number of calls; for all     *)
(* phones, events, starting balances and bounds.                           *)
(*                                                                         *)
(* AppliedInOrder is not inductive alone: a call writes the lines it read  *)
(* to be next, so what it read must be of the document (Unedited).  Nor is *)
(* DiscardedIsEmpty: the discard looks at the count of lines only, and a   *)
(* branch that counts none must have moved none (NothingCounted).  That    *)
(* the count is the sum of the movements needs that the batch of a call,   *)
(* edited or not, lies within the document (InDocument).                   *)
(*                                                                         *)
(* MovementsKept speaks of a count that was applied; what makes it hold is *)
(* what is true before (StockUntouched: until the entry is applied the     *)
(* stock is the start and what moved; Decided: the quantity the approval   *)
(* sends is the stock it read and the difference) and that a batch of the  *)
(* entry is its line (CallsSound), so that no application goes uncounted.  *)
(***************************************************************************)
EXTENDS StockCount, Sums

-----------------------------------------------------------------------------
(* The entry.                                                              *)

Unedited ==
    revision = 0 =>
        /\ override = Null
        /\ processed <= NLines
        /\ applied = [i \in Lines |-> IF i <= processed THEN 1 ELSE 0]
        /\ status = "DONE" => processed = NLines
        /\ \A c \in Calls:
               /\ ~call[c].edited
               /\ call[c].from = 0
               /\ call[c].base = 0
               /\ call[c].done <= processed

NothingCounted ==
    /\ processed = 0 => \A i \in Lines: applied[i] = 0
    /\ status = "DISCARDED" => processed = 0

Inv == IntakeTypeOK /\ Unedited /\ NothingCounted

-----------------------------------------------------------------------------

\* The initial state satisfies the invariant.
LEMMA InitInv == IntakeInit => Inv
BY IntakeAssumption
DEF IntakeInit, Inv, IntakeTypeOK, Unedited, NothingCounted, IntakeStatuses, CallRows,
    NoCall, Lines

\* A batch that is written holds one line at least.
LEMMA BatchNotEmpty ==
    ASSUME IntakeTypeOK, NEW c \in Calls, Running(c)
    PROVE  BatchSize(c) \in Nat \ {0}
BY IntakeAssumption DEF IntakeTypeOK, CallRows, Running, Total, BatchSize

\* A step of one call that leaves the branch alone.
LEMMA CallStep ==
    ASSUME Inv, NEW c \in Calls, NEW row \in CallRows,
           call' = [call EXCEPT ![c] = row],
           revision = 0 =>
               ~row.edited /\ row.from = 0 /\ row.base = 0 /\ row.done <= processed,
           UNCHANGED <<status, processed, override, revision, applied, form>>
    PROVE  Inv'
<1>1. \A d \in Calls: call'[d] = IF d = c THEN row ELSE call[d]
  BY DEF Inv, IntakeTypeOK
<1>. QED  BY <1>1 DEF Inv, IntakeTypeOK, Unedited, NothingCounted

\* The calls begin and read.
LEMMA ReadStep ==
    ASSUME Inv, NEW c \in Calls,
           Create(c) \/ Continue(c) \/ Retry(c) \/ ReadOverride(c) \/ ReadProgress(c)
    PROVE  Inv'
<1>1. CASE Create(c)
  BY <1>1, IntakeAssumption
  DEF Inv, IntakeTypeOK, Unedited, NothingCounted, IntakeStatuses, CallRows, Create
<1>2. CASE Continue(c)
  BY <1>2, IntakeAssumption
  DEF Inv, IntakeTypeOK, Unedited, NothingCounted, IntakeStatuses, CallRows, Continue
<1>3. CASE Retry(c)
  BY <1>3, IntakeAssumption
  DEF Inv, IntakeTypeOK, Unedited, NothingCounted, IntakeStatuses, CallRows, Retry
<1>4. CASE ReadOverride(c)
  <2>. DEFINE from == IF override = Null THEN 0 ELSE override
               row == [call[c] EXCEPT !.pc = "started", !.edited = override # Null,
                                      !.from = from]
  <2>1. call[c] \in CallRows
    BY DEF Inv, IntakeTypeOK
  <2>2. call' = [call EXCEPT ![c] = row]
    BY <1>4 DEF ReadOverride
  <2>3. from \in Nat
    BY IntakeAssumption DEF Inv, IntakeTypeOK
  <2>4. row \in CallRows
    BY <2>1, <2>3 DEF CallRows
  <2>5. revision = 0 => ~row.edited /\ row.from = 0 /\ row.base = 0 /\ row.done <= processed
    BY <2>1 DEF Inv, Unedited, CallRows
  <2>. HIDE DEF row
  <2>. QED  BY <1>4, <2>2, <2>4, <2>5, CallStep DEF ReadOverride
<1>5. CASE ReadProgress(c)
  <2>. DEFINE base == IF call[c].edited THEN processed ELSE 0
               row == [call[c] EXCEPT !.pc = "running", !.base = base, !.done = processed]
  <2>1. call[c] \in CallRows
    BY DEF Inv, IntakeTypeOK
  <2>2. call' = [call EXCEPT ![c] = row]
    BY <1>5 DEF ReadProgress
  <2>3. processed \in Nat /\ base \in Nat
    BY DEF Inv, IntakeTypeOK
  <2>4. row \in CallRows
    BY <2>1, <2>3 DEF CallRows
  <2>5. revision = 0 => ~row.edited /\ row.from = 0 /\ row.base = 0 /\ row.done <= processed
    BY <2>1, <2>3 DEF Inv, Unedited, CallRows
  <2>. HIDE DEF row
  <2>. QED  BY <1>5, <2>2, <2>4, <2>5, CallStep DEF ReadProgress
<1>. QED  BY <1>1, <1>2, <1>3, <1>4, <1>5

\* A batch is applied.
LEMMA BatchStep ==
    ASSUME Inv, NEW c \in Calls, ApplyBatch(c)
    PROVE  Inv'
<1>. DEFINE n == BatchSize(c)
<1>1. n \in Nat \ {0}
  BY BatchNotEmpty DEF Inv, ApplyBatch
<1>2. /\ processed = call[c].done
      /\ processed' = processed + n
      /\ status' = "IN_PROGRESS"
      /\ applied' = [i \in Lines |-> IF i \in BatchLines(c) THEN applied[i] + 1 ELSE applied[i]]
      /\ call' = [call EXCEPT ![c].done = @ + n]
      /\ UNCHANGED <<override, revision, form>>
  BY DEF ApplyBatch
<1>3. IntakeTypeOK'
  <2>. HIDE DEF n
  <2>. QED  BY <1>1, <1>2 DEF Inv, IntakeTypeOK, IntakeStatuses, CallRows
<1>4. Unedited'
  <2>1. SUFFICES ASSUME revision = 0 PROVE Unedited'
    BY <1>2 DEF Unedited
  <2>2. /\ call[c].from = 0 /\ call[c].base = 0
        /\ call[c].done \in Nat
        /\ processed \in Nat
        /\ Total(c) = NLines
    BY <2>1, IntakeAssumption DEF Inv, IntakeTypeOK, CallRows, Unedited, Total
  <2>3. n <= NLines - processed
    BY <1>2, <2>2, IntakeAssumption DEF BatchSize
  <2>4. BatchLines(c) = {i \in Lines: processed < i /\ i <= processed + n}
    <3>. HIDE DEF n
    <3>1. BatchLines(c) = {i \in Lines: \E k \in 1..n: i = processed + k}
      BY <1>2, <2>2 DEF BatchLines, LineAt, n
    <3>2. ASSUME NEW i \in Lines
          PROVE  (\E k \in 1..n: i = processed + k) <=> (processed < i /\ i <= processed + n)
      <4>1. i \in Int
        BY DEF Lines
      <4>2. ASSUME processed < i, i <= processed + n
            PROVE  \E k \in 1..n: i = processed + k
        <5>1. i - processed \in 1..n /\ i = processed + (i - processed)
          BY <4>1, <4>2, <1>1, <2>2
        <5>. QED  BY <5>1
      <4>. QED  BY <4>1, <4>2, <1>1, <2>2
    <3>. QED  BY <3>1, <3>2
  <2>5. applied' = [i \in Lines |-> IF i <= processed' THEN 1 ELSE 0]
    <3>. HIDE DEF n
    <3>. QED  BY <1>1, <1>2, <2>1, <2>2, <2>4, IntakeAssumption DEF Inv, Unedited, Lines
  <2>6. \A d \in Calls: /\ ~call'[d].edited
                        /\ call'[d].from = 0
                        /\ call'[d].base = 0
                        /\ call'[d].done <= processed'
    <3>. HIDE DEF n
    <3>. QED  BY <1>1, <1>2, <2>1, <2>2 DEF Inv, IntakeTypeOK, CallRows, Unedited
  <2>7. processed' <= NLines
    <3>. HIDE DEF n
    <3>. QED  BY <1>1, <1>2, <2>2, <2>3, IntakeAssumption
  <2>. QED  BY <1>2, <2>1, <2>5, <2>6, <2>7 DEF Inv, Unedited
<1>5. NothingCounted'
  <2>. HIDE DEF n
  <2>. QED  BY <1>1, <1>2 DEF Inv, IntakeTypeOK, NothingCounted
<1>. QED  BY <1>3, <1>4, <1>5 DEF Inv

\* A call reads the progress again or comes to an end.
LEMMA EndStep ==
    ASSUME Inv, NEW c \in Calls,
           Reread(c) \/ OutOfTime(c) \/ Finish(c) \/ Fail(c) \/ Crash(c)
    PROVE  Inv'
<1>1. CASE Reread(c)
  BY <1>1, IntakeAssumption
  DEF Inv, IntakeTypeOK, Unedited, NothingCounted, IntakeStatuses, CallRows, Reread
<1>2. CASE OutOfTime(c)
  BY <1>2, IntakeAssumption
  DEF Inv, IntakeTypeOK, Unedited, NothingCounted, IntakeStatuses, CallRows, OutOfTime,
      Stops, NoCall
<1>3. CASE Finish(c)
  <2>1. revision = 0 => processed = NLines
    BY <1>3, IntakeAssumption DEF Inv, IntakeTypeOK, Unedited, CallRows, Finish, Total
  <2>. QED  BY <1>3, <2>1, IntakeAssumption
       DEF Inv, IntakeTypeOK, Unedited, NothingCounted, IntakeStatuses, CallRows, Finish,
           Stops, NoCall
<1>4. CASE Fail(c)
  BY <1>4, IntakeAssumption
  DEF Inv, IntakeTypeOK, Unedited, NothingCounted, IntakeStatuses, CallRows, Fail, Stops,
      NoCall
<1>5. CASE Crash(c)
  BY <1>5, IntakeAssumption
  DEF Inv, IntakeTypeOK, Unedited, NothingCounted, IntakeStatuses, CallRows, Crash, Stops,
      NoCall
<1>. QED  BY <1>1, <1>2, <1>3, <1>4, <1>5

\* The failed branch is edited or discarded.
LEMMA EditStep ==
    ASSUME Inv, EditOpen \/ EditCommit \/ Discard
    PROVE  Inv'
<1>1. CASE EditOpen
  <2>1. form'.from \in 0..(NLines - 1) /\ form' = [from |-> form'.from, revision |-> revision]
    BY <1>1, IntakeAssumption DEF Inv, IntakeTypeOK, EditOpen
  <2>. QED  BY <1>1, <2>1 DEF Inv, IntakeTypeOK, Unedited, NothingCounted, EditOpen
<1>2. CASE EditCommit
  BY <1>2, IntakeAssumption
  DEF Inv, IntakeTypeOK, Unedited, NothingCounted, EditCommit
<1>3. CASE Discard
  BY <1>3, IntakeAssumption
  DEF Inv, IntakeTypeOK, Unedited, NothingCounted, IntakeStatuses, Discard
<1>. QED  BY <1>1, <1>2, <1>3

\* Every step keeps the invariant.
LEMMA NextInv == Inv /\ [IntakeNext]_intakeVars => Inv'
<1>1. SUFFICES ASSUME Inv, [IntakeNext]_intakeVars PROVE Inv'
  OBVIOUS
<1>2. CASE UNCHANGED intakeVars
  BY <1>1, <1>2 DEF Inv, IntakeTypeOK, Unedited, NothingCounted, intakeVars
<1>3. ASSUME NEW c \in Calls, CallSteps(c) PROVE Inv'
  BY <1>1, <1>3, ReadStep, BatchStep, EndStep DEF CallSteps, Work
<1>. QED  BY <1>1, <1>2, <1>3, EditStep DEF IntakeNext

\* The invariant holds in every reachable state.
LEMMA Invariance == IntakeSpec => []Inv
BY InitInv, NextInv, PTL DEF IntakeSpec

-----------------------------------------------------------------------------

(* The rows of an entry and of its calls keep their types.                 *)
THEOREM IntakeTypeCorrect == IntakeSpec => []IntakeTypeOK
<1>1. Inv => IntakeTypeOK
  BY DEF Inv
<1>. QED  BY <1>1, Invariance, PTL

(* Overlapping, failed, late and killed calls apply the lines of a document *)
(* nobody has edited in order and once, and all of them before DONE.       *)
THEOREM LinesAppliedInOrder == IntakeSpec => []AppliedInOrder
<1>1. Inv => AppliedInOrder
  BY DEF Inv, Unedited, AppliedInOrder
<1>. QED  BY <1>1, Invariance, PTL

(* A discarded branch has moved no stock.                                  *)
THEOREM DiscardMovesNothing == IntakeSpec => []DiscardedIsEmpty
<1>1. Inv => DiscardedIsEmpty
  BY DEF Inv, NothingCounted, DiscardedIsEmpty
<1>. QED  BY <1>1, Invariance, PTL

-----------------------------------------------------------------------------
(* The count of the lines.                                                 *)

\* Where the list of a call starts, in the document and in the count.
InDocument ==
    \A c \in Calls:
        /\ call[c].from < NLines
        /\ call[c].pc = "running" => call[c].base <= call[c].done /\ call[c].base <= processed

Counted == InDocument /\ ProgressCountsMovements

LEMMA InitCounted == IntakeInit => Counted
<1>. SUFFICES ASSUME IntakeInit PROVE Counted
  OBVIOUS
<1>1. InDocument
  BY IntakeAssumption DEF IntakeInit, InDocument, NoCall
<1>2. IsFiniteSet(Lines)
  BY IntakeAssumption, FS_Interval DEF Lines
<1>3. SumFunction(applied) = 0
  <2>1. applied \in [Lines -> Int] /\ \A i \in Lines: applied[i] = 0
    BY DEF IntakeInit
  <2>. QED  BY <1>2, <2>1, SumOfZeros
<1>. QED  BY <1>1, <1>3 DEF Counted, ProgressCountsMovements, IntakeInit

\* The lines of a batch are as many as it claims.
LEMMA BatchIsCounted ==
    ASSUME IntakeTypeOK, InDocument, NEW c \in Calls, Running(c)
    PROVE  /\ BatchLines(c) \subseteq Lines
           /\ Cardinality(BatchLines(c)) = BatchSize(c)
<1>. DEFINE n == BatchSize(c)
            first == call[c].from + call[c].done - call[c].base
<1>1. /\ n \in Nat \ {0}
      /\ {call[c].from, call[c].done, call[c].base} \subseteq Nat
      /\ call[c].base <= call[c].done /\ call[c].from < NLines
  BY BatchNotEmpty DEF IntakeTypeOK, CallRows, InDocument, Running
<1>2. n <= call[c].base + NLines - call[c].from - call[c].done
  BY <1>1, IntakeAssumption DEF BatchSize, Total
<1>3. first \in Nat /\ first + n <= NLines
  BY <1>1, <1>2, IntakeAssumption
<1>4. BatchLines(c) = (first + 1)..(first + n)
  <2>1. BatchLines(c) = {i \in Lines: \E k \in 1..n: i = first + k}
    <3>. HIDE DEF n
    <3>1. \A k \in 1..n: LineAt(c, call[c].done + k) = first + k
      BY <1>1 DEF LineAt
    <3>. QED  BY <3>1 DEF BatchLines, n
  <2>. HIDE DEF n, first
  <2>2. ASSUME NEW i \in (first + 1)..(first + n)
        PROVE  i \in Lines /\ \E k \in 1..n: i = first + k
    <3>1. i \in Lines
      BY <1>1, <1>3, IntakeAssumption DEF Lines
    <3>2. i - first \in 1..n /\ i = first + (i - first)
      BY <1>1, <1>3
    <3>. QED  BY <3>1, <3>2
  <2>3. ASSUME NEW k \in 1..n PROVE first + k \in (first + 1)..(first + n)
    BY <1>1, <1>3
  <2>. QED  BY <2>1, <2>2, <2>3
<1>. HIDE DEF n, first
<1>5. Cardinality((first + 1)..(first + n)) = n
  <2>1. first + 1 \in Int /\ first + n \in Int /\ ~(first + 1 > first + n)
    BY <1>1, <1>3
  <2>2. Cardinality((first + 1)..(first + n)) = (first + n) - (first + 1) + 1
    BY <2>1, FS_Interval
  <2>. QED  BY <1>1, <1>3, <2>2
<1>6. BatchLines(c) \subseteq Lines
  BY DEF BatchLines
<1>. QED  BY <1>4, <1>5, <1>6 DEF n

LEMMA NextCounted ==
    ASSUME IntakeTypeOK, Counted, [IntakeNext]_intakeVars
    PROVE  Counted'
<1>1. CASE UNCHANGED intakeVars
  BY <1>1 DEF intakeVars, Counted, InDocument, ProgressCountsMovements
<1>2. ASSUME EditOpen \/ EditCommit \/ Discard PROVE Counted'
  BY <1>2 DEF EditOpen, EditCommit, Discard, Counted, InDocument, ProgressCountsMovements
<1>3. ASSUME NEW c \in Calls, CallSteps(c), ~ApplyBatch(c) PROVE Counted'
  <2>1. UNCHANGED <<processed, applied>>
    BY <1>3 DEF CallSteps, Work, Create, Continue, Retry, ReadOverride, ReadProgress, Reread,
                OutOfTime, Finish, Fail, Crash
  <2>2. \A d \in Calls: d # c => call'[d] = call[d]
    BY <1>3 DEF CallSteps, Work, Create, Continue, Retry, ReadOverride, ReadProgress, Reread,
                OutOfTime, Finish, Fail, Crash, Stops, IntakeTypeOK
  <2>3. /\ call'[c].from < NLines
        /\ call'[c].pc = "running" =>
               call'[c].base <= call'[c].done /\ call'[c].base <= processed
    <3>. USE IntakeAssumption DEF IntakeTypeOK, Counted, InDocument, CallRows
    <3>1. CASE Create(c) \/ Continue(c) \/ Retry(c)
      BY <3>1 DEF Create, Continue, Retry
    <3>2. CASE ReadOverride(c)
      BY <3>2 DEF ReadOverride
    <3>3. CASE ReadProgress(c)
      BY <3>3 DEF ReadProgress
    <3>4. CASE Reread(c)
      BY <3>4 DEF Reread, Running
    <3>5. CASE OutOfTime(c) \/ Finish(c) \/ Fail(c) \/ Crash(c)
      BY <3>5 DEF OutOfTime, Finish, Fail, Crash, Stops, NoCall
    <3>. QED  BY <1>3, <3>1, <3>2, <3>3, <3>4, <3>5 DEF CallSteps, Work
  <2>4. InDocument'
    BY <2>1, <2>2, <2>3 DEF Counted, InDocument
  <2>. QED  BY <2>1, <2>4 DEF Counted, ProgressCountsMovements
<1>4. ASSUME NEW c \in Calls, ApplyBatch(c) PROVE Counted'
  <2>1. /\ Running(c) /\ BatchSize(c) \in Nat
        /\ BatchLines(c) \subseteq Lines
        /\ Cardinality(BatchLines(c)) = BatchSize(c)
    BY <1>4, BatchNotEmpty, BatchIsCounted DEF ApplyBatch, Counted
  <2>2. /\ processed' = processed + BatchSize(c)
        /\ applied' = [i \in Lines |-> IF i \in BatchLines(c) THEN applied[i] + 1 ELSE applied[i]]
        /\ call' = [call EXCEPT ![c].done = @ + BatchSize(c)]
    BY <1>4 DEF ApplyBatch
  <2>3. SumFunction(applied') = SumFunction(applied) + Cardinality(BatchLines(c))
    <3>1. IsFiniteSet(Lines) /\ applied \in [Lines -> Int]
      BY IntakeAssumption, FS_Interval DEF Lines, IntakeTypeOK
    <3>. QED  BY <2>1, <2>2, <3>1, SumCounts
  <2>4. ProgressCountsMovements'
    BY <2>1, <2>2, <2>3 DEF Counted, ProgressCountsMovements
  <2>5. InDocument'
    BY <2>1, <2>2 DEF Counted, InDocument, IntakeTypeOK, CallRows
  <2>. QED  BY <2>4, <2>5 DEF Counted
<1>. QED  BY <1>1, <1>2, <1>3, <1>4 DEF IntakeNext

(* The progress of a branch is the number of the movements made for it:    *)
(* calls that overlap, fail or are killed, and editions of the lines left, *)
(* leave no batch half counted.                                            *)
THEOREM ProgressIsCounted == IntakeSpec => []ProgressCountsMovements
<1>1. IntakeInit => IntakeTypeOK /\ Counted
  BY InitInv, InitCounted DEF Inv
<1>2. Inv /\ Counted /\ [IntakeNext]_intakeVars => Counted'
  BY NextCounted DEF Inv
<1>3. Counted => ProgressCountsMovements
  BY DEF Counted
<1>. QED  BY <1>1, <1>2, <1>3, Invariance, PTL DEF IntakeSpec

-----------------------------------------------------------------------------
(* The count.                                                              *)

CallsSound ==
    /\ 0 <= processed
    /\ \A c \in Calls:
           /\ call[c].from = 0
           /\ call[c].pc = "running" =>
               call[c].base <= call[c].done /\ call[c].done <= processed

ScansSound ==
    /\ IsFiniteSet(events)
    /\ ScansCountedOnce
    /\ \A p \in Phones:
           /\ phone[p].pc = "scanning" => phone[p].event \in Events
           /\ phone[p].pc = "correcting" => line # Null

ReviewSound ==
    /\ approval.pc # "idle" => count = "APPROVED"
    /\ count = "APPROVED" => approval.pc # "idle"
    /\ approval.pc = "read" => Difference # 0
    /\ approval.pc \in {"idle", "claimed", "read"} => status = "NONE"
    /\ status = "NONE" => applied[1] = 0 /\ \A c \in Calls: call[c].pc = "idle"
    /\ OnlyApprovedApplied

StockUntouched ==
    start.closed = 0 =>
        /\ balance.closed = 0
        /\ applied[1] = 0 => balance.loose = start.loose + moved.all

Decided ==
    start.closed = 0 /\ (approval.pc = "read" \/ status # "NONE") =>
        approval.quantity = AtLeastZero(start.loose + moved.read + Difference)

CInv ==
    /\ Inv
    /\ StockCountTypeOK
    /\ CallsSound
    /\ ScansSound
    /\ ReviewSound
    /\ StockUntouched
    /\ Decided
    /\ MovementsKept

-----------------------------------------------------------------------------
(* What a stock is made of.                                                *)

LEMMA OnHandType ==
    ASSUME NEW b \in Balances
    PROVE  OnHand(b) \in Nat /\ (b.closed = 0 => OnHand(b) = b.loose)
<1>1. b.closed \in Nat /\ b.loose \in Nat /\ Factor \in Nat
  BY StockAssumption DEF Balances
<1>2. b.closed * Factor \in Nat
  BY <1>1
<1>3. b.closed = 0 => b.closed * Factor = 0
  BY <1>1
<1>. QED  BY <1>1, <1>2, <1>3 DEF OnHand

\* A product without packages that is set to q is q.
LEMMA PhysicalStock ==
    ASSUME NEW b \in Balances, NEW q \in Nat, NEW c \in SetToPhysical(b, q)
    PROVE  /\ c \in Balances
           /\ c.closed = b.closed
           /\ b.closed = 0 => c.loose = q
<1>1. CASE c = [b EXCEPT !.loose = q]
  BY <1>1 DEF Balances
<1>2. CASE c = b /\ OnHand(b) = q
  BY <1>2, OnHandType
<1>. QED  BY <1>1, <1>2 DEF SetToPhysical

-----------------------------------------------------------------------------
(* A count drives its entry as Intake says.                                *)

LEMMA EntryCallStep == ASSUME EntryStep PROVE IntakeNext
BY DEF EntryStep, IntakeNext, CallSteps, Work

LEMMA StepIsIntakeStep ==
    ASSUME [StockCountNext]_allVars
    PROVE  [IntakeNext]_intakeVars
<1>1. CASE UNCHANGED allVars
  BY <1>1 DEF allVars, intakeVars
<1>2. CASE EntryStep
  BY <1>2, EntryCallStep
<1>3. ASSUME NEW c \in Calls, ApproveCreate(c) \/ ApplyCount(c)
      PROVE  IntakeNext
  BY <1>3 DEF ApproveCreate, ApplyCount, IntakeNext, CallSteps, Work
<1>4. ASSUME NEW p \in Phones,
             \/ \E e \in Events: ScanRead(p, e)
             \/ ScanStore(p) \/ CorrectRead(p) \/ CorrectStore(p) \/ PhoneStop(p)
      PROVE  UNCHANGED intakeVars
  BY <1>4 DEF ScanRead, ScanStore, CorrectRead, CorrectStore, PhoneStop
<1>5. CASE Submit \/ Reject \/ Reopen \/ ApproveClaim \/ ApproveRead \/ ApproveStop
  BY <1>5 DEF Submit, Reject, Reopen, SetStatus, ApproveClaim, ApproveRead, ApproveStop
<1>6. ASSUME NEW delta \in {-1, 1}, Move(delta)
      PROVE  UNCHANGED intakeVars
  BY <1>6 DEF Move
<1>7. CASE OpenPackage
  BY <1>7 DEF OpenPackage
<1>. QED  BY <1>1, <1>2, <1>3, <1>4, <1>5, <1>6, <1>7 DEF StockCountNext

-----------------------------------------------------------------------------
(* The invariant.                                                          *)

LEMMA InitCInv == StockCountInit => CInv
<1>. SUFFICES ASSUME StockCountInit PROVE CInv
  OBVIOUS
<1>1. Inv
  BY InitInv DEF StockCountInit
<1>2. start \in Balances
  BY StockCountAssumption DEF StockCountInit
<1>3. StockCountTypeOK
  <2>1. NoApproval \in ApprovalRows /\ IdlePhone \in PhoneRows
    BY DEF NoApproval, ApprovalRows, IdlePhone, PhoneRows
  <2>2. moved \in [all: Int, read: Int, applied: Int]
    BY DEF StockCountInit
  <2>. QED  BY <1>1, <1>2, <2>1, <2>2 DEF Inv, StockCountInit, StockCountTypeOK, CountStatuses
<1>4. CallsSound
  BY DEF StockCountInit, IntakeInit, CallsSound, NoCall
<1>5. ScansSound
  BY FS_EmptySet DEF StockCountInit, ScansSound, ScansCountedOnce, IdlePhone
<1>6. applied[1] = 0
  BY StockCountAssumption DEF StockCountInit, IntakeInit, Lines
<1>7. ReviewSound
  BY <1>6 DEF StockCountInit, IntakeInit, ReviewSound, OnlyApprovedApplied, NoApproval, NoCall
<1>8. StockUntouched /\ Decided /\ MovementsKept
  BY <1>2, <1>6 DEF StockCountInit, IntakeInit, StockUntouched, Decided, MovementsKept,
     NoApproval, Balances
<1>. QED  BY <1>1, <1>3, <1>4, <1>5, <1>7, <1>8 DEF CInv

\* What a step keeps if it leaves the entry, the approval and the stock alone.
LEMMA EntryKept ==
    ASSUME CInv, UNCHANGED <<intakeVars, approval, balance, start, moves, moved>>
    PROVE  /\ Inv' /\ CallsSound' /\ StockUntouched' /\ Decided' /\ MovementsKept'
           /\ (count = "APPROVED" <=> count' = "APPROVED") => ReviewSound'
<1>1. Inv'
  BY DEF CInv, intakeVars, Inv, IntakeTypeOK, Unedited, NothingCounted
<1>2. CallsSound'
  BY DEF CInv, intakeVars, CallsSound
<1>3. StockUntouched'
  BY DEF CInv, intakeVars, StockUntouched
<1>4. Decided'
  BY DEF CInv, intakeVars, Decided, Difference
<1>5. MovementsKept'
  BY DEF CInv, intakeVars, MovementsKept, Difference, OnHand
<1>6. ASSUME count = "APPROVED" <=> count' = "APPROVED"
      PROVE  ReviewSound'
  BY <1>6 DEF CInv, intakeVars, ReviewSound, OnlyApprovedApplied, Difference
<1>. QED  BY <1>1, <1>2, <1>3, <1>4, <1>5, <1>6

LEMMA PhoneStep ==
    ASSUME CInv, NEW p \in Phones,
           \/ \E e \in Events: ScanRead(p, e)
           \/ ScanStore(p) \/ CorrectRead(p) \/ CorrectStore(p) \/ PhoneStop(p)
    PROVE  CInv'
<1>1. /\ UNCHANGED <<intakeVars, approval, balance, start, moves, moved>>
      /\ count' = count
  BY DEF ScanRead, ScanStore, CorrectRead, CorrectStore, PhoneStop
<1>2. /\ Inv' /\ CallsSound' /\ StockUntouched' /\ Decided' /\ MovementsKept'
      /\ ReviewSound'
  BY <1>1, EntryKept
<1>3. ASSUME StockCountTypeOK', ScansSound'
      PROVE  CInv'
  BY <1>2, <1>3 DEF CInv
<1>4. IntakeTypeOK'
  BY <1>2 DEF Inv
<1>5. ASSUME NEW e \in Events, ScanRead(p, e)
      PROVE  CInv'
  <2>1. OnHand(balance) \in Nat
    BY OnHandType DEF CInv, StockCountTypeOK
  <2>2. StockCountTypeOK'
    BY <1>1, <1>4, <1>5, <2>1 DEF CInv, StockCountTypeOK, ScanRead, PhoneRows
  <2>3. ScansSound'
    BY <1>1, <1>5 DEF CInv, StockCountTypeOK, ScansSound, ScansCountedOnce, ScanRead
  <2>. QED  BY <1>3, <2>2, <2>3
<1>6. CASE ScanStore(p)
  <2>. DEFINE e == phone[p].event
              v == phone[p].value
  <2>1. /\ e \in Events /\ e \notin events /\ v \in Nat
        /\ IsFiniteSet(events)
    BY <1>6 DEF CInv, ScansSound, StockCountTypeOK, PhoneRows, ScanStore
  <2>2. /\ IsFiniteSet(events \union {e})
        /\ Cardinality(events \union {e}) = Cardinality(events) + 1
        /\ Cardinality(events) \in Nat
    BY <2>1, FS_AddElement, FS_CardinalityType
  <2>3. /\ line' \in LineRows
        /\ line # Null => line'.counted = line.counted + 1
        /\ line = Null => line'.counted = 1
    BY <1>6, <2>1 DEF CInv, StockCountTypeOK, ScanStore, Scanned, LineRows
  <2>4. StockCountTypeOK'
    BY <1>1, <1>4, <1>6, <2>1, <2>3 DEF CInv, StockCountTypeOK, ScanStore, PhoneRows, IdlePhone
  <2>5. line' # Null
    BY <2>3, StockCountAssumption
  <2>6. events' = events \union {e} /\ edited' = edited
    BY <1>6 DEF ScanStore
  <2>7. ScansCountedOnce'
    <3>1. line # Null => line.counted \in Nat
      BY DEF CInv, StockCountTypeOK, LineRows
    <3>. QED  BY <2>2, <2>3, <2>5, <2>6, <3>1 DEF CInv, ScansSound, ScansCountedOnce
  <2>8. ScansSound'
    BY <1>6, <2>2, <2>5, <2>6, <2>7 DEF CInv, StockCountTypeOK, ScansSound, ScanStore, IdlePhone
  <2>. QED  BY <1>3, <2>4, <2>8
<1>7. CASE CorrectRead(p)
  <2>1. PICK value \in Nat:
          phone' = [phone EXCEPT ![p] = [pc |-> "correcting", event |-> Null, value |-> value]]
    <3>1. line.counted \in Nat
      BY <1>7 DEF CInv, StockCountTypeOK, CorrectRead, LineRows
    <3>2. {AtLeastZero(line.counted - 1), Figure} \subseteq Nat
      BY <3>1, StockCountAssumption DEF AtLeastZero
    <3>. QED  BY <1>7, <3>2, Zenon DEF CorrectRead
  <2>2. StockCountTypeOK'
    BY <1>1, <1>4, <1>7, <2>1 DEF CInv, StockCountTypeOK, CorrectRead, PhoneRows
  <2>3. ScansSound'
    BY <1>7, <2>1 DEF CInv, StockCountTypeOK, ScansSound, ScansCountedOnce, CorrectRead
  <2>. QED  BY <1>3, <2>2, <2>3
<1>8. CASE CorrectStore(p)
  <2>1. line \in LineRows
    BY <1>8 DEF CInv, StockCountTypeOK, ScansSound, CorrectStore
  <2>2. line' \in LineRows
    BY <1>8, <2>1 DEF CInv, StockCountTypeOK, CorrectStore, LineRows, PhoneRows
  <2>3. StockCountTypeOK'
    BY <1>1, <1>4, <1>8, <2>2 DEF CInv, StockCountTypeOK, CorrectStore, PhoneRows, IdlePhone
  <2>4. line' # Null
    BY <2>2, StockCountAssumption
  <2>5. ScansSound'
    BY <1>8, <2>4
    DEF CInv, StockCountTypeOK, ScansSound, ScansCountedOnce, CorrectStore, IdlePhone
  <2>. QED  BY <1>3, <2>3, <2>5
<1>9. CASE PhoneStop(p)
  <2>1. StockCountTypeOK'
    BY <1>1, <1>4, <1>9 DEF CInv, StockCountTypeOK, PhoneStop, PhoneRows, IdlePhone
  <2>2. ScansSound'
    BY <1>9 DEF CInv, StockCountTypeOK, ScansSound, ScansCountedOnce, PhoneStop, IdlePhone
  <2>. QED  BY <1>3, <2>1, <2>2
<1>. QED  BY <1>5, <1>6, <1>7, <1>8, <1>9

\* The count is sent, rejected or sent back.
LEMMA StatusStep ==
    ASSUME CInv, Submit \/ Reject \/ Reopen
    PROVE  CInv'
<1>1. /\ UNCHANGED <<intakeVars, approval, balance, start, moves, moved>>
      /\ UNCHANGED <<line, events, edited, phone>>
      /\ count' \in CountStatuses
      /\ count # "APPROVED" /\ count' # "APPROVED"
  BY DEF Submit, Reject, Reopen, SetStatus, CountStatuses
<1>2. /\ Inv' /\ CallsSound' /\ StockUntouched' /\ Decided' /\ MovementsKept'
      /\ ReviewSound'
  BY <1>1, EntryKept
<1>3. ScansSound' /\ StockCountTypeOK'
  BY <1>1, <1>2 DEF CInv, Inv, ScansSound, ScansCountedOnce, StockCountTypeOK
<1>. QED  BY <1>2, <1>3 DEF CInv

\* The approval, up to the creation of the entry.
LEMMA ApproveStep ==
    ASSUME CInv, ApproveClaim \/ ApproveRead \/ ApproveStop
    PROVE  CInv'
<1>1. /\ UNCHANGED <<intakeVars, balance, start, moves>>
      /\ UNCHANGED <<line, events, edited, phone>>
  BY DEF ApproveClaim, ApproveRead, ApproveStop
<1>2. status = "NONE" /\ applied[1] = 0 /\ status' = "NONE" /\ applied'[1] = 0
  BY <1>1 DEF CInv, ReviewSound, ApproveClaim, ApproveRead, ApproveStop, intakeVars
<1>3. Inv' /\ CallsSound' /\ ScansSound' /\ IntakeTypeOK'
  BY <1>1 DEF CInv, Inv, IntakeTypeOK, Unedited, NothingCounted, CallsSound, ScansSound,
     ScansCountedOnce, intakeVars
<1>4. /\ OnHand(balance) \in Nat
      /\ start.closed = 0 => OnHand(balance) = start.loose + moved.all
  BY <1>2, OnHandType DEF CInv, StockCountTypeOK, StockUntouched
<1>5. StockUntouched' /\ MovementsKept'
  BY <1>1, <1>2 DEF CInv, StockCountTypeOK, StockUntouched, MovementsKept, ApproveClaim,
     ApproveRead, ApproveStop
<1>6. CASE ApproveClaim
  <2>1. StockCountTypeOK'
    BY <1>1, <1>3, <1>6 DEF CInv, StockCountTypeOK, ApproveClaim, CountStatuses, ApprovalRows,
       NoApproval, LineRows
  <2>2. ReviewSound' /\ Decided'
    BY <1>1, <1>2, <1>6 DEF CInv, ReviewSound, OnlyApprovedApplied, Decided, ApproveClaim,
       NoApproval, intakeVars
  <2>. QED  BY <1>3, <1>5, <2>1, <2>2 DEF CInv
<1>7. CASE ApproveRead
  <2>. DEFINE q == AtLeastZero(OnHand(balance) + Difference)
  <2>1. Difference \in Int /\ q \in Nat
    BY <1>4 DEF CInv, StockCountTypeOK, ApprovalRows, Difference, AtLeastZero
  <2>2. approval' = IF Difference = 0 THEN [approval EXCEPT !.pc = "ended"]
                    ELSE [approval EXCEPT !.pc = "read", !.quantity = q]
    BY <1>7 DEF ApproveRead
  <2>. HIDE DEF q
  <2>3. /\ approval' \in ApprovalRows
        /\ Difference' = Difference
        /\ approval'.pc \in {"read", "ended"}
        /\ approval'.pc = "read" => Difference # 0 /\ approval'.quantity = q
    BY <2>1, <2>2 DEF CInv, StockCountTypeOK, ApprovalRows, Difference
  <2>4. /\ count' = count /\ moved'.read = moved.all
        /\ moved' \in [all: Int, read: Int, applied: Int]
    BY <1>7 DEF CInv, StockCountTypeOK, ApproveRead
  <2>5. StockCountTypeOK'
    BY <1>1, <1>3, <2>3, <2>4 DEF CInv, StockCountTypeOK
  <2>6. ReviewSound'
    BY <1>1, <1>2, <1>7, <2>3, <2>4
    DEF CInv, ReviewSound, OnlyApprovedApplied, ApproveRead, intakeVars
  <2>7. Decided'
    BY <1>1, <1>2, <1>4, <2>3, <2>4 DEF Decided, q
  <2>. QED  BY <1>3, <1>5, <2>5, <2>6, <2>7 DEF CInv
<1>8. CASE ApproveStop
  <2>1. StockCountTypeOK'
    BY <1>1, <1>3, <1>8 DEF CInv, StockCountTypeOK, ApproveStop, ApprovalRows
  <2>2. ReviewSound' /\ Decided'
    BY <1>1, <1>2, <1>8 DEF CInv, StockCountTypeOK, ApprovalRows, ReviewSound,
       OnlyApprovedApplied, Decided, ApproveStop, intakeVars
  <2>. QED  BY <1>3, <1>5, <2>1, <2>2 DEF CInv
<1>. QED  BY <1>6, <1>7, <1>8

\* ... and the creation.
LEMMA CreateStep ==
    ASSUME CInv, NEW c \in Calls, ApproveCreate(c)
    PROVE  CInv'
<1>1. /\ UNCHANGED <<count, line, events, edited, phone, balance, start, moves, moved>>
      /\ UNCHANGED <<processed, applied>>
      /\ approval.pc = "read" /\ approval' = [approval EXCEPT !.pc = "ended"]
      /\ status = "NONE" /\ status' = "PENDING"
      /\ call' = [call EXCEPT ![c].pc = "called"]
  BY DEF ApproveCreate, Create
<1>2. Inv' /\ IntakeTypeOK'
  <2>1. IntakeNext
    BY DEF ApproveCreate, IntakeNext, CallSteps
  <2>. QED  BY <2>1, NextInv DEF CInv, Inv
<1>3. /\ approval' \in ApprovalRows
      /\ approval'.pc = "ended" /\ approval'.quantity = approval.quantity
      /\ Difference' = Difference
  BY <1>1 DEF CInv, StockCountTypeOK, ApprovalRows, Difference
<1>4. StockCountTypeOK'
  BY <1>1, <1>2, <1>3 DEF CInv, StockCountTypeOK
<1>5. CallsSound'
  BY <1>1 DEF CInv, StockCountTypeOK, IntakeTypeOK, CallRows, CallsSound
<1>6. ScansSound'
  BY <1>1 DEF CInv, ScansSound, ScansCountedOnce
<1>7. ReviewSound'
  BY <1>1, <1>3 DEF CInv, ReviewSound, OnlyApprovedApplied
<1>8. StockUntouched' /\ Decided' /\ MovementsKept'
  BY <1>1, <1>3 DEF CInv, StockUntouched, Decided, MovementsKept, OnHand
<1>. QED  BY <1>2, <1>4, <1>5, <1>6, <1>7, <1>8 DEF CInv

\* The entry takes a step that applies nothing.
LEMMA EntryCount ==
    ASSUME CInv, EntryStep
    PROVE  CInv'
<1>1. /\ UNCHANGED <<count, line, events, edited, phone, approval, balance, start, moves>>
      /\ moved' = moved
  BY DEF EntryStep, countVars
<1>2. Inv' /\ IntakeTypeOK'
  BY EntryCallStep, NextInv DEF CInv, Inv
<1>3. /\ UNCHANGED <<processed, applied>>
      /\ status = "NONE" => status' = "NONE" /\ call' = call
      /\ status' = "NONE" => status = "NONE"
  <2>1. ASSUME NEW c \in Calls,
               \/ Continue(c) \/ Retry(c) \/ ReadOverride(c) \/ ReadProgress(c) \/ Reread(c)
               \/ OutOfTime(c) \/ Finish(c) \/ Fail(c) \/ Crash(c)
        PROVE  /\ UNCHANGED <<processed, applied>>
               /\ status # "NONE" /\ status' # "NONE"
    <3>1. call[c].pc # "idle" => status # "NONE"
      BY DEF CInv, ReviewSound
    <3>. QED  BY <2>1, <3>1
         DEF Continue, Retry, ReadOverride, ReadProgress, Reread, Running, OutOfTime, Finish,
             Fail, Crash
  <2>2. CASE EditOpen \/ EditCommit \/ Discard
    BY <2>2 DEF EditOpen, EditCommit, Discard
  <2>. QED  BY <2>1, <2>2 DEF EntryStep
<1>4. CallsSound'
  <2>1. IntakeTypeOK /\ CallsSound
    BY DEF CInv, Inv
  <2>2. override # Null => override = 0
    BY <2>1, StockCountAssumption DEF IntakeTypeOK
  <2>3. ASSUME NEW c \in Calls, Continue(c) \/ Retry(c)
        PROVE  CallsSound'
    BY <2>1, <2>3 DEF IntakeTypeOK, CallRows, CallsSound, Continue, Retry
  <2>4. ASSUME NEW c \in Calls, ReadOverride(c)
        PROVE  CallsSound'
    BY <2>1, <2>2, <2>4 DEF IntakeTypeOK, CallRows, CallsSound, ReadOverride
  <2>5. ASSUME NEW c \in Calls, ReadProgress(c) \/ Reread(c)
        PROVE  CallsSound'
    BY <2>1, <2>5 DEF IntakeTypeOK, CallRows, CallsSound, ReadProgress, Reread, Running
  <2>6. ASSUME NEW c \in Calls, OutOfTime(c) \/ Finish(c) \/ Fail(c) \/ Crash(c)
        PROVE  CallsSound'
    BY <2>1, <2>6
    DEF IntakeTypeOK, CallRows, CallsSound, OutOfTime, Finish, Fail, Crash, Stops, NoCall
  <2>7. CASE EditOpen \/ EditCommit \/ Discard
    BY <2>1, <2>7 DEF CallsSound, EditOpen, EditCommit, Discard
  <2>. QED  BY <2>3, <2>4, <2>5, <2>6, <2>7 DEF EntryStep
<1>5. StockCountTypeOK' /\ ScansSound'
  BY <1>1, <1>2 DEF CInv, StockCountTypeOK, ScansSound, ScansCountedOnce
<1>6. ReviewSound'
  BY <1>1, <1>3 DEF CInv, ReviewSound, OnlyApprovedApplied, Difference
<1>7. StockUntouched' /\ Decided' /\ MovementsKept'
  BY <1>1, <1>3 DEF CInv, StockUntouched, Decided, MovementsKept, Difference, OnHand
<1>. QED  BY <1>2, <1>4, <1>5, <1>6, <1>7 DEF CInv

\* The entry is applied.
LEMMA ApplyStep ==
    ASSUME CInv, NEW c \in Calls, ApplyCount(c)
    PROVE  CInv'
<1>. DEFINE n == BatchSize(c)
<1>1. /\ UNCHANGED <<count, line, events, edited, phone, approval, start, moves>>
      /\ balance' \in SetToPhysical(balance, approval.quantity)
      /\ moved' = [moved EXCEPT !.applied = moved.all]
      /\ Running(c) /\ processed = call[c].done
      /\ processed' = processed + n
      /\ status' = "IN_PROGRESS"
      /\ applied' = [i \in Lines |-> IF i \in BatchLines(c) THEN applied[i] + 1 ELSE applied[i]]
      /\ call' = [call EXCEPT ![c].done = @ + n]
  BY DEF ApplyCount, ApplyBatch
<1>2. Inv' /\ IntakeTypeOK'
  <2>1. IntakeNext
    BY DEF ApplyCount, IntakeNext, CallSteps, Work
  <2>. QED  BY <2>1, NextInv DEF CInv, Inv
<1>3. n \in Nat \ {0}
  BY <1>1, BatchNotEmpty DEF CInv, Inv
<1>4. status # "NONE" /\ approval.pc = "ended" /\ count = "APPROVED" /\ Difference # 0
  BY <1>1 DEF CInv, ReviewSound, OnlyApprovedApplied, Running
<1>5. 1 \in Lines /\ 1 \in BatchLines(c)
  <2>1. /\ call[c].from = 0 /\ call[c].base \in Nat /\ call[c].done \in Nat
        /\ call[c].base <= call[c].done
    BY <1>1 DEF CInv, Inv, IntakeTypeOK, CallRows, CallsSound, Running
  <2>2. call[c].done = call[c].base
    BY <1>1, <2>1, StockCountAssumption DEF Running, Total
  <2>3. 1 = LineAt(c, call[c].done + 1)
    BY <2>1, <2>2 DEF LineAt
  <2>4. 1 \in 1..n
    BY <1>3
  <2>. QED  BY <2>3, <2>4, StockCountAssumption DEF BatchLines, Lines
<1>6. applied'[1] > 0
  BY <1>1, <1>5 DEF CInv, Inv, IntakeTypeOK
<1>7. /\ balance' \in Balances
      /\ balance'.closed = balance.closed
      /\ balance.closed = 0 => balance'.loose = approval.quantity
  BY <1>1, PhysicalStock DEF CInv, StockCountTypeOK, ApprovalRows
<1>8. CallsSound'
  <2>. HIDE DEF n
  <2>. QED  BY <1>1, <1>3 DEF CInv, Inv, IntakeTypeOK, CallRows, CallsSound, Running
<1>9. StockCountTypeOK' /\ ScansSound'
  BY <1>1, <1>2, <1>7 DEF CInv, StockCountTypeOK, ScansSound, ScansCountedOnce
<1>10. ReviewSound'
  BY <1>1, <1>4 DEF CInv, ReviewSound, OnlyApprovedApplied, Difference
<1>11. StockUntouched' /\ Decided'
  BY <1>1, <1>4, <1>6, <1>7
  DEF CInv, StockCountTypeOK, StockUntouched, Decided, Difference
<1>12. MovementsKept'
  <2>1. SUFFICES ASSUME start.closed = 0
                 PROVE  OnHand(balance)' =
                            AtLeastZero(start.loose + moved'.read + Difference')
                            + moved'.all - moved'.applied
    BY <1>1 DEF MovementsKept
  <2>2. OnHand(balance') = approval.quantity
    BY <1>7, <2>1, OnHandType DEF CInv, StockUntouched
  <2>3. moved'.read = moved.read /\ moved'.all = moved.all /\ moved'.applied = moved.all
    BY <1>1 DEF CInv, StockCountTypeOK
  <2>4. approval.quantity = AtLeastZero(start.loose + moved.read + Difference)
    BY <1>4, <2>1 DEF CInv, Decided
  <2>5. Difference' = Difference /\ OnHand(balance)' = OnHand(balance')
    BY <1>1 DEF Difference, OnHand
  <2>6. moved.all \in Int /\ approval.quantity \in Nat
    BY DEF CInv, StockCountTypeOK, ApprovalRows
  <2>. QED  BY <2>2, <2>3, <2>4, <2>5, <2>6
<1>. QED  BY <1>2, <1>8, <1>9, <1>10, <1>11, <1>12 DEF CInv

\* Others move the stock.
LEMMA MoveStep ==
    ASSUME CInv, (\E delta \in {-1, 1}: Move(delta)) \/ OpenPackage
    PROVE  CInv'
<1>1. /\ UNCHANGED <<intakeVars, count, line, events, edited, phone, approval, start>>
  BY DEF Move, OpenPackage
<1>2. /\ Inv' /\ IntakeTypeOK' /\ CallsSound' /\ ScansSound' /\ ReviewSound'
  BY <1>1 DEF CInv, intakeVars, Inv, IntakeTypeOK, Unedited, NothingCounted, CallsSound,
     ScansSound, ScansCountedOnce, ReviewSound, OnlyApprovedApplied, Difference
<1>3. /\ balance.closed \in Nat /\ balance.loose \in Nat /\ balance \in Balances
      /\ start \in Balances
      /\ moved.all \in Int /\ moved.read \in Int /\ moved.applied \in Int
  BY StockCountAssumption DEF CInv, StockCountTypeOK, Balances
<1>4. ASSUME NEW delta \in {-1, 1}, Move(delta)
      PROVE  CInv'
  <2>1. /\ balance' = [closed |-> balance.closed, loose |-> balance.loose + delta]
        /\ balance.loose + delta >= 0
        /\ moved'.all = moved.all + delta
        /\ moved'.read = moved.read /\ moved'.applied = moved.applied
        /\ moved' \in [all: Int, read: Int, applied: Int]
        /\ moves' \in Nat
    BY <1>3, <1>4 DEF Move, Fits, Changed, CInv, StockCountTypeOK
  <2>2. balance' \in Balances
    BY <1>3, <2>1 DEF Balances
  <2>3. StockCountTypeOK'
    BY <1>1, <1>2, <2>1, <2>2 DEF CInv, StockCountTypeOK
  <2>4. StockUntouched' /\ Decided'
    BY <1>1, <1>3, <2>1 DEF CInv, StockUntouched, Decided, Difference, intakeVars, Balances
  <2>5. MovementsKept'
    <3>1. SUFFICES ASSUME applied[1] > 0, start.closed = 0
                   PROVE  OnHand(balance)' =
                              AtLeastZero(start.loose + moved.read + Difference)
                              + (moved.all + delta) - moved.applied
      BY <1>1, <2>1 DEF MovementsKept, intakeVars, Difference
    <3>2. balance.closed = 0 /\ OnHand(balance) = balance.loose
      BY <3>1, <1>3, OnHandType DEF CInv, StockUntouched
    <3>3. OnHand(balance)' = balance.loose + delta
      BY <3>2, <2>1, <2>2, OnHandType DEF OnHand
    <3>4. AtLeastZero(start.loose + moved.read + Difference) \in Int
      BY <1>3 DEF AtLeastZero, Difference, CInv, StockCountTypeOK, ApprovalRows, Balances
    <3>5. OnHand(balance) =
              AtLeastZero(start.loose + moved.read + Difference) + moved.all - moved.applied
      BY <3>1 DEF CInv, MovementsKept
    <3>. QED  BY <1>3, <3>2, <3>3, <3>4, <3>5
  <2>. QED  BY <1>2, <2>3, <2>4, <2>5 DEF CInv
<1>5. CASE OpenPackage
  <2>1. /\ balance' = [closed |-> balance.closed - 1, loose |-> balance.loose + Factor]
        /\ balance.closed > 0
        /\ moved' = moved /\ moves' = moves
    BY <1>3, <1>5, StockAssumption DEF OpenPackage, Opened, Changed
  <2>2. balance' \in Balances
    BY <1>3, <2>1, StockAssumption DEF Balances
  <2>3. StockCountTypeOK'
    BY <1>1, <1>2, <2>1, <2>2 DEF CInv, StockCountTypeOK
  <2>4. start.closed # 0
    BY <1>3, <2>1 DEF CInv, StockUntouched
  <2>5. StockUntouched' /\ Decided' /\ MovementsKept'
    BY <1>1, <2>4 DEF StockUntouched, Decided, MovementsKept
  <2>. QED  BY <1>2, <2>3, <2>5 DEF CInv
<1>. QED  BY <1>4, <1>5

LEMMA NextCInv == CInv /\ [StockCountNext]_allVars => CInv'
<1>1. SUFFICES ASSUME CInv, [StockCountNext]_allVars PROVE CInv'
  OBVIOUS
<1>2. CASE UNCHANGED allVars
  <2>1. UNCHANGED <<intakeVars, approval, balance, start, moves, moved>> /\ count' = count
    BY <1>2 DEF allVars, countVars
  <2>2. Inv' /\ CallsSound' /\ StockUntouched' /\ Decided' /\ MovementsKept' /\ ReviewSound'
    BY <1>1, <2>1, EntryKept
  <2>3. StockCountTypeOK' /\ ScansSound'
    BY <1>1, <1>2, <2>2 DEF CInv, Inv, StockCountTypeOK, ScansSound, ScansCountedOnce, allVars,
       countVars
  <2>. QED  BY <2>2, <2>3 DEF CInv
<1>3. CASE StockCountNext
  BY <1>1, <1>3, PhoneStep, StatusStep, ApproveStep, CreateStep, EntryCount, ApplyStep, MoveStep
  DEF StockCountNext
<1>. QED  BY <1>1, <1>2, <1>3

LEMMA CountInvariance == StockCountSpec => []CInv
BY InitCInv, NextCInv, PTL DEF StockCountSpec

-----------------------------------------------------------------------------

(* The rows of a count and of its entry keep their types: no correction    *)
(* makes a count negative.                                                 *)
THEOREM StockCountTypeCorrect == StockCountSpec => []StockCountTypeOK
<1>1. CInv => StockCountTypeOK
  BY DEF CInv
<1>. QED  BY <1>1, CountInvariance, PTL

(* A scan that is sent again is counted once.                              *)
THEOREM EveryScanCountedOnce == StockCountSpec => []ScansCountedOnce
<1>1. CInv => ScansCountedOnce
  BY DEF CInv, ScansSound
<1>. QED  BY <1>1, CountInvariance, PTL

(* Only an approved count that found a difference becomes an entry.        *)
THEOREM EntryOfApprovedCount == StockCountSpec => []OnlyApprovedApplied
<1>1. CInv => OnlyApprovedApplied
  BY DEF CInv, ReviewSound
<1>. QED  BY <1>1, CountInvariance, PTL

(* An applied count leaves the stock it read with the difference it found, *)
(* and what moved afterwards.                                              *)
THEOREM CountKeepsMovements == StockCountSpec => []MovementsKept
<1>1. CInv => MovementsKept
  BY DEF CInv
<1>. QED  BY <1>1, CountInvariance, PTL

(* The entry of a count is an entry as Intake specifies it: what is proved *)
(* of every entry holds of it.                                             *)
THEOREM CountEntryIsIntake == StockCountSpec => IntakeSpec
<1>1. StockCountInit => IntakeInit
  BY DEF StockCountInit
<1>2. [StockCountNext]_allVars => [IntakeNext]_intakeVars
  BY StepIsIntakeStep
<1>. QED  BY <1>1, <1>2, PTL DEF StockCountSpec, IntakeSpec
=============================================================================
