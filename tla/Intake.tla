------------------------------- MODULE Intake --------------------------------
(***************************************************************************)
(* An inventory entry of several lines (multi-branch-intake-service.ts of  *)
(* hammer-api/src/modules/inventory), in one of its branches: the lines    *)
(* are applied batch by batch, a call works until its time is over, and    *)
(* /continue, /retry and the edition of the lines left take it up again.   *)
(*                                                                         *)
(* The branches of an entry are worked through one after the other and     *)
(* share nothing, so one of them is all of it.  A call runs no transaction *)
(* but the one of each batch: it may stop for good between any two steps.  *)
(* Lines are numbered as in the document, and an edition keeps the lines   *)
(* still to apply (it corrects their costs and prices).                    *)
(***************************************************************************)
EXTENDS Integers, FiniteSets, Functions

CONSTANTS
    NLines,         \* lines of the document
    Batch,          \* BATCH_SIZE
    Calls,          \* calls in progress at a time (a bound)
    MaxRevision,    \* editions before EditCommit stops (a bound)
    MaxProcessed,   \* processed lines at which no new call comes (a bound)
    Null

ASSUME IntakeAssumption ==
    /\ NLines \in Nat \ {0}
    /\ Batch \in Nat \ {0}
    /\ MaxRevision \in Nat
    /\ MaxProcessed \in Nat
    /\ Null \notin Nat

VARIABLES
    status,         \* MultiBranchIntakeBranch.status, "NONE" before it exists
    processed,      \* .processedLines
    override,       \* .linesOverrideJson: the lines after this one, or Null
    revision,       \* .revision
    applied,        \* line -> stock movements made for it
    form,           \* the line the open edit form starts after, with its revision
    call            \* calls in progress

intakeVars == <<status, processed, override, revision, applied, form, call>>

-----------------------------------------------------------------------------
(* Data.                                                                   *)

Lines == 1..NLines

IntakeStatuses == {"NONE", "PENDING", "IN_PROGRESS", "DONE", "FAILED", "DISCARDED"}

\* A call in progress: the line its list starts after, whether that list is an
\* override, where its list starts in the count of processed lines, and how
\* many of them it believes processed.
CallRows ==
    [pc: {"idle", "called", "started", "running"},
     from: Nat, edited: BOOLEAN, base: Nat, done: Nat]

NoCall == [pc |-> "idle", from |-> 0, edited |-> FALSE, base |-> 0, done |-> 0]

IntakeTypeOK ==
    /\ status \in IntakeStatuses
    /\ processed \in Nat
    /\ override \in 0..(NLines - 1) \union {Null}
    /\ revision \in Nat
    /\ applied \in [Lines -> Nat]
    /\ form \in [from: 0..(NLines - 1), revision: Nat] \union {Null}
    /\ call \in [Calls -> CallRows]

IntakeInit ==
    /\ status = "NONE"
    /\ processed = 0
    /\ override = Null
    /\ revision = 0
    /\ applied = [i \in Lines |-> 0]
    /\ form = Null
    /\ call = [c \in Calls |-> NoCall]

\* The count of processed lines at which the list of a call ends.
Total(c) == call[c].base + NLines - call[c].from

Running(c) == call[c].pc = "running" /\ call[c].done < Total(c)

Stops(c) == call' = [call EXCEPT ![c] = NoCall]

-----------------------------------------------------------------------------
(* Calls.                                                                  *)

\* createMultiBranchIntake: the unique clientRequestId lets one creation
\* through; a repeated one answers with the entry that is there.
Create(c) ==
    /\ call[c].pc = "idle"
    /\ status = "NONE"
    /\ status' = "PENDING"
    /\ call' = [call EXCEPT ![c].pc = "called"]
    /\ UNCHANGED <<processed, override, revision, applied, form>>

\* continueMultiBranchIntake
Continue(c) ==
    /\ call[c].pc = "idle"
    /\ status \in {"PENDING", "IN_PROGRESS"}
    /\ processed < MaxProcessed
    /\ call' = [call EXCEPT ![c].pc = "called"]
    /\ UNCHANGED <<status, processed, override, revision, applied, form>>

\* retryMultiBranchIntake claims the failed branch.
Retry(c) ==
    /\ call[c].pc = "idle"
    /\ status = "FAILED"
    /\ processed < MaxProcessed
    /\ status' = "PENDING"
    /\ call' = [call EXCEPT ![c].pc = "called"]
    /\ UNCHANGED <<processed, override, revision, applied, form>>

\* runBranches reads the override ...
ReadOverride(c) ==
    /\ call[c].pc = "called"
    /\ call' = [call EXCEPT ![c].pc = "started",
                            ![c].edited = override # Null,
                            ![c].from = IF override = Null THEN 0 ELSE override]
    /\ UNCHANGED <<status, processed, override, revision, applied, form>>

\* ... and processBranchUntilDeadline how far the branch is: an override is
\* taken to start there.
ReadProgress(c) ==
    /\ call[c].pc = "started"
    /\ call' = [call EXCEPT ![c].pc = "running",
                            ![c].base = IF call[c].edited THEN processed ELSE 0,
                            ![c].done = processed]
    /\ UNCHANGED <<status, processed, override, revision, applied, form>>

BatchSize(c) == IF Batch < Total(c) - call[c].done THEN Batch ELSE Total(c) - call[c].done

\* The line of the document that is the k-th of the list of a call, counted in
\* processed lines.
LineAt(c, k) == call[c].from + k - call[c].base

BatchLines(c) ==
    {i \in Lines: \E k \in 1..BatchSize(c): i = LineAt(c, call[c].done + k)}

\* Mutants: the claim does not set the status; it counts BATCH_SIZE lines.
ApplyBatchKeepingStatus(c) ==
    /\ Running(c)
    /\ processed = call[c].done
    /\ processed' = processed + BatchSize(c)
    /\ applied' = [i \in Lines |-> IF i \in BatchLines(c) THEN applied[i] + 1 ELSE applied[i]]
    /\ call' = [call EXCEPT ![c].done = @ + BatchSize(c)]
    /\ UNCHANGED <<status, override, revision, form>>

ApplyBatchCountingFull(c) ==
    /\ Running(c)
    /\ processed = call[c].done
    /\ processed' = processed + Batch
    /\ status' = "IN_PROGRESS"
    /\ applied' = [i \in Lines |-> IF i \in BatchLines(c) THEN applied[i] + 1 ELSE applied[i]]
    /\ call' = [call EXCEPT ![c].done = @ + BatchSize(c)]
    /\ UNCHANGED <<override, revision, form>>

\* processBatchTx: the claim and the lines in one transaction.
ApplyBatch(c) ==
    /\ Running(c)
    /\ processed = call[c].done
    /\ processed' = processed + BatchSize(c)
    /\ status' = "IN_PROGRESS"
    /\ applied' = [i \in Lines |-> IF i \in BatchLines(c) THEN applied[i] + 1 ELSE applied[i]]
    /\ call' = [call EXCEPT ![c].done = @ + BatchSize(c)]
    /\ UNCHANGED <<override, revision, form>>

\* Mutant: the loop goes on without reading the progress again.
RereadNothing(c) ==
    /\ Running(c)
    /\ processed # call[c].done
    /\ UNCHANGED intakeVars

\* Another call has claimed the batch.
Reread(c) ==
    /\ Running(c)
    /\ processed # call[c].done
    /\ call' = [call EXCEPT ![c].done = processed]
    /\ UNCHANGED <<status, processed, override, revision, applied, form>>

OutOfTime(c) ==
    /\ Running(c)
    /\ status' = IF status = "PENDING" THEN "IN_PROGRESS" ELSE status
    /\ Stops(c)
    /\ UNCHANGED <<processed, override, revision, applied, form>>

\* Mutant: a call that runs out of lines to claim is done with them.
FinishEarly(c) ==
    /\ call[c].pc = "running"
    /\ call[c].done >= Total(c) \/ processed # call[c].done
    /\ status' = "DONE"
    /\ Stops(c)
    /\ UNCHANGED <<processed, override, revision, applied, form>>

Finish(c) ==
    /\ call[c].pc = "running"
    /\ call[c].done >= Total(c)
    /\ status' = "DONE"
    /\ Stops(c)
    /\ UNCHANGED <<processed, override, revision, applied, form>>

\* A line does not pass the validation, or its batch is rolled back.
Fail(c) ==
    /\ Running(c)
    /\ status' = "FAILED"
    /\ Stops(c)
    /\ UNCHANGED <<processed, override, revision, applied, form>>

\* The serverless function is killed, or the statement after it is lost.
Crash(c) ==
    /\ call[c].pc # "idle"
    /\ Stops(c)
    /\ UNCHANGED <<status, processed, override, revision, applied, form>>

-----------------------------------------------------------------------------
(* The failed branch, edited or discarded.                                 *)

\* The form lists the override, or the lines of the document not yet processed
\* (intake-history-panel.tsx); an edition lists one line at least.
EditOpen ==
    /\ status = "FAILED"
    /\ override = Null => processed < NLines
    /\ form' = [from |-> IF override = Null THEN processed ELSE override,
                revision |-> revision]
    /\ UNCHANGED <<status, processed, override, revision, applied, call>>

\* updateMultiBranchIntakeBranchLines
EditCommit ==
    /\ form # Null
    /\ status = "FAILED"
    /\ revision = form.revision
    /\ revision < MaxRevision
    /\ override' = form.from
    /\ revision' = revision + 1
    /\ form' = Null
    /\ UNCHANGED <<status, processed, applied, call>>

\* discardMultiBranchIntakeBranch
Discard ==
    /\ status = "FAILED"
    /\ processed = 0
    /\ status' = "DISCARDED"
    /\ UNCHANGED <<processed, override, revision, applied, form, call>>

-----------------------------------------------------------------------------
(* The specification.                                                      *)

Work(c) ==
    \/ ReadOverride(c) \/ ReadProgress(c)
    \/ ApplyBatch(c) \/ Reread(c) \/ Finish(c)

CallSteps(c) ==
    \/ Create(c) \/ Continue(c) \/ Retry(c)
    \/ Work(c)
    \/ OutOfTime(c) \/ Fail(c) \/ Crash(c)

IntakeNext ==
    \/ \E c \in Calls: CallSteps(c)
    \/ EditOpen \/ EditCommit \/ Discard

IntakeSpec == IntakeInit /\ [][IntakeNext]_intakeVars

\* A call that is not stopped goes on to its next statement; nothing makes it
\* run out of time, fail or be killed.
IntakeFairSpec == IntakeSpec /\ \A c \in Calls: WF_intakeVars(Work(c))

-----------------------------------------------------------------------------
(* Safety.                                                                 *)

(* A document that nobody has edited is applied line by line, each once,   *)
(* whatever calls overlap, fail, run out of time or are killed, and it is  *)
(* DONE only once all its lines are in the stock.                          *)
AppliedInOrder ==
    revision = 0 =>
        /\ applied = [i \in Lines |-> IF i <= processed THEN 1 ELSE 0]
        /\ status = "DONE" => processed = NLines

(* The progress of a branch is the number of its movements, an edited one  *)
(* included: a batch and the count of it commit together or not at all.    *)
ProgressCountsMovements == processed = SumFunction(applied)

(* A branch shown as discarded has moved no stock, even if a call that     *)
(* was in progress when another one failed goes on after the discard.      *)
DiscardedIsEmpty ==
    status = "DISCARDED" => processed = 0 /\ \A i \in Lines: applied[i] = 0

-----------------------------------------------------------------------------
(* Liveness.                                                               *)

(* Two calls that race for the batches of one branch both come to an end:  *)
(* the loop of processBranchUntilDeadline is left without its time limit.  *)
EveryCallEnds == \A c \in Calls: call[c].pc # "idle" ~> call[c].pc = "idle"

-----------------------------------------------------------------------------
(* What the repository says and the code does not keep (see the README).   *)

(* "Nunca reprocesa una tanda ya confirmada" (processBranchUntilDeadline): *)
(* no line of a document is applied twice.                                 *)
AppliedOnce == \A i \in Lines: applied[i] <= 1
=============================================================================
