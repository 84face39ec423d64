--------------------------- MODULE WorkflowEngine ---------------------------
(***************************************************************************)
(* The durable runtime engine, core/runtime/engine.py, for one workflow    *)
(* id: DurableRuntimeEngine keeps its instances in a dictionary and no     *)
(* operation touches two of them.                                          *)
(*                                                                         *)
(* The in-memory WorkflowInstance is wf, the checkpoint file is disk.      *)
(* Every public operation is one action: its guard, its assignments, and   *)
(* the checkpoint that ends it, which may also fail (serialisation or I/O  *)
(* error) and then raise after memory has already changed.                 *)
(*                                                                         *)
(* state_data is abstracted to the set of its keys: the engine and the     *)
(* human executor branch on the presence of keys only.  An output is also  *)
(* stored under the name of its step; the model keeps that of human steps. *)
(* history, signals, outputs, current_step and the timestamps are written  *)
(* and never read by a guard, so they are left out.                        *)
(***************************************************************************)
EXTENDS Integers, FiniteSets

CONSTANTS
    Steps,          \* the definition's "actions"
    Deps,           \* the definition's "dependencies": step -> prerequisites
    HumanSteps,     \* the steps whose executor is the HumanExecutor
    Keys,           \* the keys of state_data callers give, no names of steps
    AnswerKeys,     \* "approved", "human_response", "decision"
    HumanOutput,    \* the keys of a HumanExecutor's output
    Required,       \* step -> the required_fields of a human step
    Emits,          \* step -> the keys a non-human step's output may hold
    CustomWaits,    \* step -> the wait conditions its own executor may return
    Events,         \* the event names
    AnyEvent,       \* event_name = None
    NoWait,         \* pending_wait = None
    End,            \* history: a caller was told that the workflow has ended
    InitialInputs,  \* the key sets start_workflow may be given
    MaxAttempts,    \* StepExecutionRecord.max_attempts
    AutoCheckpoint, \* auto_checkpoint, with a storage_dir
    SaveMayFail     \* whether writing the checkpoint file may raise

WaitTypes == {"EVENT", "HUMAN", "TIMER"}

WaitCondition == [type : WaitTypes, step : Steps,
                  event : Events \cup {AnyEvent}, required : SUBSET Keys]

ASSUME DepsAssumption == Deps \in [Steps -> SUBSET Steps]
ASSUME KeysAssumption ==
    /\ HumanSteps \subseteq Steps
    /\ AnswerKeys \subseteq Keys
    /\ HumanOutput \subseteq Keys
    /\ Required \in [Steps -> SUBSET Keys]
    /\ Emits \in [Steps -> SUBSET Keys]
    /\ InitialInputs \subseteq SUBSET Keys
ASSUME EndAssumption == End \notin Steps
ASSUME WaitAssumption ==
    /\ CustomWaits \in [Steps -> SUBSET WaitCondition]
    /\ \A s \in Steps : \A w \in CustomWaits[s] : w.step = s
    /\ NoWait \notin WaitCondition
ASSUME AttemptsAssumption == MaxAttempts \in Nat \ {0}
ASSUME CheckpointAssumption ==
    AutoCheckpoint \in BOOLEAN /\ SaveMayFail \in BOOLEAN

VARIABLES
    wf,     \* the instance in memory, NoWorkflow when the engine has none
    disk,   \* the checkpoint file, NoWorkflow when there is none
    acked   \* history: what calls that returned normally reported: the steps
            \* that completed, and End when the workflow was left over

vars == <<wf, disk, acked>>

----------------------------------------------------------------------------
(* The instance: WorkflowInstance and its StepExecutionRecords.             *)

\* Mutant: the wait's type is stored as the status.
WaitingStatusAsType(type) == type

WaitingStatus(type) ==
    CASE type = "HUMAN" -> "WAITING_HUMAN"
      [] type = "TIMER" -> "WAITING_TIMER"
      [] OTHER          -> "WAITING_EVENT"

Waiting  == {"WAITING_EVENT", "WAITING_HUMAN", "WAITING_TIMER"}
Terminal == {"COMPLETED", "FAILED", "CANCELED"}
Ended    == {"COMPLETED", "CANCELED"}
Status   == {"ABSENT", "RUNNING", "PAUSED"} \cup Waiting \cup Terminal

RecordStatus == {"NONE", "RUNNING", "COMPLETED", "FAILED", "WAITING"}

Instance ==
    [status : Status, completed : SUBSET Steps, failed : SUBSET Steps,
     record : [Steps -> RecordStatus], attempt : [Steps -> Nat],
     wait : WaitCondition \cup {NoWait}, data : SUBSET (Keys \cup HumanSteps)]

Fresh(status, data) ==
    [status |-> status, completed |-> {}, failed |-> {},
     record |-> [s \in Steps |-> "NONE"], attempt |-> [s \in Steps |-> 0],
     wait |-> NoWait, data |-> data]

NoWorkflow == Fresh("ABSENT", {})

----------------------------------------------------------------------------
(* What execute_step does to an instance i.                                 *)

\* Mutant: a prerequisite that was begun counts as met.
DepsMetWhenBegun(i, s) == \A d \in Deps[s] : i.record[d] # "NONE"

DepsMet(i, s) == Deps[s] \subseteq i.completed

Executable(i, s) ==
    /\ i.status \in {"RUNNING"} \cup Waiting
    /\ DepsMet(i, s)

\* The record is created with attempt 1 or set back to RUNNING.
Begin(i, s) ==
    [i EXCEPT !.record[s] = "RUNNING",
              !.attempt[s] = IF i.record[s] = "NONE" THEN 1 ELSE @]

Suspend(i, s, w) ==
    [Begin(i, s) EXCEPT !.status = WaitingStatus(w.type),
                        !.record[s] = "WAITING",
                        !.wait = w]

\* Mutant: a success leaves the pending wait in place.
SucceedKeepingWait(i, s, keys) ==
    [Begin(i, s) EXCEPT
        !.record[s] = "COMPLETED", !.completed = @ \cup {s}, !.failed = @ \ {s},
        !.data = @ \cup keys,
        !.status = IF Steps \subseteq i.completed \cup {s}
                   THEN "COMPLETED" ELSE "RUNNING"]

\* Success clears whatever wait is pending, and completes the workflow when
\* it was the last action.
Succeed(i, s, keys) ==
    [Begin(i, s) EXCEPT
        !.record[s] = "COMPLETED",
        !.completed = @ \cup {s},
        !.failed = @ \ {s},
        !.data = @ \cup keys,
        !.wait = NoWait,
        !.status = IF Steps \subseteq i.completed \cup {s}
                   THEN "COMPLETED" ELSE "RUNNING"]

\* The status is left alone: a failed step does not fail the workflow.
FailStep(i, s) ==
    [Begin(i, s) EXCEPT !.record[s] = "FAILED", !.failed = @ \cup {s}]

HumanWait(s) ==
    [type |-> "HUMAN", step |-> s, event |-> AnyEvent, required |-> Required[s]]

\* HumanExecutor.execute: completes at once when an answer is among the
\* effective inputs (the state data, or the step inputs), otherwise suspends.
HumanResults(i, s, answered) ==
    IF answered \/ AnswerKeys \cap i.data # {}
    THEN {Succeed(i, s, HumanOutput \cup {s})}
    ELSE {Suspend(i, s, HumanWait(s))}

\* Any other executor succeeds, fails, or returns one of its own waits.
CustomResults(i, s) ==
    {Succeed(i, s, keys) : keys \in SUBSET Emits[s]}
        \cup {FailStep(i, s)}
        \cup {Suspend(i, s, w) : w \in CustomWaits[s]}

Results(i, s, answered) ==
    IF s \in HumanSteps THEN HumanResults(i, s, answered) ELSE CustomResults(i, s)

----------------------------------------------------------------------------
(* The checkpoint that ends an operation.                                   *)

\* What the caller learns when the call returns: the steps it completed, and that
\* the workflow has ended.  An operator who fails a workflow takes its end back.
Reported == (wf'.completed \ wf.completed) \cup (IF wf'.status \in Ended THEN {End} ELSE {})
Known == IF wf'.status = "FAILED" THEN acked \ {End} ELSE acked

\* Mutant: the file gets the instance as it was before the operation.
SavedBefore ==
    /\ disk' = IF AutoCheckpoint THEN wf ELSE disk
    /\ acked' = Known \cup Reported

\* _save_checkpoint_to_disk: temporary file, fsync and os.replace, so the file
\* is the old one or the new one; an error leaves the old one and propagates.
Saved ==
    /\ disk' = IF AutoCheckpoint THEN wf' ELSE disk
    /\ acked' = Known \cup Reported

\* Mutant: the write error is swallowed and the call returns normally.
SaveFailsSilently ==
    /\ AutoCheckpoint /\ SaveMayFail
    /\ acked' = Known \cup Reported
    /\ UNCHANGED disk

SaveFails ==
    /\ AutoCheckpoint /\ SaveMayFail
    /\ acked' = Known
    /\ UNCHANGED disk

Persist == Saved \/ SaveFails

----------------------------------------------------------------------------
(* The operations.                                                          *)

Loaded == wf.status # "ABSENT"

\* Refuses an id that is in memory; a checkpoint file of an earlier run of the
\* same id is overwritten.
StartWorkflow(inputs) ==
    /\ ~Loaded
    /\ wf' = Fresh("RUNNING", inputs)
    /\ \/ disk' = IF AutoCheckpoint THEN wf' ELSE disk
       \/ AutoCheckpoint /\ SaveMayFail /\ UNCHANGED disk
    /\ acked' = {}

ExecuteStep(s, answered) ==
    /\ Executable(wf, s)
    /\ wf' \in Results(wf, s, answered)
    /\ Persist

\* The executor raises: the exception leaves execute_step after the record was
\* marked RUNNING and before any checkpoint.  (The built-in executors catch.)
ExecutorRaises(s) ==
    /\ Executable(wf, s)
    /\ s \notin HumanSteps
    /\ wf' = Begin(wf, s)
    /\ UNCHANGED <<disk, acked>>

NextAttempt(s, reset) == IF reset THEN 1 ELSE wf.attempt[s] + 1

\* Mutant: a retry brings any workflow that has ended back.
RetriedAfterEnd(s, reset) ==
    [wf EXCEPT !.attempt[s] = NextAttempt(s, reset),
               !.status = IF @ \in Terminal \cup {"PAUSED"} THEN "RUNNING" ELSE @]

\* The instance execute_step sees when retry_step calls it.
Retried(s, reset) ==
    [wf EXCEPT !.attempt[s] = NextAttempt(s, reset),
               !.status = IF @ \in {"FAILED", "PAUSED"} THEN "RUNNING" ELSE @]

\* AttemptBound caps the counter, which the code lets grow past the maximum.
AttemptBound == MaxAttempts + 1

RetryStep(s, reset, answered) ==
    /\ Loaded
    /\ wf.record[s] # "NONE"
    /\ NextAttempt(s, reset) <= MaxAttempts
    /\ Executable(Retried(s, reset), s)
    /\ wf' \in Results(Retried(s, reset), s, answered)
    /\ Persist

\* The retry that changes the attempt (and the status) and then goes no
\* further: the maximum is exceeded, execute_step refuses, or the executor
\* raises.  Nothing is checkpointed.
RetryRefused(s, reset) ==
    /\ Loaded
    /\ wf.record[s] # "NONE"
    /\ NextAttempt(s, reset) <= AttemptBound
    /\ \/ /\ NextAttempt(s, reset) > MaxAttempts
          /\ wf' = [wf EXCEPT !.attempt[s] = NextAttempt(s, reset)]
       \/ /\ NextAttempt(s, reset) <= MaxAttempts
          /\ ~Executable(Retried(s, reset), s)
          /\ wf' = Retried(s, reset)
       \/ /\ NextAttempt(s, reset) <= MaxAttempts
          /\ Executable(Retried(s, reset), s)
          /\ s \notin HumanSteps
          /\ wf' = Begin(Retried(s, reset), s)
    /\ UNCHANGED <<disk, acked>>

\* What resolving the pending wait does, in signal_event and trigger_timer: the
\* waiting step is completed, failed_steps and the other actions are not looked
\* at, so the workflow is RUNNING even when this was its last action.
Resolve(i) ==
    [i EXCEPT !.wait = NoWait, !.status = "RUNNING",
              !.record[i.wait.step] = "COMPLETED",
              !.completed = @ \cup {i.wait.step}]

AnswersEvent(e) ==
    /\ wf.status = "WAITING_EVENT" /\ wf.wait # NoWait
    /\ wf.wait.event \in {AnyEvent, e}

AwaitsHuman == wf.status = "WAITING_HUMAN" /\ wf.wait # NoWait

\* Mutant: the required fields are not checked.
SignalUnchecked(e, payload) ==
    LET merged == [wf EXCEPT !.data = @ \cup payload]
    IN  /\ Loaded
        /\ wf' = IF AnswersEvent(e) \/ AwaitsHuman THEN Resolve(merged) ELSE merged
        /\ Persist

\* A payload that is not a dictionary carries no key, as an empty one does.
SignalEvent(e, payload) ==
    LET merged == [wf EXCEPT !.data = @ \cup payload]
    IN  /\ Loaded
        /\ AwaitsHuman => wf.wait.required \subseteq payload
        /\ wf' = IF AnswersEvent(e) \/ AwaitsHuman THEN Resolve(merged) ELSE merged
        /\ Persist

TriggerTimer ==
    /\ wf.status = "WAITING_TIMER" /\ wf.wait # NoWait
    /\ wf' = Resolve(wf)
    /\ Persist

Pause ==
    /\ Loaded /\ wf.status \notin Terminal
    /\ wf' = [wf EXCEPT !.status = "PAUSED"]
    /\ Persist

Resume ==
    /\ wf.status = "PAUSED"
    /\ wf' = [wf EXCEPT !.status = IF wf.wait = NoWait THEN "RUNNING"
                                   ELSE WaitingStatus(wf.wait.type)]
    /\ Persist

\* complete, fail and cancel have no guard on the status.
Finish(status) ==
    /\ Loaded
    /\ wf' = [wf EXCEPT !.status = status]
    /\ Persist

\* save_checkpoint, called by the operator.
SaveCheckpoint ==
    /\ Loaded
    /\ disk' = wf
    /\ UNCHANGED <<wf, acked>>

\* load_checkpoint of the workflow's own file, replacing the instance in memory.
LoadCheckpoint ==
    /\ disk.status # "ABSENT"
    /\ wf' = disk
    /\ UNCHANGED <<disk, acked>>

\* The process dies, between two operations or inside an executor.
Crash ==
    /\ Loaded
    /\ wf' = NoWorkflow
    /\ UNCHANGED <<disk, acked>>

----------------------------------------------------------------------------
Init == wf = NoWorkflow /\ disk = NoWorkflow /\ acked = {}

StepCall ==
    \E s \in Steps, answered \in BOOLEAN :
        \/ ExecuteStep(s, answered)
        \/ ExecutorRaises(s)
        \/ \E reset \in BOOLEAN :
              RetryStep(s, reset, answered) \/ RetryRefused(s, reset)

Next ==
    \/ \E inputs \in InitialInputs : StartWorkflow(inputs)
    \/ StepCall
    \/ \E e \in Events, payload \in SUBSET Keys : SignalEvent(e, payload)
    \/ TriggerTimer
    \/ Pause
    \/ Resume
    \/ \E status \in Terminal : Finish(status)
    \/ SaveCheckpoint
    \/ LoadCheckpoint
    \/ Crash

Spec == Init /\ [][Next]_vars

----------------------------------------------------------------------------
(* Properties.                                                              *)

\* The variables have their types.
TypeOK == wf \in Instance /\ disk \in Instance /\ acked \in SUBSET (Steps \cup {End})

\* Dependency order: in memory and in the file, a step that was ever begun has
\* all its prerequisites completed, and a completed step was begun.  It must
\* survive waits resolved long after the step began, re-executions, retries
\* and reloads, because only execute_step looks at the dependencies.
StartedAfterDeps(i) ==
    \A s \in Steps :
        /\ i.record[s] # "NONE" => Deps[s] \subseteq i.completed
        /\ s \in i.completed => i.record[s] # "NONE"

DependencyOrder == StartedAfterDeps(wf) /\ StartedAfterDeps(disk)

\* A waiting workflow can be woken: its status names the type of a wait that is
\* really pending, on a step that was begun and is not recorded as completed.
\* signal_event and trigger_timer do nothing for a waiting status without a
\* matching wait, so a mismatch would block the workflow for ever; pause and
\* resume, a second step that waits, and a reload all rewrite the pair.
WaitIsPending(i) ==
    /\ i.status \in Waiting =>
          i.wait # NoWait /\ i.status = WaitingStatus(i.wait.type)
    /\ i.wait # NoWait =>
          i.record[i.wait.step] \in {"WAITING", "FAILED", "RUNNING"}

WaitCanBeResolved == WaitIsPending(wf) /\ WaitIsPending(disk)

\* A human step counts as completed only after every field it requires was
\* delivered, or with an output its own HumanExecutor recorded because it found an
\* answer among its inputs (which may be the answer of another step: README,
\* section 6).  No event, no timer, no signal that lacks a field and none sent
\* while the workflow is paused completes it, though two waits overwrite each
\* other, pause and resume rewrite the status, and retries and reloads come in
\* between (signal_event, trigger_timer, resume_workflow, HumanExecutor).
Answered(i) ==
    \A s \in HumanSteps \cap i.completed : Required[s] \subseteq i.data \/ s \in i.data

HumanStepsAreAnswered == Answered(wf) /\ Answered(disk)

\* With automatic checkpoints, a completion a caller was told of is in the file
\* (and in memory while the engine is up), across failed saves, crashes and
\* reloads, until the id is started again.
AckedIsDurable ==
    AutoCheckpoint =>
        /\ acked \ {End} \subseteq disk.completed
        /\ Loaded => acked \ {End} \subseteq wf.completed

Promise == INSTANCE DurableWorkflow
           WITH up <- Loaded, done <- wf.completed, durable <- disk.completed,
                told <- IF AutoCheckpoint THEN acked \ {End} ELSE {}

\* The engine keeps the promise of DurableWorkflow: completions respect the
\* dependencies also where signal_event and trigger_timer complete a step
\* without looking at them, and a crash loses nothing that was reported.
Implements == Promise!Spec

\* With automatic checkpoints, a workflow whose end a caller was told of stays
\* completed or canceled, in memory and in the file, whatever signals, timers,
\* retries, pauses, crashes, failed saves and reloads follow, so that none of its
\* steps is executed again; only the operator who fails it, or starts the id
\* again, takes the end back.
EndIsFinal ==
    AutoCheckpoint /\ End \in acked =>
        /\ disk.status \in Ended
        /\ Loaded => wf.status \in Ended

=============================================================================
