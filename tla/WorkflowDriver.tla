--------------------------- MODULE WorkflowDriver ---------------------------
(***************************************************************************)
(* run_until_blocked_or_complete on top of the engine, with the operator   *)
(* around it: starts the workflow once, answers its waits, pauses and      *)
(* resumes it between two calls, and reloads the checkpoint after a crash. *)
(* The call is synchronous, so nobody else touches the workflow while it   *)
(* runs; the process may die inside any executor, after its effect.        *)
(***************************************************************************)
EXTENDS WorkflowEngine, Sequences

CONSTANTS
    ActionOrder,    \* the definition's list of actions
    MaxLost         \* bound on the executions whose record is lost

\* start_workflow refuses a list of actions that repeats a name.
ASSUME OrderAssumption ==
    /\ ActionOrder \in Seq(Steps)
    /\ \A s \in Steps : \E i \in 1..Len(ActionOrder) : ActionOrder[i] = s
    /\ \A i, j \in 1..Len(ActionOrder) : ActionOrder[i] = ActionOrder[j] => i = j
ASSUME LostAssumption == MaxLost \in Nat

VARIABLES
    driver,     \* "idle", "loop" at the while, "batch" inside the for
    todo,       \* what is left of the ready_steps snapshot, in ActionOrder
    effects,    \* history: step -> executions that succeeded or suspended
    lost        \* history: step -> those whose record never reached the file

dvars == <<driver, todo, effects, lost>>
allvars == <<wf, disk, acked, driver, todo, effects, lost>>

\* Mutant: the dependencies are not looked at.
ReadyIgnoringDeps == Steps \ wf.completed

\* Mutant: a completed step is still listed.
ReadyWithCompleted == {s \in Steps : DepsMet(wf, s)}

\* get_executable_steps.  The list follows the order of the actions, which are
\* different, so the set of its members and ActionOrder determine it.
ReadySteps == {s \in Steps \ wf.completed : DepsMet(wf, s)}

\* s comes first in what is left of the snapshot.
IsHead(s) ==
    /\ s \in todo
    /\ \A i, j \in 1..Len(ActionOrder) :
          ActionOrder[i] = s /\ ActionOrder[j] \in todo => i <= j

AllDone == Steps \subseteq wf.completed

DriverInit ==
    /\ Init
    /\ driver = "idle" /\ todo = {}
    /\ effects = [s \in Steps |-> 0] /\ lost = [s \in Steps |-> 0]

LossBound == \A s \in Steps : lost[s] < MaxLost

----------------------------------------------------------------------------
(* The driver.                                                              *)

Call ==
    /\ driver = "idle" /\ wf.status = "RUNNING"
    /\ driver' = "loop"
    /\ UNCHANGED <<wf, disk, acked, todo, effects, lost>>

\* Mutant: a workflow that waits or is paused is polled until it is finished.
LoopUntilTerminal ==
    /\ driver = "loop"
    /\ \/ /\ wf.status = "RUNNING" /\ ReadySteps # {}
          /\ driver' = "batch" /\ todo' = ReadySteps
          /\ UNCHANGED <<wf, disk, acked>>
       \/ /\ wf.status = "RUNNING" /\ ReadySteps = {} /\ AllDone
          /\ Finish("COMPLETED")
          /\ driver' = "idle" /\ UNCHANGED todo
       \/ /\ wf.status \in Terminal
          /\ driver' = "idle" /\ UNCHANGED <<wf, disk, acked, todo>>
       \/ /\ wf.status \notin Terminal \cup {"RUNNING"}
          /\ UNCHANGED <<wf, disk, acked, driver, todo>>
    /\ UNCHANGED <<effects, lost>>

\* Mutant: the loop ends without completing a workflow that has nothing left.
LoopWithoutComplete ==
    /\ driver = "loop"
    /\ IF wf.status = "RUNNING" /\ ReadySteps # {}
       THEN driver' = "batch" /\ todo' = ReadySteps
       ELSE driver' = "idle" /\ UNCHANGED todo
    /\ UNCHANGED <<wf, disk, acked, effects, lost>>

\* while status == RUNNING: take the ready steps, or stop; with nothing ready
\* and everything completed, complete the workflow first.
Loop ==
    /\ driver = "loop"
    /\ \/ /\ wf.status = "RUNNING" /\ ReadySteps # {}
          /\ driver' = "batch" /\ todo' = ReadySteps
          /\ UNCHANGED <<wf, disk, acked>>
       \/ /\ wf.status = "RUNNING" /\ ReadySteps = {} /\ AllDone
          /\ Finish("COMPLETED")
          /\ driver' = "idle" /\ UNCHANGED todo
       \/ /\ wf.status # "RUNNING"
          /\ driver' = "idle" /\ UNCHANGED <<wf, disk, acked, todo>>
    /\ UNCHANGED <<effects, lost>>

Counted(s) == IF wf'.record[s] = "FAILED" THEN 0 ELSE 1

\* for step in ready_steps: execute it and go on with the snapshot unless it
\* failed, is waiting, or the workflow is no longer RUNNING.
RunHead(s) ==
    /\ driver = "batch" /\ IsHead(s)
    /\ Executable(wf, s)
    /\ wf' \in Results(wf, s, FALSE)
    /\ Saved
    /\ effects' = [effects EXCEPT ![s] = @ + Counted(s)]
    /\ IF /\ wf'.record[s] = "COMPLETED"
          /\ wf'.status = "RUNNING"
          /\ todo # {s}
       THEN driver' = "batch" /\ todo' = todo \ {s}
       ELSE driver' = "loop" /\ todo' = {}
    /\ UNCHANGED lost

\* The step is executed and its checkpoint cannot be written: the exception
\* leaves the driver.
HeadUnsaved(s) ==
    /\ driver = "batch" /\ IsHead(s) /\ LossBound
    /\ Executable(wf, s)
    /\ wf' \in Results(wf, s, FALSE)
    /\ SaveFails
    /\ effects' = [effects EXCEPT ![s] = @ + Counted(s)]
    /\ lost' = [lost EXCEPT ![s] = @ + Counted(s)]
    /\ driver' = "idle" /\ todo' = {}

\* A custom executor raises through the driver.
HeadRaises(s) ==
    /\ driver = "batch" /\ IsHead(s)
    /\ ExecutorRaises(s)
    /\ driver' = "idle" /\ todo' = {}
    /\ UNCHANGED <<effects, lost>>

\* The process dies after the executor's effect and before the checkpoint.
CrashInExecutor(s) ==
    /\ driver = "batch" /\ IsHead(s) /\ LossBound
    /\ Crash
    /\ driver' = "idle" /\ todo' = {}
    /\ effects' = [effects EXCEPT ![s] = @ + 1]
    /\ lost' = [lost EXCEPT ![s] = @ + 1]

----------------------------------------------------------------------------
(* The operator, between two calls.                                         *)

Quiet(op) == driver = "idle" /\ op /\ UNCHANGED dvars

Start == Quiet(disk.status = "ABSENT" /\ \E inputs \in InitialInputs : StartWorkflow(inputs))
Answer == Quiet(wf.status \in Waiting
                /\ (TriggerTimer \/ \E e \in Events, payload \in SUBSET Keys :
                                       SignalEvent(e, payload)))
Recover == Quiet(~Loaded /\ LoadCheckpoint)

\* retry_step of a step that failed, while the workflow is RUNNING.
OperatorRetry(s) ==
    /\ driver = "idle" /\ wf.status = "RUNNING" /\ wf.record[s] = "FAILED"
    /\ \E reset \in BOOLEAN :
          \/ /\ RetryStep(s, reset, FALSE) /\ Saved
             /\ effects' = [effects EXCEPT ![s] = @ + Counted(s)]
          \/ /\ RetryRefused(s, reset)
             /\ UNCHANGED effects
    /\ UNCHANGED <<driver, todo, lost>>

OperatorPause == Quiet(Pause)
OperatorResume == Quiet(Resume)
OperatorCrash == Quiet(Crash)

DriverStep == Loop \/ \E s \in Steps : RunHead(s)

DriverNext ==
    \/ Call
    \/ DriverStep
    \/ \E s \in Steps : HeadUnsaved(s) \/ HeadRaises(s) \/ CrashInExecutor(s)
    \/ \E s \in Steps : OperatorRetry(s)
    \/ Start \/ Answer \/ Recover
    \/ OperatorPause \/ OperatorResume \/ OperatorCrash

DriverSpec == DriverInit /\ [][DriverNext]_allvars

\* The interpreter goes on with the call it is in.
CallSpec == DriverSpec /\ WF_allvars(DriverStep)

\* The operation takes effect in memory and in the file.
Succeeds(op) == op /\ disk' = wf'

\* In addition, a step that is executed again and again works in the end, and the
\* operator starts, reloads, resumes, answers and calls until it is saved, however
\* often the process dies between two calls.
FairSpec ==
    /\ CallSpec
    /\ \A s \in Steps : SF_allvars(RunHead(s) /\ Counted(s) = 1)
    /\ SF_allvars(Succeeds(Start))
    /\ WF_allvars(Recover)
    /\ SF_allvars(Succeeds(OperatorResume))
    /\ SF_allvars(Succeeds(Answer /\ wf'.wait = NoWait))
    /\ SF_allvars(Call)

----------------------------------------------------------------------------
(* Properties.                                                              *)

\* The ready_steps snapshot is never stale: whichever step the for loop has left,
\* execute_step still accepts it and it has not been completed meanwhile, though
\* the snapshot was taken before the earlier steps of the batch changed the
\* workflow.
SnapshotStaysReady ==
    driver = "batch" =>
        /\ todo # {}
        /\ \A s \in todo : Executable(wf, s) /\ s \notin wf.completed

\* Recovery repeats an effect only when its record never reached the file: a
\* step's executor succeeds or suspends at most once, plus once for every
\* execution cut off by a crash or by a failed save.
EffectsAreAccountedFor == \A s \in Steps : effects[s] <= 1 + lost[s]

\* What the docstring of run_until_blocked_or_complete says (engine.py:942-945):
\* it stops when the workflow waits, completes, fails or pauses, or nothing is
\* ready.  Every call returns.
CallReturns == driver # "idle" ~> driver = "idle"

\* A workflow that is started, driven, answered and reloaded after crashes ends
\* COMPLETED, also when its last step is completed by a signal, which does not
\* itself complete the workflow.
WorkflowCompletes == <>(wf.status = "COMPLETED")
=============================================================================
