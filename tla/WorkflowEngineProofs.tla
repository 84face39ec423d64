------------------------ MODULE WorkflowEngineProofs ------------------------
(***************************************************************************)
(* Safety of the durable engine, and of the driver around it, for every    *)
(* workflow definition.                                                    *)
(*                                                                         *)
(* The inductive invariant of the engine says of both instances, the one   *)
(* in memory and the one in the file, that they are Sound: well typed,     *)
(* begun in dependency order, and waiting only on a wait that is really    *)
(* pending.  Soundness is proved once for each operator on instances, and  *)
(* the actions are compositions of these operators.                        *)
(*                                                                         *)
(* A step of the driver is a step of the engine or leaves it alone, so     *)
(* what is proved of the engine holds under the driver.  Two invariants    *)
(* are the driver's own: every step of the ready_steps snapshot stays      *)
(* executable, and an effect is repeated only when its record never        *)
(* reached the file.                                                       *)
(***************************************************************************)
EXTENDS WorkflowDriver, TLAPS

Sound(i) == i \in Instance /\ StartedAfterDeps(i) /\ WaitIsPending(i)

USE DepsAssumption, KeysAssumption, WaitAssumption, AttemptsAssumption,
    CheckpointAssumption

\* What the state data holds keys of.
DataKeys == Keys \cup HumanSteps

\* The type of a wait selects one of the three waiting statuses.
LEMMA WaitingStatusType ==
    ASSUME NEW type \in WaitTypes
    PROVE  WaitingStatus(type) \in Waiting
BY DEF WaitTypes, WaitingStatus, Waiting

\* start_workflow's new instance, and no instance at all, are sound.
LEMMA FreshIsSound ==
    ASSUME NEW status \in Status \ Waiting, NEW data \in SUBSET DataKeys
    PROVE  Sound(Fresh(status, data))
BY DEF Sound, Fresh, Instance, RecordStatus, StartedAfterDeps, WaitIsPending, DataKeys

\* Marking the record of a step whose prerequisites are met RUNNING keeps an
\* instance sound, and changes nothing else that the invariant reads.
LEMMA BeginIsSound ==
    ASSUME NEW i, Sound(i), NEW s \in Steps, DepsMet(i, s)
    PROVE  /\ Sound(Begin(i, s))
           /\ DepsMet(Begin(i, s), s)
           /\ Begin(i, s).completed = i.completed
           /\ Begin(i, s).failed = i.failed
           /\ Begin(i, s).status = i.status
           /\ Begin(i, s).wait = i.wait
           /\ Begin(i, s).data = i.data
           /\ Begin(i, s).record[s] = "RUNNING"
<1> DEFINE b == Begin(i, s)
<1>1. b \in Instance
  BY DEF Sound, Begin, Instance, RecordStatus
<1>2. /\ b.completed = i.completed /\ b.failed = i.failed
      /\ b.status = i.status /\ b.wait = i.wait /\ b.data = i.data
      /\ b.record = [i.record EXCEPT ![s] = "RUNNING"]
  BY DEF Sound, Begin, Instance
<1>3. StartedAfterDeps(b)
  BY <1>2 DEF Sound, Instance, StartedAfterDeps, DepsMet
<1>4. WaitIsPending(b)
  BY <1>2, WaitingStatusType DEF Sound, Instance, WaitIsPending, WaitCondition
<1> QED
  BY <1>1, <1>2, <1>3, <1>4 DEF Sound, Instance, DepsMet

\* A step that suspends replaces the pending wait by its own, of the same type as
\* the status.
LEMMA SuspendIsSound ==
    ASSUME NEW i, Sound(i), NEW s \in Steps, DepsMet(i, s),
           NEW w \in WaitCondition, w.step = s
    PROVE  Sound(Suspend(i, s, w))
<1> DEFINE b == Begin(i, s)
           r == Suspend(i, s, w)
<1>1. Sound(b) /\ DepsMet(b, s)
  BY BeginIsSound
<1>2. w.type \in WaitTypes /\ WaitingStatus(w.type) \in Waiting /\ w # NoWait
  BY WaitingStatusType DEF WaitCondition
<1>3. r \in Instance
  BY <1>1, <1>2 DEF Sound, Suspend, Instance, RecordStatus, Status
<1>4. /\ r.completed = b.completed /\ r.wait = w
      /\ r.status = WaitingStatus(w.type)
      /\ r.record = [b.record EXCEPT ![s] = "WAITING"]
  BY <1>1 DEF Sound, Suspend, Instance
<1>5. StartedAfterDeps(r)
  BY <1>1, <1>4 DEF Sound, Instance, StartedAfterDeps, DepsMet
<1>6. WaitIsPending(r)
  BY <1>1, <1>2, <1>4 DEF Sound, Instance, WaitIsPending
<1> QED
  BY <1>3, <1>5, <1>6 DEF Sound

\* A step that succeeds is completed after its prerequisites and leaves no wait.
LEMMA SucceedIsSound ==
    ASSUME NEW i, Sound(i), NEW s \in Steps, DepsMet(i, s),
           NEW keys \in SUBSET DataKeys
    PROVE  Sound(Succeed(i, s, keys))
<1> DEFINE b == Begin(i, s)
           r == Succeed(i, s, keys)
<1>1. Sound(b) /\ DepsMet(b, s)
  BY BeginIsSound
<1>2. r \in Instance
  <2>1. b \in Instance
    BY <1>1 DEF Sound
  <2> HIDE DEF b
  <2>2. PICK record : record = [b.record EXCEPT ![s] = "COMPLETED"]
    OBVIOUS
  <2>3. PICK status : status = IF Steps \subseteq i.completed \cup {s}
                               THEN "COMPLETED" ELSE "RUNNING"
    OBVIOUS
  <2>4. r = [b EXCEPT !.record = record, !.completed = @ \cup {s},
                      !.failed = @ \ {s}, !.data = @ \cup keys, !.wait = NoWait,
                      !.status = status]
    BY <2>1, <2>2, <2>3 DEF b, Succeed, Instance
  <2>5. record \in [Steps -> RecordStatus]
    BY <2>1, <2>2 DEF Instance, RecordStatus
  <2>6. status \in Status
    BY <2>3 DEF Status, Terminal
  <2>7. r = [status |-> status, completed |-> b.completed \cup {s},
             failed |-> b.failed \ {s}, record |-> record, attempt |-> b.attempt,
             wait |-> NoWait, data |-> b.data \cup keys]
    BY <2>1, <2>4 DEF Instance
  <2>8. /\ b.completed \in SUBSET Steps /\ b.failed \in SUBSET Steps
        /\ b.attempt \in [Steps -> Nat] /\ b.data \in SUBSET DataKeys
    BY <2>1 DEF Instance, DataKeys
  <2> HIDE DEF r
  <2> QED
    BY <2>5, <2>6, <2>7, <2>8 DEF Instance, DataKeys
<1>3. /\ r.completed = b.completed \cup {s} /\ r.wait = NoWait
      /\ r.status \in {"COMPLETED", "RUNNING"}
      /\ r.record = [b.record EXCEPT ![s] = "COMPLETED"]
  BY <1>1 DEF Sound, Succeed, Instance
<1>4. StartedAfterDeps(r)
  BY <1>1, <1>3 DEF Sound, Instance, StartedAfterDeps, DepsMet
<1>5. WaitIsPending(r)
  BY <1>1, <1>3 DEF Sound, Instance, WaitIsPending, Waiting
<1> QED
  BY <1>2, <1>4, <1>5 DEF Sound

\* A step that fails leaves a pending wait of another step, or of its own, intact.
LEMMA FailIsSound ==
    ASSUME NEW i, Sound(i), NEW s \in Steps, DepsMet(i, s)
    PROVE  Sound(FailStep(i, s))
<1> DEFINE b == Begin(i, s)
           r == FailStep(i, s)
<1>1. Sound(b) /\ DepsMet(b, s)
  BY BeginIsSound
<1>2. r \in Instance
  BY <1>1 DEF Sound, FailStep, Instance, RecordStatus
<1>3. /\ r.completed = b.completed /\ r.wait = b.wait /\ r.status = b.status
      /\ r.record = [b.record EXCEPT ![s] = "FAILED"]
  BY <1>1 DEF Sound, FailStep, Instance
<1>4. StartedAfterDeps(r)
  BY <1>1, <1>3 DEF Sound, Instance, StartedAfterDeps, DepsMet
<1>5. WaitIsPending(r)
  BY <1>1, <1>3 DEF Sound, Instance, WaitIsPending, WaitCondition
<1> QED
  BY <1>2, <1>4, <1>5 DEF Sound

\* The HumanExecutor returns a well-formed wait on its own step.
LEMMA HumanWaitType ==
    ASSUME NEW s \in Steps
    PROVE  HumanWait(s) \in WaitCondition /\ HumanWait(s).step = s
BY DEF HumanWait, WaitCondition, WaitTypes

\* Whatever the executor of a runnable step returns leaves a sound instance.
LEMMA ResultsAreSound ==
    ASSUME NEW i, Sound(i), NEW s \in Steps, DepsMet(i, s), NEW answered,
           NEW r \in Results(i, s, answered)
    PROVE  Sound(r)
<1>1. CASE s \in HumanSteps
  <2>1. r = Succeed(i, s, HumanOutput \cup {s}) \/ r = Suspend(i, s, HumanWait(s))
    BY <1>1 DEF Results, HumanResults
  <2>2. HumanOutput \cup {s} \in SUBSET DataKeys
    BY <1>1 DEF DataKeys
  <2> QED
    BY <2>1, <2>2, SucceedIsSound, SuspendIsSound, HumanWaitType
<1>2. CASE s \notin HumanSteps
  <2>1. \/ \E keys \in SUBSET Emits[s] : r = Succeed(i, s, keys)
        \/ r = FailStep(i, s)
        \/ \E w \in CustomWaits[s] : r = Suspend(i, s, w)
    BY <1>2 DEF Results, CustomResults
  <2>2. SUBSET Emits[s] \subseteq SUBSET DataKeys
    BY DEF DataKeys
  <2>3. \A w \in CustomWaits[s] : w \in WaitCondition /\ w.step = s
    OBVIOUS
  <2> QED
    BY <2>1, <2>2, <2>3, SucceedIsSound, SuspendIsSound, FailIsSound
<1> QED
  BY <1>1, <1>2

\* Resolving a pending wait needs no test of the dependencies: the waiting step
\* was begun, and therefore had them.
LEMMA ResolveIsSound ==
    ASSUME NEW i, Sound(i), i.wait # NoWait
    PROVE  /\ Sound(Resolve(i))
           /\ i.wait.step \in Steps
           /\ DepsMet(i, i.wait.step)
           /\ Resolve(i).completed = i.completed \cup {i.wait.step}
<1> DEFINE s == i.wait.step
           r == Resolve(i)
<1>1. s \in Steps /\ i.record[s] # "NONE"
  BY DEF Sound, Instance, WaitCondition, WaitIsPending
<1>2. DepsMet(i, s)
  BY <1>1 DEF Sound, StartedAfterDeps, DepsMet
<1>3. r \in Instance
  BY <1>1 DEF Sound, Resolve, Instance, RecordStatus, Status
<1>4. /\ r.completed = i.completed \cup {s} /\ r.wait = NoWait
      /\ r.status = "RUNNING"
      /\ r.record = [i.record EXCEPT ![s] = "COMPLETED"]
  BY <1>1 DEF Sound, Resolve, Instance
<1>5. StartedAfterDeps(r)
  BY <1>1, <1>2, <1>4 DEF Sound, Instance, StartedAfterDeps, DepsMet
<1>6. WaitIsPending(r)
  BY <1>1, <1>4 DEF WaitIsPending, Waiting
<1> QED
  BY <1>1, <1>2, <1>3, <1>4, <1>5, <1>6 DEF Sound

\* An execution completes its own step or none.
LEMMA ResultsComplete ==
    ASSUME NEW i, Sound(i), NEW s \in Steps, DepsMet(i, s), NEW answered,
           NEW r \in Results(i, s, answered)
    PROVE  /\ r.completed \in {i.completed, i.completed \cup {s}}
           /\ i.status # "ABSENT" => r.status # "ABSENT"
<1> DEFINE b == Begin(i, s)
<1>1. Sound(b) /\ b.completed = i.completed /\ b.status = i.status
  BY BeginIsSound
<1>2. \A keys : LET q == Succeed(i, s, keys)
                IN  q.completed = i.completed \cup {s} /\ q.status # "ABSENT"
  BY <1>1 DEF Sound, Succeed, Instance
<1>3. FailStep(i, s).completed = i.completed /\ FailStep(i, s).status = i.status
  BY <1>1 DEF Sound, FailStep, Instance
<1>4. ASSUME NEW w \in WaitCondition
      PROVE  LET q == Suspend(i, s, w)
             IN  q.completed = i.completed /\ q.status # "ABSENT"
  <2>1. WaitingStatus(w.type) # "ABSENT"
    BY WaitingStatusType DEF WaitCondition, Waiting
  <2> QED
    BY <1>1, <2>1 DEF Sound, Suspend, Instance
<1>5. CASE s \in HumanSteps
  <2>1. r = Succeed(i, s, HumanOutput \cup {s}) \/ r = Suspend(i, s, HumanWait(s))
    BY <1>5 DEF Results, HumanResults
  <2> QED
    BY <2>1, <1>2, <1>4, HumanWaitType
<1>6. CASE s \notin HumanSteps
  <2>1. \/ \E keys \in SUBSET Emits[s] : r = Succeed(i, s, keys)
        \/ r = FailStep(i, s)
        \/ \E w \in CustomWaits[s] : r = Suspend(i, s, w)
    BY <1>6 DEF Results, CustomResults
  <2>2. \A w \in CustomWaits[s] : w \in WaitCondition
    OBVIOUS
  <2> QED
    BY <2>1, <2>2, <1>2, <1>3, <1>4
<1> QED
  BY <1>5, <1>6

\* pause, complete, fail and cancel: a status that does not wait keeps soundness,
\* whatever wait is pending.
LEMMA StatusIsSound ==
    ASSUME NEW i, Sound(i), NEW status \in Status,
           status \in Waiting => i.wait # NoWait /\ status = WaitingStatus(i.wait.type)
    PROVE  LET r == [i EXCEPT !.status = status]
           IN  Sound(r) /\ r.completed = i.completed /\ r.status = status
BY DEF Sound, Instance, StartedAfterDeps, WaitIsPending

\* The attempt counter is read by no part of soundness.
LEMMA AttemptIsSound ==
    ASSUME NEW i, Sound(i), NEW s \in Steps, NEW n \in Nat
    PROVE  LET r == [i EXCEPT !.attempt[s] = n]
           IN  Sound(r) /\ r.completed = i.completed /\ r.status = i.status
BY DEF Sound, Instance, StartedAfterDeps, WaitIsPending

\* Nor is the state data a signal merges.
LEMMA DataIsSound ==
    ASSUME NEW i, Sound(i), NEW keys \in SUBSET DataKeys
    PROVE  LET r == [i EXCEPT !.data = @ \cup keys]
           IN  /\ Sound(r) /\ r.completed = i.completed
               /\ r.status = i.status /\ r.wait = i.wait
BY DEF Sound, Instance, StartedAfterDeps, WaitIsPending, DataKeys

\* The instance retry_step hands to execute_step is sound.
LEMMA RetriedIsSound ==
    ASSUME Sound(wf), Loaded, NEW s \in Steps, NEW reset \in BOOLEAN
    PROVE  /\ Sound(Retried(s, reset))
           /\ Retried(s, reset).completed = wf.completed
           /\ Retried(s, reset).status # "ABSENT"
           /\ NextAttempt(s, reset) \in Nat
<1> DEFINE n == NextAttempt(s, reset)
           a == [wf EXCEPT !.attempt[s] = n]
           st == IF wf.status \in {"FAILED", "PAUSED"} THEN "RUNNING" ELSE wf.status
<1>1. n \in Nat
  BY DEF NextAttempt, Sound, Instance
<1>2. Sound(a) /\ a.completed = wf.completed /\ a.status = wf.status
  BY <1>1, AttemptIsSound
<1>3. st \in Status
  BY DEF Sound, Instance, Status
<1>4. a.wait = wf.wait
  BY DEF Sound, Instance
<1>5. st \in Waiting => a.wait # NoWait /\ st = WaitingStatus(a.wait.type)
  BY <1>4 DEF Sound, WaitIsPending, Waiting
<1>6. Retried(s, reset) = [a EXCEPT !.status = st]
  BY DEF Retried, Sound, Instance
<1>7. LET r == [a EXCEPT !.status = st]
      IN  Sound(r) /\ r.completed = a.completed /\ r.status = st
  <2> HIDE DEF a, st
  <2> QED
    BY <1>2, <1>3, <1>5, StatusIsSound
<1>8. st # "ABSENT"
  BY DEF Loaded
<1> QED
  BY <1>1, <1>2, <1>6, <1>7, <1>8

----------------------------------------------------------------------------
(* The inductive invariant.                                                 *)

IInv == /\ Sound(wf) /\ Sound(disk)
        /\ acked \in SUBSET (Steps \cup {End})
        /\ AckedIsDurable

\* What every operation that ends in a checkpoint does to the completed steps.
Advances ==
    /\ Sound(wf') /\ Loaded'
    /\ \/ wf'.completed = wf.completed
       \/ \E s \in Steps : DepsMet(wf, s) /\ wf'.completed = wf.completed \cup {s}

\* execute_step keeps the instance sound and completes its own step or none.
LEMMA ExecuteAdvances ==
    ASSUME Sound(wf), Loaded, NEW i, Sound(i), i.completed = wf.completed,
           i.status # "ABSENT", NEW s \in Steps, Executable(i, s), NEW answered,
           wf' \in Results(i, s, answered)
    PROVE  Advances
<1>1. DepsMet(i, s)
  BY DEF Executable
<1>2. Sound(wf') /\ wf'.completed \in {i.completed, i.completed \cup {s}}
      /\ wf'.status # "ABSENT"
  BY <1>1, ResultsAreSound, ResultsComplete
<1>3. DepsMet(wf, s)
  BY <1>1 DEF DepsMet
<1> QED
  BY <1>2, <1>3 DEF Advances, Loaded

\* signal_event completes the waiting step, whose prerequisites are met, or none.
LEMMA SignalAdvances ==
    ASSUME Sound(wf), NEW e \in Events, NEW payload \in SUBSET Keys,
           SignalEvent(e, payload)
    PROVE  Loaded /\ Advances
<1> DEFINE m == [wf EXCEPT !.data = @ \cup payload]
<1>1. Loaded
  BY DEF SignalEvent
<1>2. Sound(m) /\ m.completed = wf.completed /\ m.status = wf.status /\ m.wait = wf.wait
  BY DataIsSound DEF DataKeys
<1>3. CASE AnswersEvent(e) \/ AwaitsHuman
  <2>1. m.wait # NoWait /\ wf' = Resolve(m)
    BY <1>2, <1>3 DEF SignalEvent, AnswersEvent, AwaitsHuman
  <2>2. /\ Sound(Resolve(m)) /\ m.wait.step \in Steps /\ DepsMet(m, m.wait.step)
        /\ Resolve(m).completed = m.completed \cup {m.wait.step}
    BY <1>2, <2>1, ResolveIsSound
  <2>3. Resolve(m).status = "RUNNING"
    BY <1>2 DEF Resolve, Sound, Instance
  <2> QED
    BY <1>1, <1>2, <2>1, <2>2, <2>3 DEF Advances, Loaded, DepsMet
<1>4. CASE ~(AnswersEvent(e) \/ AwaitsHuman)
  BY <1>1, <1>2, <1>4 DEF SignalEvent, Advances, Loaded
<1> QED
  BY <1>3, <1>4

\* So does trigger_timer.
LEMMA TimerAdvances ==
    ASSUME Sound(wf), TriggerTimer
    PROVE  Loaded /\ Advances
<1>1. /\ Sound(Resolve(wf)) /\ wf.wait.step \in Steps /\ DepsMet(wf, wf.wait.step)
      /\ Resolve(wf).completed = wf.completed \cup {wf.wait.step}
  BY ResolveIsSound DEF TriggerTimer
<1>2. Resolve(wf).status = "RUNNING"
  BY DEF Resolve, Sound, Instance
<1> QED
  BY <1>1, <1>2 DEF TriggerTimer, Advances, Loaded

\* pause, resume, complete, fail and cancel.
LEMMA StatusAdvances ==
    ASSUME Sound(wf),
           Pause \/ Resume \/ \E status \in Terminal : Finish(status)
    PROVE  Loaded /\ Advances
<1>1. CASE Pause
  BY <1>1, StatusIsSound DEF Pause, Advances, Loaded, Status, Waiting
<1>2. CASE Resume
  <2>1. CASE wf.wait = NoWait
    BY <1>2, <2>1, StatusIsSound DEF Resume, Advances, Loaded, Status, Waiting
  <2>2. CASE wf.wait # NoWait
    <3>1. wf.wait.type \in WaitTypes
      BY <2>2 DEF Sound, Instance, WaitCondition
    <3>2. WaitingStatus(wf.wait.type) \in Waiting
      BY <3>1, WaitingStatusType
    <3>3. WaitingStatus(wf.wait.type) \in Status \ {"ABSENT"}
      BY <3>2 DEF Status, Waiting
    <3> QED
      BY <1>2, <2>2, <3>3, StatusIsSound DEF Resume, Advances, Loaded
  <2> QED
    BY <2>1, <2>2
<1>3. CASE \E status \in Terminal : Finish(status)
  <2>1. PICK status \in Terminal : Finish(status)
    BY <1>3
  <2>2. status \in Status \ Waiting /\ status # "ABSENT"
    BY DEF Terminal, Status, Waiting
  <2>3. LET r == [wf EXCEPT !.status = status]
        IN  Sound(r) /\ r.completed = wf.completed /\ r.status = status
    BY <2>2, StatusIsSound
  <2> QED
    BY <2>1, <2>2, <2>3 DEF Finish, Advances, Loaded
<1> QED
  BY <1>1, <1>2, <1>3

\* An operation that advances and ends with a checkpoint, written or failed.
LEMMA PersistKeepsInv ==
    ASSUME IInv, Loaded, Advances, Persist
    PROVE  IInv'
<1>1. wf.completed \subseteq wf'.completed /\ wf'.completed \subseteq Steps
  BY DEF Advances, IInv, Sound, Instance
<1>2. CASE Saved
  BY <1>1, <1>2 DEF Saved, Reported, Known, IInv, Advances, AckedIsDurable, Sound, Loaded
<1>3. CASE SaveFails
  BY <1>1, <1>3 DEF SaveFails, Known, IInv, Advances, AckedIsDurable, Sound, Loaded
<1> QED
  BY <1>2, <1>3 DEF Persist

\* An operation that raises: the completed steps stay, the file is not touched.
LEMMA RaiseKeepsInv ==
    ASSUME IInv, Loaded, Sound(wf'), wf'.status # "ABSENT",
           wf'.completed = wf.completed, UNCHANGED <<disk, acked>>
    PROVE  IInv'
BY DEF IInv, AckedIsDurable, Loaded, Sound

\* A step call that reaches its checkpoint advances the workflow; one that raises
\* before it leaves the completed steps and the file alone.
LEMMA StepCallCases ==
    ASSUME IInv, NEW s \in Steps, NEW answered \in BOOLEAN, NEW reset \in BOOLEAN,
           \/ ExecuteStep(s, answered)
           \/ ExecutorRaises(s)
           \/ RetryStep(s, reset, answered)
           \/ RetryRefused(s, reset)
    PROVE  /\ Loaded
           /\ \/ Advances /\ Persist
              \/ /\ Sound(wf') /\ wf'.status # "ABSENT"
                 /\ wf'.completed = wf.completed /\ UNCHANGED <<disk, acked>>
<1> USE DEF IInv
<1>1. CASE ExecuteStep(s, answered)
  <2>1. Loaded
    BY <1>1 DEF ExecuteStep, Executable, Loaded, Waiting
  <2>2. Advances
    BY <1>1, <2>1, ExecuteAdvances DEF ExecuteStep, Loaded
  <2> QED
    BY <1>1, <2>1, <2>2 DEF ExecuteStep
<1>2. CASE ExecutorRaises(s)
  <2>1. Loaded /\ DepsMet(wf, s)
    BY <1>2 DEF ExecutorRaises, Executable, Loaded, Waiting
  <2>2. /\ Sound(Begin(wf, s)) /\ Begin(wf, s).completed = wf.completed
        /\ Begin(wf, s).status = wf.status
    BY <2>1, BeginIsSound
  <2> QED
    BY <1>2, <2>1, <2>2 DEF ExecutorRaises, Loaded
<1>3. CASE RetryStep(s, reset, answered)
  <2>1. Loaded
    BY <1>3 DEF RetryStep
  <2>2. /\ Sound(Retried(s, reset)) /\ Retried(s, reset).completed = wf.completed
        /\ Retried(s, reset).status # "ABSENT"
    BY <2>1, RetriedIsSound
  <2>3. Advances
    BY <1>3, <2>1, <2>2, ExecuteAdvances DEF RetryStep
  <2> QED
    BY <1>3, <2>1, <2>3 DEF RetryStep
<1>4. CASE RetryRefused(s, reset)
  <2>1. Loaded
    BY <1>4 DEF RetryRefused
  <2>2. /\ Sound(Retried(s, reset)) /\ Retried(s, reset).completed = wf.completed
        /\ Retried(s, reset).status # "ABSENT" /\ NextAttempt(s, reset) \in Nat
    BY <2>1, RetriedIsSound
  <2>3. CASE wf' = [wf EXCEPT !.attempt[s] = NextAttempt(s, reset)]
    BY <1>4, <2>1, <2>2, <2>3, AttemptIsSound DEF RetryRefused, Loaded
  <2>4. CASE wf' = Retried(s, reset)
    BY <1>4, <2>1, <2>2, <2>4 DEF RetryRefused
  <2>5. CASE Executable(Retried(s, reset), s) /\ wf' = Begin(Retried(s, reset), s)
    <3>1. LET b == Begin(Retried(s, reset), s)
          IN  /\ Sound(b) /\ b.completed = Retried(s, reset).completed
              /\ b.status = Retried(s, reset).status
      BY <2>2, <2>5, BeginIsSound DEF Executable
    <3> QED
      BY <1>4, <2>1, <2>2, <2>5, <3>1 DEF RetryRefused
  <2> QED
    BY <1>4, <2>3, <2>4, <2>5 DEF RetryRefused
<1> QED
  BY <1>1, <1>2, <1>3, <1>4

\* The invariant holds when the engine has no workflow and the file is absent.
THEOREM InitIsInductive == Init => IInv
<1>1. Sound(NoWorkflow)
  BY FreshIsSound DEF DataKeys, NoWorkflow, Status, Waiting
<1> QED
  BY <1>1 DEF Init, IInv, AckedIsDurable, Loaded, NoWorkflow, Fresh

\* Every operation of the engine, every failed save and every crash preserves it.
THEOREM NextIsInductive == IInv /\ [Next]_vars => IInv'
<1> SUFFICES ASSUME IInv, [Next]_vars
             PROVE  IInv'
  OBVIOUS
<1>1. CASE \E inputs \in InitialInputs : StartWorkflow(inputs)
  <2>1. PICK inputs \in InitialInputs : StartWorkflow(inputs)
    BY <1>1
  <2>2. Sound(Fresh("RUNNING", inputs)) /\ Fresh("RUNNING", inputs).status = "RUNNING"
    BY FreshIsSound DEF DataKeys, Status, Waiting, Fresh
  <2> QED
    BY <2>1, <2>2 DEF StartWorkflow, IInv, AckedIsDurable
<1>2. CASE StepCall
  <2>1. PICK s \in Steps, answered \in BOOLEAN, reset \in BOOLEAN :
           \/ ExecuteStep(s, answered)
           \/ ExecutorRaises(s)
           \/ RetryStep(s, reset, answered)
           \/ RetryRefused(s, reset)
    BY <1>2 DEF StepCall
  <2> QED
    BY <2>1, StepCallCases, PersistKeepsInv, RaiseKeepsInv
<1>3. CASE \E e \in Events, payload \in SUBSET Keys : SignalEvent(e, payload)
  BY <1>3, SignalAdvances, PersistKeepsInv DEF IInv, SignalEvent
<1>4. CASE TriggerTimer
  BY <1>4, TimerAdvances, PersistKeepsInv DEF IInv, TriggerTimer
<1>5. CASE Pause \/ Resume \/ \E status \in Terminal : Finish(status)
  <2>1. Persist
    BY <1>5 DEF Pause, Resume, Finish
  <2> QED
    BY <1>5, <2>1, StatusAdvances, PersistKeepsInv DEF IInv
<1>6. CASE SaveCheckpoint
  BY <1>6 DEF SaveCheckpoint, IInv, AckedIsDurable, Loaded, Sound
<1>7. CASE LoadCheckpoint
  BY <1>7 DEF LoadCheckpoint, IInv, AckedIsDurable, Loaded, Sound
<1>8. CASE Crash
  <2>1. Sound(NoWorkflow) /\ NoWorkflow.status = "ABSENT"
    BY FreshIsSound DEF DataKeys, NoWorkflow, Status, Waiting, Fresh
  <2> QED
    BY <1>8, <2>1 DEF Crash, IInv, AckedIsDurable, Loaded
<1>9. CASE UNCHANGED vars
  BY <1>9 DEF vars, IInv, AckedIsDurable, Loaded, Sound, StartedAfterDeps, WaitIsPending
<1> QED
  BY <1>1, <1>2, <1>3, <1>4, <1>5, <1>6, <1>7, <1>8, <1>9 DEF Next

\* The inductive invariant holds in every state of every behaviour.
THEOREM InductiveInvariant == Spec => []IInv
BY InitIsInductive, NextIsInductive, PTL DEF Spec

\* Type correctness of the engine.
THEOREM TypeCorrect == Spec => []TypeOK
<1>1. IInv => TypeOK
  BY DEF IInv, TypeOK, Sound
<1> QED
  BY <1>1, InductiveInvariant, PTL

\* For every definition, no step is begun, in memory or in the checkpoint, before
\* its prerequisites are completed, although a wait is resolved without a test.
THEOREM DependencyOrderHolds == Spec => []DependencyOrder
<1>1. IInv => DependencyOrder
  BY DEF IInv, DependencyOrder, Sound
<1> QED
  BY <1>1, InductiveInvariant, PTL

\* A workflow never waits for something that no signal or timer can resolve.
THEOREM WaitsCanBeResolved == Spec => []WaitCanBeResolved
<1>1. IInv => WaitCanBeResolved
  BY DEF IInv, WaitCanBeResolved, Sound
<1> QED
  BY <1>1, InductiveInvariant, PTL

\* A completion that was reported survives failed saves, crashes and reloads.
THEOREM ReportedWorkIsDurable == Spec => []AckedIsDurable
<1>1. IInv => AckedIsDurable
  BY DEF IInv
<1> QED
  BY <1>1, InductiveInvariant, PTL

----------------------------------------------------------------------------
(* The engine implements DurableWorkflow.                                   *)

\* An operation that ends with a checkpoint is a Complete, a Save or a stutter.
LEMMA PersistRefines ==
    ASSUME IInv, Loaded, Advances, Persist
    PROVE  [Promise!Next]_(Promise!dvars)
<1>1. Loaded' /\ disk'.completed \in {disk.completed, wf'.completed}
  BY DEF Advances, Persist, Saved, SaveFails
<1>2. ASSUME wf'.completed = wf.completed
      PROVE  [Promise!Next]_(Promise!dvars)
  <2>1. acked' \ {End} = acked \ {End}
    BY <1>2 DEF Persist, Saved, SaveFails, Reported, Known
  <2> QED
    BY <1>1, <1>2, <2>1 DEF Promise!Next, Promise!Save, Promise!dvars
<1>3. ASSUME NEW s \in Steps, DepsMet(wf, s), wf'.completed = wf.completed \cup {s}
      PROVE  Promise!Complete(s)
  <2>1. CASE AutoCheckpoint /\ Saved
    <3>1. acked' \ {End} = (acked \ {End}) \cup (wf'.completed \ wf.completed)
      BY <1>3, <2>1, EndAssumption DEF Saved, Reported, Known
    <3> QED
      BY <1>1, <1>3, <2>1, <3>1 DEF Saved, Promise!Complete, DepsMet
  <2>2. CASE ~(AutoCheckpoint /\ Saved)
    <3>1. AutoCheckpoint => disk' = disk /\ acked' \ {End} = acked \ {End}
      BY <2>2 DEF Persist, SaveFails, Known
    <3>2. ~ AutoCheckpoint => disk' = disk
      BY DEF Persist, Saved, SaveFails
    <3> QED
      BY <1>1, <1>3, <3>1, <3>2 DEF Promise!Complete, DepsMet
  <2> QED
    BY <2>1, <2>2
<1> QED
  BY <1>2, <1>3 DEF Advances, Promise!Next

\* The engine without a workflow is DurableWorkflow's initial state.
THEOREM InitRefines == Init => Promise!Init
BY DEF Init, Promise!Init, Loaded, NoWorkflow, Fresh

\* Every step of the engine is a step of DurableWorkflow or leaves it unchanged.
THEOREM StepRefines == IInv /\ [Next]_vars => [Promise!Next]_(Promise!dvars)
<1> SUFFICES ASSUME IInv, [Next]_vars
             PROVE  [Promise!Next]_(Promise!dvars)
  OBVIOUS
<1>1. CASE \E inputs \in InitialInputs : StartWorkflow(inputs)
  <2>1. PICK inputs \in InitialInputs : StartWorkflow(inputs)
    BY <1>1
  <2>2. Fresh("RUNNING", inputs).completed = {} /\ Fresh("RUNNING", inputs).status = "RUNNING"
    BY DEF Fresh
  <2>3. Promise!Begin
    BY <2>1, <2>2 DEF StartWorkflow, Loaded, Promise!Begin
  <2> QED
    BY <2>3 DEF Promise!Next
<1>2. CASE StepCall
  <2>1. PICK s \in Steps, answered \in BOOLEAN, reset \in BOOLEAN :
           \/ ExecuteStep(s, answered)
           \/ ExecutorRaises(s)
           \/ RetryStep(s, reset, answered)
           \/ RetryRefused(s, reset)
    BY <1>2 DEF StepCall
  <2>2. CASE Loaded /\ Advances /\ Persist
    BY <2>2, PersistRefines
  <2>3. CASE /\ Loaded /\ wf'.status # "ABSENT" /\ wf'.completed = wf.completed
             /\ UNCHANGED <<disk, acked>>
    BY <2>3 DEF Promise!dvars, Loaded
  <2> QED
    BY <2>1, <2>2, <2>3, StepCallCases
<1>3. CASE \E e \in Events, payload \in SUBSET Keys : SignalEvent(e, payload)
  BY <1>3, SignalAdvances, PersistRefines DEF IInv, SignalEvent
<1>4. CASE TriggerTimer
  BY <1>4, TimerAdvances, PersistRefines DEF IInv, TriggerTimer
<1>5. CASE Pause \/ Resume \/ \E status \in Terminal : Finish(status)
  <2>1. Persist
    BY <1>5 DEF Pause, Resume, Finish
  <2> QED
    BY <1>5, <2>1, StatusAdvances, PersistRefines DEF IInv
<1>6. CASE SaveCheckpoint
  BY <1>6 DEF SaveCheckpoint, Promise!Next, Promise!Save, Loaded
<1>7. CASE LoadCheckpoint
  BY <1>7 DEF LoadCheckpoint, Promise!Next, Promise!Reload, Loaded
<1>8. CASE Crash
  BY <1>8 DEF Crash, NoWorkflow, Fresh, Promise!Next, Promise!Crash, Loaded
<1>9. CASE UNCHANGED vars
  BY <1>9 DEF vars, Promise!dvars, Loaded
<1> QED
  BY <1>1, <1>2, <1>3, <1>4, <1>5, <1>6, <1>7, <1>8, <1>9 DEF Next

\* Every behaviour of the engine is, on its completed and durable steps, a
\* behaviour of DurableWorkflow.
THEOREM EngineImplementsPromise == Spec => Implements
BY InitRefines, StepRefines, InductiveInvariant, PTL DEF Spec, Implements, Promise!Spec

----------------------------------------------------------------------------
(* No human step is completed without its fields or an answer.              *)

\* A pending wait of a human step is the one its HumanExecutor returned, so no
\* event and no timer resolves it, and its required fields are the step's.
WaitIsItsOwn(i) ==
    i.wait # NoWait /\ i.wait.step \in HumanSteps => i.wait = HumanWait(i.wait.step)

HumansDecide(i) == Answered(i) /\ WaitIsItsOwn(i)

AnsweredInv == HumansDecide(wf) /\ HumansDecide(disk)

\* The state data only grows while a workflow is in memory, so an answer that was
\* given stays given: only the steps newly completed and a new wait are looked at.
LEMMA AnswersAreKept ==
    ASSUME NEW i, NEW r, HumansDecide(i), i.data \subseteq r.data,
           r.wait \in {i.wait, NoWait} \/ WaitIsItsOwn(r),
           \A s \in (HumanSteps \cap r.completed) \ i.completed :
               Required[s] \subseteq r.data \/ s \in r.data
    PROVE  HumansDecide(r)
<1>1. Answered(r)
  BY DEF HumansDecide, Answered
<1>2. WaitIsItsOwn(r)
  BY DEF HumansDecide, WaitIsItsOwn
<1> QED
  BY <1>1, <1>2 DEF HumansDecide

\* A success adds the step's output to the data, a human one under its name.
LEMMA SucceedIsAnswered ==
    ASSUME NEW i, Sound(i), HumansDecide(i), NEW s \in Steps, DepsMet(i, s),
           NEW keys, s \in HumanSteps => s \in keys
    PROVE  HumansDecide(Succeed(i, s, keys))
<1> DEFINE r == Succeed(i, s, keys)
<1>1. /\ Sound(Begin(i, s)) /\ Begin(i, s).completed = i.completed
      /\ Begin(i, s).data = i.data
  BY BeginIsSound
<1>2. /\ r.completed = i.completed \cup {s} /\ r.wait = NoWait
      /\ r.data = i.data \cup keys
  BY <1>1 DEF Sound, Succeed, Instance
<1>3. s \in HumanSteps => s \in r.data
  BY <1>2
<1>4. HumansDecide(r)
  <2> HIDE DEF r
  <2> QED
    BY <1>2, <1>3, AnswersAreKept
<1> QED
  BY <1>4

\* A step that suspends changes neither the data nor what is completed.
LEMMA SuspendIsAnswered ==
    ASSUME NEW i, Sound(i), HumansDecide(i), NEW s \in Steps, DepsMet(i, s),
           NEW w \in WaitCondition, w.step = s, s \in HumanSteps => w = HumanWait(s)
    PROVE  HumansDecide(Suspend(i, s, w))
<1> DEFINE r == Suspend(i, s, w)
<1>1. /\ Sound(Begin(i, s)) /\ Begin(i, s).completed = i.completed
      /\ Begin(i, s).data = i.data
  BY BeginIsSound
<1>2. r.completed = i.completed /\ r.wait = w /\ r.data = i.data
  BY <1>1 DEF Sound, Suspend, Instance
<1>3. WaitIsItsOwn(r)
  BY <1>2 DEF WaitIsItsOwn
<1>4. HumansDecide(r)
  <2> HIDE DEF r
  <2> QED
    BY <1>2, <1>3, AnswersAreKept
<1> QED
  BY <1>4

\* Nor does a step that fails, which also leaves the pending wait.
LEMMA FailIsAnswered ==
    ASSUME NEW i, Sound(i), HumansDecide(i), NEW s \in Steps, DepsMet(i, s)
    PROVE  HumansDecide(FailStep(i, s)) /\ HumansDecide(Begin(i, s))
<1> DEFINE b == Begin(i, s)
           r == FailStep(i, s)
<1>1. /\ Sound(b) /\ b.completed = i.completed
      /\ b.data = i.data /\ b.wait = i.wait
  BY BeginIsSound
<1>2. r.completed = i.completed /\ r.wait = i.wait /\ r.data = i.data
  BY <1>1 DEF Sound, FailStep, Instance
<1>3. HumansDecide(r) /\ HumansDecide(b)
  <2> HIDE DEF b, r
  <2> QED
    BY <1>1, <1>2, AnswersAreKept
<1> QED
  BY <1>3

\* Whatever an executor returns, its step is completed with an output of its own
\* when it is a human one.
LEMMA ResultsAreAnswered ==
    ASSUME NEW i, Sound(i), HumansDecide(i), NEW s \in Steps, DepsMet(i, s),
           NEW answered, NEW r \in Results(i, s, answered)
    PROVE  HumansDecide(r)
<1>1. CASE s \in HumanSteps
  <2>1. r = Succeed(i, s, HumanOutput \cup {s}) \/ r = Suspend(i, s, HumanWait(s))
    BY <1>1 DEF Results, HumanResults
  <2> QED
    BY <2>1, SucceedIsAnswered, SuspendIsAnswered, HumanWaitType
<1>2. CASE s \notin HumanSteps
  <2>1. \/ \E keys \in SUBSET Emits[s] : r = Succeed(i, s, keys)
        \/ r = FailStep(i, s)
        \/ \E w \in CustomWaits[s] : r = Suspend(i, s, w)
    BY <1>2 DEF Results, CustomResults
  <2>2. \A w \in CustomWaits[s] : w \in WaitCondition /\ w.step = s
    OBVIOUS
  <2> QED
    BY <1>2, <2>1, <2>2, SucceedIsAnswered, SuspendIsAnswered, FailIsAnswered
<1> QED
  BY <1>1, <1>2

\* The instance retry_step executes has the same data, wait and completed steps.
LEMMA RetriedIsAnswered ==
    ASSUME Sound(wf), HumansDecide(wf), NEW s \in Steps, NEW reset \in BOOLEAN
    PROVE  HumansDecide(Retried(s, reset))
<1> DEFINE r == Retried(s, reset)
<1>1. r.completed = wf.completed /\ r.wait = wf.wait /\ r.data = wf.data
  BY DEF Retried, Sound, Instance
<1>2. HumansDecide(r)
  <2> HIDE DEF r
  <2> QED
    BY <1>1, AnswersAreKept
<1> QED
  BY <1>2

\* A human step's wait is resolved by a signal that carries its required fields,
\* and by nothing else: an event or a timer resolves waits of other steps.
LEMMA ResolveIsAnswered ==
    ASSUME NEW i, Sound(i), HumansDecide(i), i.wait # NoWait,
           i.wait.step \in HumanSteps /\ i.wait.type = "HUMAN" =>
               i.wait.required \subseteq i.data,
           i.wait.step \in HumanSteps => i.wait.type = "HUMAN"
    PROVE  HumansDecide(Resolve(i))
<1> DEFINE s == i.wait.step
           r == Resolve(i)
<1>1. r.completed = i.completed \cup {s} /\ r.wait = NoWait /\ r.data = i.data
  BY DEF Sound, Resolve, Instance
<1>2. s \in HumanSteps => Required[s] \subseteq i.data
  BY DEF HumansDecide, WaitIsItsOwn, HumanWait
<1>3. s \in HumanSteps => Required[s] \subseteq r.data
  BY <1>1, <1>2
<1>4. HumansDecide(r)
  <2> HIDE DEF r
  <2> QED
    BY <1>1, <1>3, AnswersAreKept
<1> QED
  BY <1>4

\* signal_event checks the required fields of the human wait it resolves.
LEMMA SignalIsAnswered ==
    ASSUME Sound(wf), HumansDecide(wf), NEW e \in Events,
           NEW payload \in SUBSET Keys, SignalEvent(e, payload)
    PROVE  HumansDecide(wf')
<1> DEFINE m == [wf EXCEPT !.data = @ \cup payload]
<1>1. /\ Sound(m) /\ m.completed = wf.completed
      /\ m.status = wf.status /\ m.wait = wf.wait
  BY DataIsSound DEF DataKeys
<1>2. m.data = wf.data \cup payload
  BY DEF Sound, Instance
<1>3. HumansDecide(m)
  <2> HIDE DEF m
  <2> QED
    BY <1>1, <1>2, AnswersAreKept
<1>4. CASE AnswersEvent(e)
  <2>1. m.wait # NoWait /\ wf' = Resolve(m)
    BY <1>1, <1>4 DEF SignalEvent, AnswersEvent
  <2>2. m.wait.type = "EVENT"
    BY <1>1, <1>4 DEF Sound, Instance, WaitIsPending, AnswersEvent, WaitingStatus,
                      WaitCondition, WaitTypes, Waiting
  <2>3. m.wait.step \notin HumanSteps
    BY <1>3, <2>1, <2>2 DEF HumansDecide, WaitIsItsOwn, HumanWait
  <2> QED
    BY <1>1, <1>3, <2>1, <2>3, ResolveIsAnswered
<1>5. CASE AwaitsHuman
  <2>1. m.wait # NoWait /\ wf' = Resolve(m)
    BY <1>1, <1>5 DEF SignalEvent, AwaitsHuman
  <2>2. m.wait.type = "HUMAN"
    BY <1>1, <1>5 DEF Sound, Instance, WaitIsPending, AwaitsHuman, WaitingStatus,
                      WaitCondition, WaitTypes, Waiting
  <2>3. m.wait.required \subseteq m.data
    BY <1>1, <1>2, <1>5 DEF SignalEvent
  <2> QED
    BY <1>1, <1>3, <2>1, <2>2, <2>3, ResolveIsAnswered
<1>6. CASE ~(AnswersEvent(e) \/ AwaitsHuman)
  BY <1>3, <1>6 DEF SignalEvent
<1> QED
  BY <1>4, <1>5, <1>6

\* A timer resolves no wait of a human step.
LEMMA TimerIsAnswered ==
    ASSUME Sound(wf), HumansDecide(wf), TriggerTimer
    PROVE  HumansDecide(wf')
<1>1. wf.wait.type = "TIMER"
  BY DEF TriggerTimer, Sound, Instance, WaitIsPending, WaitingStatus, WaitCondition,
         WaitTypes, Waiting
<1>2. wf.wait.step \notin HumanSteps
  BY <1>1 DEF TriggerTimer, HumansDecide, WaitIsItsOwn, HumanWait
<1> QED
  BY <1>2, ResolveIsAnswered DEF TriggerTimer

\* A new instance has completed nothing and waits for nothing.
LEMMA FreshIsAnswered ==
    ASSUME NEW status, NEW data
    PROVE  HumansDecide(Fresh(status, data))
BY DEF Fresh, HumansDecide, Answered, WaitIsItsOwn

\* Every operation writes to the file the instance it leaves in memory, or nothing.
LEMMA FileIsOldOrNew == [Next]_vars => disk' \in {disk, wf'}
BY DEF Next, vars, StartWorkflow, StepCall, ExecuteStep, ExecutorRaises, RetryStep,
       RetryRefused, SignalEvent, TriggerTimer, Pause, Resume, Finish, SaveCheckpoint,
       LoadCheckpoint, Crash, Persist, Saved, SaveFails

\* Every way a step call ends leaves the human steps answered.
LEMMA StepCallIsAnswered ==
    ASSUME IInv, AnsweredInv, NEW s \in Steps, NEW answered \in BOOLEAN,
           NEW reset \in BOOLEAN,
           \/ ExecuteStep(s, answered)
           \/ ExecutorRaises(s)
           \/ RetryStep(s, reset, answered)
           \/ RetryRefused(s, reset)
    PROVE  HumansDecide(wf')
<1> USE DEF IInv, AnsweredInv
<1>1. CASE ExecuteStep(s, answered)
  BY <1>1, ResultsAreAnswered DEF ExecuteStep, Executable
<1>2. CASE ExecutorRaises(s)
  BY <1>2, FailIsAnswered DEF ExecutorRaises, Executable
<1>3. ASSUME Loaded
      PROVE  HumansDecide(Retried(s, reset)) /\ Sound(Retried(s, reset))
  BY <1>3, RetriedIsAnswered, RetriedIsSound
<1>4. CASE RetryStep(s, reset, answered)
  BY <1>3, <1>4, ResultsAreAnswered DEF RetryStep, Executable
<1>5. CASE RetryRefused(s, reset)
  <2>1. CASE wf' = [wf EXCEPT !.attempt[s] = NextAttempt(s, reset)]
    <3>1. wf'.completed = wf.completed /\ wf'.wait = wf.wait /\ wf'.data = wf.data
      BY <2>1 DEF Sound, Instance
    <3> QED
      BY <3>1, AnswersAreKept
  <2>2. CASE wf' = Retried(s, reset)
    BY <1>3, <1>5, <2>2 DEF RetryRefused
  <2>3. CASE Executable(Retried(s, reset), s) /\ wf' = Begin(Retried(s, reset), s)
    BY <1>3, <1>5, <2>3, FailIsAnswered DEF RetryRefused, Executable
  <2> QED
    BY <1>5, <2>1, <2>2, <2>3 DEF RetryRefused
<1> QED
  BY <1>1, <1>2, <1>4, <1>5

\* Every operation preserves it, in memory and in the file.
THEOREM AnsweredIsInductive ==
    IInv /\ AnsweredInv /\ [Next]_vars => AnsweredInv'
<1> SUFFICES ASSUME IInv, AnsweredInv, [Next]_vars
             PROVE  HumansDecide(wf')
  BY FileIsOldOrNew DEF AnsweredInv, HumansDecide, Answered, WaitIsItsOwn
<1> USE DEF IInv, AnsweredInv
<1>1. CASE \E inputs \in InitialInputs : StartWorkflow(inputs)
  BY <1>1, FreshIsAnswered DEF StartWorkflow
<1>2. CASE StepCall
  <2>1. PICK s \in Steps, answered \in BOOLEAN, reset \in BOOLEAN :
           \/ ExecuteStep(s, answered)
           \/ ExecutorRaises(s)
           \/ RetryStep(s, reset, answered)
           \/ RetryRefused(s, reset)
    BY <1>2 DEF StepCall
  <2> QED
    BY <2>1, StepCallIsAnswered
<1>3. CASE \E e \in Events, payload \in SUBSET Keys : SignalEvent(e, payload)
  BY <1>3, SignalIsAnswered
<1>4. CASE TriggerTimer
  BY <1>4, TimerIsAnswered
<1>5. CASE Pause \/ Resume \/ \E status \in Terminal : Finish(status)
  <2>1. wf'.completed = wf.completed /\ wf'.wait = wf.wait /\ wf'.data = wf.data
    BY <1>5 DEF Pause, Resume, Finish, Sound, Instance
  <2> QED
    BY <2>1, AnswersAreKept
<1>6. CASE SaveCheckpoint \/ LoadCheckpoint
  BY <1>6 DEF SaveCheckpoint, LoadCheckpoint
<1>7. CASE Crash
  BY <1>7, FreshIsAnswered DEF Crash, NoWorkflow
<1>8. CASE UNCHANGED vars
  BY <1>8 DEF vars
<1> QED
  BY <1>1, <1>2, <1>3, <1>4, <1>5, <1>6, <1>7, <1>8 DEF Next

\* For every definition, no human step counts as completed, in memory or in the
\* file, before every field it requires was delivered or its own executor found an
\* answer: no event, timer, incomplete signal or signal to a paused workflow
\* completes it.
THEOREM HumanStepsAnswered == Spec => []HumanStepsAreAnswered
<1>1. Init => AnsweredInv
  BY FreshIsAnswered DEF Init, NoWorkflow, AnsweredInv
<1>2. AnsweredInv => HumanStepsAreAnswered
  BY DEF AnsweredInv, HumansDecide, HumanStepsAreAnswered
<1> QED
  BY <1>1, <1>2, AnsweredIsInductive, InductiveInvariant, PTL DEF Spec

----------------------------------------------------------------------------
(* The end of a workflow.                                                   *)

\* An operation that ends with a checkpoint leaves a workflow that has ended so,
\* unless it fails it, and reports an end only with the file.
LEMMA PersistKeepsEnd ==
    ASSUME EndIsFinal, Sound(wf'), Loaded, Loaded', Persist,
           wf.status \in Ended => wf'.status \in Terminal
    PROVE  EndIsFinal'
<1> SUFFICES ASSUME AutoCheckpoint, End \in acked'
             PROVE  disk'.status \in Ended /\ wf'.status \in Ended
  BY DEF EndIsFinal
<1>1. CASE Saved
  <2>1. disk' = wf'
    BY <1>1 DEF Saved
  <2>2. wf'.status \in Ended
    <3>1. CASE wf'.status \in Ended
      BY <3>1
    <3>2. CASE wf'.status \notin Ended
      <4>1. End \notin wf'.completed \ wf.completed
        BY EndAssumption DEF Sound, Instance
      <4>2. End \in acked /\ wf'.status # "FAILED"
        BY <1>1, <3>2, <4>1 DEF Saved, Known, Reported
      <4> QED
        BY <4>2 DEF EndIsFinal, Ended, Terminal
    <3> QED
      BY <3>1, <3>2
  <2> QED
    BY <2>1, <2>2
<1>2. CASE SaveFails
  BY <1>2 DEF SaveFails, Known, EndIsFinal, Ended, Terminal
<1> QED
  BY <1>1, <1>2 DEF Persist

\* An operation that raises, or merges a payload, and leaves the status alone.
LEMMA StatusKeepsEnd ==
    ASSUME EndIsFinal, Loaded, wf'.status = wf.status, UNCHANGED <<disk, acked>>
    PROVE  EndIsFinal'
BY DEF EndIsFinal, Loaded

\* A workflow that has ended executes no step, and its retry does not revive it.
LEMMA EndedExecutesNothing ==
    ASSUME Sound(wf), wf.status \in Ended, NEW s \in Steps, NEW reset \in BOOLEAN
    PROVE  /\ ~ Executable(wf, s)
           /\ Retried(s, reset).status = wf.status
           /\ ~ Executable(Retried(s, reset), s)
BY DEF Sound, Instance, Ended, Executable, Waiting, Retried

\* Every way a step call ends keeps the end.  One that raises after a retry revived
\* a failed or paused workflow finds no end to keep.
LEMMA StepCallKeepsEnd ==
    ASSUME IInv, EndIsFinal, NEW s \in Steps, NEW answered \in BOOLEAN,
           NEW reset \in BOOLEAN,
           \/ ExecuteStep(s, answered)
           \/ ExecutorRaises(s)
           \/ RetryStep(s, reset, answered)
           \/ RetryRefused(s, reset)
    PROVE  EndIsFinal'
<1>1. Loaded /\ Loaded' /\ Sound(wf')
  BY StepCallCases DEF Advances, Loaded
<1>2. CASE wf.status \in Ended
  <2>1. RetryRefused(s, reset) /\ ~ Executable(Retried(s, reset), s)
    BY <1>2, EndedExecutesNothing DEF IInv, ExecuteStep, ExecutorRaises, RetryStep
  <2>2. wf'.status = wf.status
    <3>1. \/ wf' = [wf EXCEPT !.attempt[s] = NextAttempt(s, reset)]
          \/ wf' = Retried(s, reset)
      BY <2>1 DEF RetryRefused
    <3> QED
      BY <1>2, <3>1, EndedExecutesNothing DEF IInv, Sound, Instance
  <2> QED
    BY <1>1, <2>1, <2>2, StatusKeepsEnd DEF RetryRefused
<1>3. CASE wf.status \notin Ended
  <2>1. CASE Persist
    BY <1>1, <1>3, <2>1, PersistKeepsEnd
  <2>2. CASE UNCHANGED <<disk, acked>>
    BY <1>1, <1>3, <2>2 DEF EndIsFinal
  <2> QED
    BY <2>1, <2>2, StepCallCases
<1> QED
  BY <1>2, <1>3

\* Every operation keeps the end.
LEMMA NextKeepsEnd == IInv /\ EndIsFinal /\ [Next]_vars => EndIsFinal'
<1> SUFFICES ASSUME IInv, EndIsFinal, [Next]_vars
             PROVE  EndIsFinal'
  OBVIOUS
<1>1. CASE \E inputs \in InitialInputs : StartWorkflow(inputs)
  BY <1>1 DEF StartWorkflow, EndIsFinal
<1>2. CASE StepCall
  <2>1. PICK s \in Steps, answered \in BOOLEAN, reset \in BOOLEAN :
           \/ ExecuteStep(s, answered)
           \/ ExecutorRaises(s)
           \/ RetryStep(s, reset, answered)
           \/ RetryRefused(s, reset)
    BY <1>2 DEF StepCall
  <2> QED
    BY <2>1, StepCallKeepsEnd
<1>3. CASE \E e \in Events, payload \in SUBSET Keys : SignalEvent(e, payload)
  <2>1. PICK e \in Events, payload \in SUBSET Keys : SignalEvent(e, payload)
    BY <1>3
  <2>2. Loaded /\ Loaded' /\ Persist /\ Sound(wf')
    BY <2>1, SignalAdvances DEF IInv, SignalEvent, Advances
  <2>3. ASSUME wf.status \in Ended
        PROVE  wf'.status = wf.status
    <3>1. ~ AnswersEvent(e) /\ ~ AwaitsHuman
      BY <2>3 DEF AnswersEvent, AwaitsHuman, Ended
    <3>2. wf' = [wf EXCEPT !.data = @ \cup payload]
      BY <2>1, <3>1 DEF SignalEvent
    <3> QED
      BY <3>2 DEF IInv, Sound, Instance
  <2> QED
    BY <2>2, <2>3, PersistKeepsEnd DEF Ended, Terminal
<1>4. CASE TriggerTimer
  <2>1. Loaded /\ Loaded' /\ Persist /\ Sound(wf') /\ wf.status \notin Ended
    BY <1>4, TimerAdvances DEF IInv, TriggerTimer, Advances, Ended
  <2> QED
    BY <2>1, PersistKeepsEnd
<1>5. CASE Pause \/ Resume \/ \E status \in Terminal : Finish(status)
  <2>1. Loaded /\ Loaded' /\ Persist /\ Sound(wf')
    BY <1>5, StatusAdvances DEF IInv, Pause, Resume, Finish, Advances
  <2>2. wf.status \in Ended => wf'.status \in Terminal
    BY <1>5 DEF Pause, Resume, Finish, Ended, Terminal, IInv, Sound, Instance
  <2> QED
    BY <2>1, <2>2, PersistKeepsEnd
<1>6. CASE SaveCheckpoint \/ LoadCheckpoint
  BY <1>6 DEF SaveCheckpoint, LoadCheckpoint, EndIsFinal, Loaded
<1>7. CASE Crash
  BY <1>7 DEF Crash, NoWorkflow, Fresh, EndIsFinal, Loaded
<1>8. CASE UNCHANGED vars
  BY <1>8 DEF vars, EndIsFinal, Loaded
<1> QED
  BY <1>1, <1>2, <1>3, <1>4, <1>5, <1>6, <1>7, <1>8 DEF Next

\* With automatic checkpoints, a workflow that a caller was told is completed or
\* canceled is never run again, for every definition: neither signals, timers and
\* retries nor crashes, failed saves and reloads bring it back.
THEOREM EndStaysFinal == Spec => []EndIsFinal
<1>1. Init => EndIsFinal
  BY DEF Init, EndIsFinal
<1> QED
  BY <1>1, NextKeepsEnd, InductiveInvariant, PTL DEF Spec

----------------------------------------------------------------------------
(* The driver.                                                              *)

\* The driver and the operator only call the engine's operations.
LEMMA DriverStepIsEngineStep == [DriverNext]_allvars => [Next]_vars
<1> SUFFICES ASSUME [DriverNext]_allvars
             PROVE  [Next]_vars
  OBVIOUS
<1>1. CASE Call
  BY <1>1 DEF Call, vars
<1>2. CASE Loop
  BY <1>2 DEF Loop, Next, Terminal, vars
<1>3. ASSUME NEW s \in Steps, RunHead(s) \/ HeadUnsaved(s)
      PROVE  Next
  <2>1. ExecuteStep(s, FALSE)
    BY <1>3 DEF RunHead, HeadUnsaved, ExecuteStep, Persist
  <2> QED
    BY <2>1 DEF Next, StepCall
<1>4. ASSUME NEW s \in Steps, HeadRaises(s)
      PROVE  Next
  BY <1>4 DEF HeadRaises, Next, StepCall
<1>5. ASSUME NEW s \in Steps, CrashInExecutor(s)
      PROVE  Next
  BY <1>5 DEF CrashInExecutor, Next
<1>6. ASSUME NEW s \in Steps, OperatorRetry(s)
      PROVE  Next
  <2>1. \E reset \in BOOLEAN : RetryStep(s, reset, FALSE) \/ RetryRefused(s, reset)
    BY <1>6 DEF OperatorRetry
  <2> QED
    BY <2>1 DEF Next, StepCall
<1>7. CASE Start \/ Answer \/ Recover
  BY <1>7 DEF Start, Answer, Recover, Quiet, Next
<1>8. CASE OperatorPause \/ OperatorResume \/ OperatorCrash
  BY <1>8 DEF OperatorPause, OperatorResume, OperatorCrash, Quiet, Next
<1>9. CASE UNCHANGED allvars
  BY <1>9 DEF allvars, vars
<1> QED
  BY <1>1, <1>2, <1>3, <1>4, <1>5, <1>6, <1>7, <1>8, <1>9 DEF DriverNext, DriverStep

\* Every behaviour of the driver is one of the engine, so the engine's invariants
\* and its promise hold under the driver.
THEOREM DriverRefinesEngine == DriverSpec => Spec
<1>1. DriverInit => Init
  BY DEF DriverInit
<1> QED
  BY <1>1, DriverStepIsEngineStep, PTL DEF DriverSpec, Spec

\* A completion reported to the operator survives the crashes and the failed saves
\* of a driven workflow.
THEOREM DriverReportedWorkIsDurable == DriverSpec => []AckedIsDurable
BY DriverRefinesEngine, ReportedWorkIsDurable, PTL

\* Under the driver the engine keeps the promise of DurableWorkflow.
THEOREM DriverImplementsPromise == DriverSpec => Implements
BY DriverRefinesEngine, EngineImplementsPromise, PTL

----------------------------------------------------------------------------
(* The snapshot.                                                            *)

\* What is left of the snapshot can be executed, while the workflow is RUNNING.
BatchInv ==
    driver = "batch" =>
        /\ wf.status = "RUNNING"
        /\ todo # {}
        /\ todo \subseteq Steps \ wf.completed
        /\ \A s \in todo : DepsMet(wf, s)

\* Executing one step of the batch completes no other, and takes no prerequisite
\* from those that are left.
LEMMA RunHeadKeepsBatch ==
    ASSUME IInv, BatchInv, NEW s \in Steps, RunHead(s)
    PROVE  BatchInv'
<1>1. DepsMet(wf, s)
  BY DEF RunHead, Executable
<1>2. wf'.completed \in {wf.completed, wf.completed \cup {s}}
  BY <1>1, ResultsComplete DEF RunHead, IInv
<1> SUFFICES ASSUME driver' = "batch"
             PROVE  BatchInv'
  BY DEF BatchInv
<1>3. wf'.status = "RUNNING" /\ todo # {s} /\ s \in todo /\ todo' = todo \ {s}
  BY DEF RunHead, IsHead
<1> QED
  BY <1>2, <1>3 DEF BatchInv, RunHead, DepsMet

\* Only the driver touches the workflow between the snapshot and its last step.
LEMMA NextKeepsBatch == IInv /\ BatchInv /\ [DriverNext]_allvars => BatchInv'
<1> SUFFICES ASSUME IInv, BatchInv, [DriverNext]_allvars
             PROVE  BatchInv'
  OBVIOUS
<1>1. CASE Call
  BY <1>1 DEF Call, BatchInv
<1>2. CASE Loop
  BY <1>2 DEF Loop, ReadySteps, BatchInv
<1>3. ASSUME NEW s \in Steps, RunHead(s)
      PROVE  BatchInv'
  BY <1>3, RunHeadKeepsBatch
<1>4. ASSUME NEW s \in Steps, HeadUnsaved(s) \/ HeadRaises(s) \/ CrashInExecutor(s)
      PROVE  BatchInv'
  BY <1>4 DEF HeadUnsaved, HeadRaises, CrashInExecutor, BatchInv
<1>5. ASSUME NEW s \in Steps, OperatorRetry(s)
      PROVE  BatchInv'
  BY <1>5 DEF OperatorRetry, BatchInv
<1>6. CASE \/ Start \/ Answer \/ Recover
           \/ OperatorPause \/ OperatorResume \/ OperatorCrash
  <2>1. driver' = "idle"
    BY <1>6 DEF Start, Answer, Recover, OperatorPause, OperatorResume, OperatorCrash,
                Quiet, dvars
  <2> QED
    BY <2>1 DEF BatchInv
<1>7. CASE UNCHANGED allvars
  BY <1>7 DEF allvars, BatchInv, DepsMet
<1> QED
  BY <1>1, <1>2, <1>3, <1>4, <1>5, <1>6, <1>7 DEF DriverNext, DriverStep

\* For every definition, execute_step accepts every step of the snapshot when the
\* for loop reaches it, and none of them has been completed meanwhile.
THEOREM SnapshotIsNeverStale == DriverSpec => []SnapshotStaysReady
<1>1. DriverInit => BatchInv
  BY DEF DriverInit, BatchInv
<1>2. BatchInv => SnapshotStaysReady
  BY DEF BatchInv, SnapshotStaysReady, Executable
<1>3. DriverSpec => []IInv
  BY DriverRefinesEngine, InductiveInvariant, PTL
<1> QED
  BY <1>1, <1>2, <1>3, NextKeepsBatch, PTL DEF DriverSpec

----------------------------------------------------------------------------
(* The executions.                                                          *)

\* The record of an execution that succeeded or suspended.
Recorded(i, s) == i.record[s] \in {"WAITING", "COMPLETED"}

\* What is true of an instance that only the driver executes: a record says
\* COMPLETED or WAITING of a step that is completed or that the workflow waits
\* for, and a workflow that waits is not RUNNING, so its steps are not repeated.
Driven(i) ==
    /\ \A s \in Steps :
          /\ i.record[s] = "COMPLETED" => s \in i.completed
          /\ i.record[s] = "WAITING" => i.wait # NoWait /\ i.wait.step = s
          /\ i.status = "ABSENT" => ~Recorded(i, s)
    /\ i.status = "RUNNING" => i.wait = NoWait

\* The executions beyond those lost are the one whose record is in the file, and a
\* record that is in the file is in memory while the engine is up.
Accounted ==
    /\ effects \in [Steps -> Nat] /\ lost \in [Steps -> Nat]
    /\ \A s \in Steps :
          /\ effects[s] <= lost[s] + (IF Recorded(disk, s) THEN 1 ELSE 0)
          /\ Loaded => (Recorded(disk, s) => Recorded(wf, s))
    /\ Driven(wf) /\ Driven(disk)
    /\ driver # "idle" => Loaded

EffectsInv == AutoCheckpoint => Accounted

\* Executing a step of a RUNNING workflow writes that step's record only.
LEMMA ResultsAreDriven ==
    ASSUME NEW i, Sound(i), Driven(i), i.status = "RUNNING", NEW s \in Steps,
           DepsMet(i, s), NEW r \in Results(i, s, FALSE)
    PROVE  /\ Driven(r)
           /\ r.status # "ABSENT"
           /\ r.record[s] \in {"COMPLETED", "WAITING", "FAILED"}
           /\ r.record = [i.record EXCEPT ![s] = r.record[s]]
<1> DEFINE b == Begin(i, s)
<1>1. /\ Sound(b) /\ b.completed = i.completed /\ b.status = i.status
      /\ b.wait = i.wait /\ b.record = [i.record EXCEPT ![s] = "RUNNING"]
  <2>1. b.record = [i.record EXCEPT ![s] = "RUNNING"]
    BY DEF Begin, Sound, Instance
  <2> QED
    BY <2>1, BeginIsSound
<1>2. i.record \in [Steps -> RecordStatus] /\ i.wait = NoWait
  BY DEF Sound, Instance, Driven
<1>3. \A t \in Steps : i.record[t] # "WAITING"
  BY <1>2 DEF Driven
<1>4. ASSUME NEW keys, r = Succeed(i, s, keys)
      PROVE  /\ Driven(r) /\ r.status # "ABSENT"
             /\ r.record = [i.record EXCEPT ![s] = "COMPLETED"]
  <2>1. /\ r.completed = i.completed \cup {s} /\ r.wait = NoWait
        /\ r.status \in {"COMPLETED", "RUNNING"}
        /\ r.record = [b.record EXCEPT ![s] = "COMPLETED"]
    BY <1>1, <1>4 DEF Succeed, Sound, Instance
  <2> HIDE DEF b
  <2> QED
    BY <1>1, <1>2, <1>3, <2>1 DEF Driven, Recorded
<1>5. ASSUME r = FailStep(i, s)
      PROVE  /\ Driven(r) /\ r.status # "ABSENT"
             /\ r.record = [i.record EXCEPT ![s] = "FAILED"]
  <2>1. /\ r.completed = i.completed /\ r.wait = i.wait /\ r.status = i.status
        /\ r.record = [b.record EXCEPT ![s] = "FAILED"]
    BY <1>1, <1>5 DEF FailStep, Sound, Instance
  <2> HIDE DEF b
  <2> QED
    BY <1>1, <1>2, <1>3, <2>1 DEF Driven, Recorded
<1>6. ASSUME NEW w \in WaitCondition, w.step = s, r = Suspend(i, s, w)
      PROVE  /\ Driven(r) /\ r.status # "ABSENT"
             /\ r.record = [i.record EXCEPT ![s] = "WAITING"]
  <2>1. /\ r.completed = i.completed /\ r.wait = w
        /\ r.status = WaitingStatus(w.type)
        /\ r.record = [b.record EXCEPT ![s] = "WAITING"]
    BY <1>1, <1>6 DEF Suspend, Sound, Instance
  <2>2. WaitingStatus(w.type) \in Waiting /\ w # NoWait
    BY WaitingStatusType DEF WaitCondition
  <2> HIDE DEF b
  <2> QED
    BY <1>1, <1>2, <1>3, <1>6, <2>1, <2>2 DEF Driven, Recorded, Waiting
<1>7. \/ \E keys \in SUBSET DataKeys : r = Succeed(i, s, keys)
      \/ r = FailStep(i, s)
      \/ \E w \in WaitCondition : w.step = s /\ r = Suspend(i, s, w)
  <2>1. CASE s \in HumanSteps
    <3>1. HumanOutput \cup {s} \in SUBSET DataKeys
      BY <2>1, KeysAssumption DEF DataKeys
    <3> QED
      BY <2>1, <3>1, HumanWaitType DEF Results, HumanResults
  <2>2. CASE s \notin HumanSteps
    BY <2>2 DEF Results, CustomResults, DataKeys
  <2> QED
    BY <2>1, <2>2
<1> QED
  BY <1>2, <1>4, <1>5, <1>6, <1>7

\* A step that is about to be executed, or retried after a failure, has no record
\* of an execution, in memory or in the file.
LEMMA ExecutedKeepsAccounts ==
    ASSUME AutoCheckpoint, Accounted, Loaded, NEW s \in Steps, ~Recorded(wf, s),
           Saved, Driven(wf'), Loaded',
           wf'.record[s] \in {"COMPLETED", "WAITING", "FAILED"},
           \A t \in Steps \ {s} : wf'.record[t] = wf.record[t],
           effects' = [effects EXCEPT ![s] = @ + Counted(s)], UNCHANGED lost
    PROVE  Accounted'
<1>1. disk' = wf'
  BY DEF Saved
<1>2. ~Recorded(disk, s)
  BY DEF Accounted
<1>3. Counted(s) = IF Recorded(wf', s) THEN 1 ELSE 0
  BY DEF Counted, Recorded
<1>4. effects' \in [Steps -> Nat]
  BY DEF Accounted, Counted
<1>5. ASSUME NEW t \in Steps
      PROVE  effects'[t] <= lost'[t] + (IF Recorded(disk', t) THEN 1 ELSE 0)
  <2>1. CASE t = s
    <3>1. effects[s] <= lost[s]
      BY <1>2 DEF Accounted
    <3>2. effects'[s] = effects[s] + (IF Recorded(disk', s) THEN 1 ELSE 0)
      BY <1>1, <1>3 DEF Accounted
    <3> QED
      BY <2>1, <3>1, <3>2 DEF Accounted
  <2>2. CASE t # s
    <3>1. effects'[t] = effects[t] /\ lost'[t] = lost[t]
      BY <2>2 DEF Accounted
    <3>2. Recorded(disk, t) => Recorded(disk', t)
      BY <1>1, <2>2 DEF Accounted, Recorded
    <3> QED
      BY <3>1, <3>2 DEF Accounted
  <2> QED
    BY <2>1, <2>2
<1> QED
  BY <1>1, <1>4, <1>5 DEF Accounted, Driven, Recorded

\* An execution whose record does not reach the file counts as lost.
LEMMA LostKeepsAccounts ==
    ASSUME Accounted, NEW s \in Steps, NEW n \in Nat, UNCHANGED disk, Driven(wf'),
           \A t \in Steps : Loaded' => (Recorded(disk, t) => Recorded(wf', t)),
           effects' = [effects EXCEPT ![s] = @ + n],
           lost' = [lost EXCEPT ![s] = @ + n], driver' = "idle"
    PROVE  Accounted'
<1>1. effects' \in [Steps -> Nat] /\ lost' \in [Steps -> Nat]
  BY DEF Accounted
<1>2. ASSUME NEW t \in Steps
      PROVE  effects'[t] <= lost'[t] + (IF Recorded(disk, t) THEN 1 ELSE 0)
  BY DEF Accounted
<1> QED
  BY <1>1, <1>2 DEF Accounted, Driven, Recorded

\* The other operations execute nothing, and lose no record that is in the file.
LEMMA QuietKeepsAccounts ==
    ASSUME Accounted, Driven(wf'), disk' \in {disk, wf'},
           \A t \in Steps : Loaded' => (Recorded(disk, t) => Recorded(wf', t)),
           disk' = wf' => Loaded' \/ disk' = disk,
           UNCHANGED <<effects, lost>>, driver' # "idle" => Loaded'
    PROVE  Accounted'
<1>1. ASSUME NEW t \in Steps
      PROVE  Recorded(disk, t) => Recorded(disk', t)
  BY DEF Recorded
<1>2. ASSUME NEW t \in Steps
      PROVE  effects'[t] <= lost'[t] + (IF Recorded(disk', t) THEN 1 ELSE 0)
  BY <1>1 DEF Accounted
<1> QED
  BY <1>2 DEF Accounted, Driven, Recorded

\* A new instance, or none, has recorded nothing.
LEMMA FreshIsDriven ==
    ASSUME NEW status, NEW data
    PROVE  /\ Driven(Fresh(status, data))
           /\ \A t \in Steps : ~Recorded(Fresh(status, data), t)
BY DEF Fresh, Driven, Recorded

\* A status other than ABSENT, RUNNING only without a pending wait.
LEMMA StatusIsDriven ==
    ASSUME Sound(wf), Driven(wf), NEW status, status # "ABSENT",
           status = "RUNNING" => wf.wait = NoWait
    PROVE  LET r == [wf EXCEPT !.status = status]
           IN  /\ Driven(r) /\ r.status = status
               /\ \A t \in Steps : Recorded(wf, t) => Recorded(r, t)
BY DEF Sound, Instance, Driven, Recorded

\* Resolving the wait completes the only step that was recorded as waiting.
LEMMA ResolveIsDriven ==
    ASSUME NEW i, Sound(i), Driven(i), i.wait # NoWait
    PROVE  /\ Driven(Resolve(i)) /\ Resolve(i).status = "RUNNING"
           /\ \A t \in Steps : Recorded(i, t) => Recorded(Resolve(i), t)
<1> DEFINE s == i.wait.step
           r == Resolve(i)
<1>1. s \in Steps
  BY DEF Sound, Instance, WaitCondition
<1>2. /\ r.completed = i.completed \cup {s} /\ r.wait = NoWait
      /\ r.status = "RUNNING"
      /\ r.record = [i.record EXCEPT ![s] = "COMPLETED"]
  BY <1>1 DEF Sound, Resolve, Instance
<1>3. i.record \in [Steps -> RecordStatus]
  BY DEF Sound, Instance
<1>4. /\ Driven(r) /\ \A t \in Steps : Recorded(i, t) => Recorded(r, t)
  <2> HIDE DEF r
  <2> QED
    BY <1>1, <1>2, <1>3 DEF Driven, Recorded
<1> QED
  BY <1>2, <1>4

\* signal_event and trigger_timer resolve the wait or merge the payload.
LEMMA AnswerIsDriven ==
    ASSUME Sound(wf), Driven(wf), Answer
    PROVE  /\ Driven(wf') /\ Loaded'
           /\ \A t \in Steps : Recorded(wf, t) => Recorded(wf', t)
<1>1. CASE TriggerTimer
  BY <1>1, ResolveIsDriven DEF TriggerTimer, Loaded
<1>2. CASE \E e \in Events, payload \in SUBSET Keys : SignalEvent(e, payload)
  <2>1. PICK e \in Events, payload \in SUBSET Keys : SignalEvent(e, payload)
    BY <1>2
  <2> DEFINE m == [wf EXCEPT !.data = @ \cup payload]
  <2>2. /\ Sound(m) /\ m.completed = wf.completed
        /\ m.status = wf.status /\ m.wait = wf.wait /\ m.record = wf.record
    BY DataIsSound DEF Sound, Instance, DataKeys
  <2>3. Driven(m) /\ \A t \in Steps : Recorded(wf, t) <=> Recorded(m, t)
    <3> HIDE DEF m
    <3> QED
      BY <2>2 DEF Driven, Recorded
  <2>4. wf' = m \/ (m.wait # NoWait /\ wf' = Resolve(m))
    <3>1. wf' = IF AnswersEvent(e) \/ AwaitsHuman THEN Resolve(m) ELSE m
      BY <2>1 DEF SignalEvent
    <3> HIDE DEF m
    <3> QED
      BY <2>2, <3>1 DEF AnswersEvent, AwaitsHuman
  <2>5. Loaded
    BY <2>1 DEF SignalEvent
  <2> HIDE DEF m
  <2> QED
    BY <2>2, <2>3, <2>4, <2>5, ResolveIsDriven DEF Loaded
<1> QED
  BY <1>1, <1>2 DEF Answer, Quiet

\* The operations between two executions: what they leave in memory has every
\* record that is in the file.
LEMMA OperatorKeepsAccounts ==
    ASSUME IInv, Accounted,
           \/ Start \/ Answer \/ Recover
           \/ OperatorPause \/ OperatorResume \/ OperatorCrash
    PROVE  Accounted'
<1>1. driver' = "idle" /\ UNCHANGED <<effects, lost>>
  BY DEF Start, Answer, Recover, OperatorPause, OperatorResume, OperatorCrash, Quiet,
         dvars, Accounted
<1>2. disk' \in {disk, wf'}
  BY FileIsOldOrNew DEF Start, Answer, Recover, OperatorPause, OperatorResume,
                        OperatorCrash, Quiet, Next
<1>3. CASE Start
  <2>1. PICK inputs \in InitialInputs : StartWorkflow(inputs)
    BY <1>3 DEF Start, Quiet
  <2>2. Driven(wf') /\ Loaded' /\ \A t \in Steps : ~Recorded(disk, t)
    BY <1>3, <2>1, FreshIsDriven DEF Start, Quiet, StartWorkflow, Loaded, Fresh,
                                     Accounted, Driven
  <2> QED
    BY <1>1, <1>2, <2>2, QuietKeepsAccounts
<1>4. CASE Answer
  <2>1. Loaded
    BY <1>4 DEF Answer, Quiet, Loaded, Waiting
  <2>2. /\ Driven(wf') /\ Loaded'
        /\ \A t \in Steps : Recorded(wf, t) => Recorded(wf', t)
    BY <1>4, AnswerIsDriven DEF IInv, Accounted
  <2> QED
    BY <1>1, <1>2, <2>1, <2>2, QuietKeepsAccounts DEF Accounted
<1>5. CASE Recover
  <2>1. wf' = disk /\ disk' = disk
    BY <1>5 DEF Recover, Quiet, LoadCheckpoint
  <2> QED
    BY <1>1, <2>1, QuietKeepsAccounts DEF Accounted
<1>6. CASE OperatorPause
  <2>1. /\ Driven(wf') /\ Loaded /\ Loaded'
        /\ \A t \in Steps : Recorded(wf, t) => Recorded(wf', t)
    BY <1>6, StatusIsDriven DEF OperatorPause, Quiet, Pause, Loaded, IInv, Accounted
  <2> QED
    BY <1>1, <1>2, <2>1, QuietKeepsAccounts DEF Accounted
<1>7. CASE OperatorResume
  <2> DEFINE st == IF wf.wait = NoWait THEN "RUNNING" ELSE WaitingStatus(wf.wait.type)
  <2>1. wf.wait # NoWait => WaitingStatus(wf.wait.type) \in Waiting
    BY WaitingStatusType DEF IInv, Sound, Instance, WaitCondition
  <2>2. st # "ABSENT" /\ (st = "RUNNING" => wf.wait = NoWait)
    BY <2>1 DEF Waiting
  <2>3. wf' = [wf EXCEPT !.status = st] /\ Loaded
    BY <1>7 DEF OperatorResume, Quiet, Resume, Loaded
  <2> HIDE DEF st
  <2>4. /\ Driven(wf') /\ Loaded'
        /\ \A t \in Steps : Recorded(wf, t) => Recorded(wf', t)
    BY <2>2, <2>3, StatusIsDriven DEF Loaded, IInv, Accounted
  <2> QED
    BY <1>1, <1>2, <2>3, <2>4, QuietKeepsAccounts DEF Accounted
<1>8. CASE OperatorCrash
  <2>1. Driven(wf') /\ ~Loaded' /\ disk' = disk
    BY <1>8, FreshIsDriven DEF OperatorCrash, Quiet, Crash, NoWorkflow, Loaded, Fresh
  <2> QED
    BY <1>1, <2>1, QuietKeepsAccounts
<1> QED
  BY <1>3, <1>4, <1>5, <1>6, <1>7, <1>8

\* Executing the head of the batch, with its checkpoint, without it, or cut off.
LEMMA HeadKeepsAccounts ==
    ASSUME IInv, BatchInv, AutoCheckpoint, Accounted, NEW s \in Steps,
           RunHead(s) \/ HeadUnsaved(s) \/ HeadRaises(s) \/ CrashInExecutor(s)
    PROVE  Accounted'
<1>1. /\ driver = "batch" /\ wf.status = "RUNNING" /\ Loaded
      /\ s \notin wf.completed /\ DepsMet(wf, s)
  BY DEF RunHead, HeadUnsaved, HeadRaises, CrashInExecutor, IsHead, BatchInv, Loaded
<1>2. ~Recorded(wf, s) /\ ~Recorded(disk, s)
  BY <1>1 DEF Accounted, Driven, Recorded
<1>3. ASSUME wf' \in Results(wf, s, FALSE)
      PROVE  /\ Driven(wf') /\ Loaded'
             /\ wf'.record[s] \in {"COMPLETED", "WAITING", "FAILED"}
             /\ \A t \in Steps \ {s} : wf'.record[t] = wf.record[t]
  <2>1. Sound(wf) /\ Driven(wf) /\ wf.status = "RUNNING" /\ DepsMet(wf, s)
    BY <1>1 DEF IInv, Accounted
  <2>2. /\ Driven(wf') /\ wf'.status # "ABSENT"
        /\ wf'.record[s] \in {"COMPLETED", "WAITING", "FAILED"}
    BY <1>3, <2>1, ResultsAreDriven
  <2>3. wf'.record = [wf.record EXCEPT ![s] = wf'.record[s]]
    BY <1>3, <2>1, ResultsAreDriven
  <2>4. wf.record \in [Steps -> RecordStatus]
    BY DEF IInv, Sound, Instance
  <2> QED
    BY <2>2, <2>3, <2>4 DEF Loaded
<1>4. CASE RunHead(s)
  BY <1>1, <1>2, <1>3, <1>4, ExecutedKeepsAccounts DEF RunHead
<1>5. CASE HeadUnsaved(s)
  <2>1. \A t \in Steps : Recorded(disk, t) => Recorded(wf', t)
    BY <1>1, <1>2, <1>3, <1>5 DEF HeadUnsaved, Accounted, Recorded
  <2>2. Counted(s) \in Nat
    BY DEF Counted
  <2> QED
    BY <1>3, <1>5, <2>1, <2>2, LostKeepsAccounts DEF HeadUnsaved, SaveFails
<1>6. CASE HeadRaises(s)
  <2>1. /\ wf'.record = [wf.record EXCEPT ![s] = "RUNNING"]
        /\ wf'.completed = wf.completed /\ wf'.wait = wf.wait
        /\ wf'.status = wf.status
        /\ UNCHANGED <<disk, effects, lost>> /\ driver' = "idle"
    BY <1>6 DEF HeadRaises, ExecutorRaises, Begin, IInv, Sound, Instance
  <2>2. \A t \in Steps : Recorded(disk, t) => Recorded(wf', t)
    BY <1>1, <1>2, <2>1 DEF Accounted, Recorded, IInv, Sound, Instance
  <2>3. Driven(wf')
    BY <1>1, <2>1 DEF Accounted, Driven, Recorded, IInv, Sound, Instance
  <2> QED
    BY <2>1, <2>2, <2>3, QuietKeepsAccounts
<1>7. CASE CrashInExecutor(s)
  <2>1. Driven(wf') /\ ~Loaded' /\ disk' = disk
    BY <1>7, FreshIsDriven DEF CrashInExecutor, Crash, NoWorkflow, Loaded, Fresh
  <2> QED
    BY <1>7, <2>1, LostKeepsAccounts DEF CrashInExecutor
<1> QED
  BY <1>4, <1>5, <1>6, <1>7

\* Retrying a step that failed: its record says FAILED, in memory, and nothing of
\* it is recorded in the file.
LEMMA RetryKeepsAccounts ==
    ASSUME IInv, AutoCheckpoint, Accounted, NEW s \in Steps, OperatorRetry(s)
    PROVE  Accounted'
<1>1. PICK reset \in BOOLEAN :
         \/ /\ RetryStep(s, reset, FALSE) /\ Saved
            /\ effects' = [effects EXCEPT ![s] = @ + Counted(s)]
         \/ /\ RetryRefused(s, reset)
            /\ UNCHANGED effects
  BY DEF OperatorRetry
<1>2. /\ driver = "idle" /\ driver' = "idle" /\ UNCHANGED lost
      /\ wf.status = "RUNNING" /\ wf.record[s] = "FAILED" /\ Loaded
      /\ ~Recorded(wf, s) /\ ~Recorded(disk, s)
  BY DEF OperatorRetry, Loaded, Accounted, Recorded
<1> DEFINE i == Retried(s, reset)
<1>3. /\ i.status = "RUNNING" /\ i.record = wf.record /\ i.wait = wf.wait
      /\ i.completed = wf.completed
  BY <1>2 DEF Retried, IInv, Sound, Instance
<1>4. Sound(i)
  BY <1>2, RetriedIsSound DEF IInv
<1>5. Driven(i)
  <2> HIDE DEF i
  <2> QED
    BY <1>3, <1>2 DEF Driven, Recorded, Accounted
<1>6. wf.record \in [Steps -> RecordStatus]
  BY DEF IInv, Sound, Instance
<1>7. CASE RetryStep(s, reset, FALSE) /\ Saved
           /\ effects' = [effects EXCEPT ![s] = @ + Counted(s)]
  <2>1. wf' \in Results(i, s, FALSE) /\ DepsMet(i, s)
    BY <1>7 DEF RetryStep, Executable
  <2> HIDE DEF i
  <2>2. /\ Driven(wf') /\ wf'.status # "ABSENT"
        /\ wf'.record[s] \in {"COMPLETED", "WAITING", "FAILED"}
    <3>1. i.status = "RUNNING"
      BY <1>3
    <3> QED
      BY ONLY <1>4, <1>5, <2>1, <3>1, ResultsAreDriven
  <2>3. wf'.record = [i.record EXCEPT ![s] = wf'.record[s]]
    BY <1>3, <1>4, <1>5, <2>1, ResultsAreDriven
  <2>4. \A t \in Steps \ {s} : wf'.record[t] = wf.record[t]
    BY <1>3, <1>6, <2>3
  <2> QED
    BY <1>2, <1>7, <2>2, <2>4, ExecutedKeepsAccounts DEF Loaded
<1>8. CASE RetryRefused(s, reset) /\ UNCHANGED effects
  <2>1. disk' = disk
    BY <1>8 DEF RetryRefused
  <2>2. \/ wf' = [wf EXCEPT !.attempt[s] = NextAttempt(s, reset)]
        \/ wf' = i
        \/ wf' = Begin(i, s)
    BY <1>8 DEF RetryRefused
  <2>3. /\ wf'.record \in {wf.record, [wf.record EXCEPT ![s] = "RUNNING"]}
        /\ wf'.completed = wf.completed /\ wf'.wait = wf.wait
        /\ wf'.status = "RUNNING"
    <3>1. CASE wf' = [wf EXCEPT !.attempt[s] = NextAttempt(s, reset)]
      BY <1>2, <3>1 DEF IInv, Sound, Instance
    <3> HIDE DEF i
    <3>2. CASE wf' = i
      BY <1>3, <3>2
    <3>3. CASE wf' = Begin(i, s)
      BY <1>3, <1>4, <3>3 DEF Begin, Sound, Instance
    <3> QED
      BY <2>2, <3>1, <3>2, <3>3
  <2>4. Driven(wf')
    BY <1>2, <1>6, <2>3 DEF Accounted, Driven, Recorded
  <2>5. \A t \in Steps : Recorded(disk, t) => Recorded(wf', t)
    BY <1>2, <1>6, <2>3 DEF Accounted, Recorded
  <2> QED
    BY <1>2, <1>8, <2>1, <2>4, <2>5, QuietKeepsAccounts
<1> QED
  BY <1>1, <1>7, <1>8

\* Every step of the driver and of the operator keeps the accounts.
LEMMA NextKeepsAccounts ==
    IInv /\ BatchInv /\ EffectsInv /\ [DriverNext]_allvars => EffectsInv'
<1> SUFFICES ASSUME IInv, BatchInv, Accounted, AutoCheckpoint, [DriverNext]_allvars
             PROVE  Accounted'
  BY DEF EffectsInv
<1>1. CASE Call
  BY <1>1 DEF Call, Accounted, Driven, Recorded, Loaded
<1>2. CASE Loop
  <2>1. CASE Finish("COMPLETED") /\ driver' = "idle" /\ UNCHANGED <<effects, lost>>
    <3>1. /\ Driven(wf') /\ Loaded /\ Loaded'
          /\ \A t \in Steps : Recorded(wf, t) => Recorded(wf', t)
      BY <2>1, StatusIsDriven DEF Finish, Loaded, IInv, Accounted
    <3>2. disk' \in {disk, wf'}
      BY <2>1 DEF Finish, Persist, Saved, SaveFails
    <3> QED
      BY <2>1, <3>1, <3>2, QuietKeepsAccounts DEF Accounted
  <2>2. CASE UNCHANGED <<wf, disk, effects, lost>>
    BY <1>2, <2>2 DEF Loop, Accounted, Driven, Recorded, Loaded
  <2> QED
    BY <1>2, <2>1, <2>2 DEF Loop
<1>3. ASSUME NEW s \in Steps,
             RunHead(s) \/ HeadUnsaved(s) \/ HeadRaises(s) \/ CrashInExecutor(s)
      PROVE  Accounted'
  BY <1>3, HeadKeepsAccounts
<1>4. ASSUME NEW s \in Steps, OperatorRetry(s)
      PROVE  Accounted'
  BY <1>4, RetryKeepsAccounts
<1>5. CASE \/ Start \/ Answer \/ Recover
           \/ OperatorPause \/ OperatorResume \/ OperatorCrash
  BY <1>5, OperatorKeepsAccounts
<1>6. CASE UNCHANGED allvars
  BY <1>6 DEF allvars, Accounted, Driven, Recorded, Loaded
<1> QED
  BY <1>1, <1>2, <1>3, <1>4, <1>5, <1>6 DEF DriverNext, DriverStep

\* With automatic checkpoints, recovery repeats an effect only when its record
\* never reached the file: whatever crashes, failed saves, raising executors,
\* retries and reloads come in between, a step succeeds or suspends at most once
\* more than its executions were lost.
THEOREM EffectsAreRepeatedOnlyWhenLost ==
    DriverSpec => [](AutoCheckpoint => EffectsAreAccountedFor)
<1>1. DriverInit => BatchInv /\ EffectsInv
  BY FreshIsDriven DEF DriverInit, Init, BatchInv, EffectsInv, Accounted, NoWorkflow,
                       Loaded, Fresh
<1>2. EffectsInv => (AutoCheckpoint => EffectsAreAccountedFor)
  BY DEF EffectsInv, Accounted, EffectsAreAccountedFor
<1>3. DriverSpec => []IInv
  BY DriverRefinesEngine, InductiveInvariant, PTL
<1> QED
  BY <1>1, <1>2, <1>3, NextKeepsBatch, NextKeepsAccounts, PTL DEF DriverSpec
=============================================================================
