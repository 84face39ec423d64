-------------------------- MODULE MCWorkflowEngine --------------------------
(* Instances of WorkflowEngine for TLC: a code step that may wait for an      *)
(* event, a human approval after it, and a step of its own that may wait for   *)
(* a timer, so that waits overwrite and overtake each other.                   *)
EXTENDS WorkflowEngine

MCSteps == {"draft", "review", "ship"}

MCDeps == [s \in MCSteps |-> CASE s = "draft" -> {}
                               [] s = "review" -> {"draft"}
                               [] OTHER -> {}]

MCKeys == {"approved", "ticket"}

MCRequired == [s \in MCSteps |-> IF s = "review" THEN MCKeys ELSE {}]
MCOneRequired == [s \in MCSteps |-> IF s = "review" THEN {"approved"} ELSE {}]

MCEmits == [s \in MCSteps |-> {}]

EventWait(s) == [type |-> "EVENT", step |-> s, event |-> "paid", required |-> {}]
TimerWait(s) == [type |-> "TIMER", step |-> s, event |-> AnyEvent, required |-> {}]

MCCustomWaits ==
    [s \in MCSteps |-> CASE s = "draft" -> {EventWait(s)}
                         [] s = "ship"  -> {TimerWait(s)}
                         [] OTHER -> {}]

NoInputs == {{}}
=============================================================================
