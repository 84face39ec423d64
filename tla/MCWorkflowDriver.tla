-------------------------- MODULE MCWorkflowDriver --------------------------
(* Instances of WorkflowDriver for TLC.  The action list is deliberately not in *)
(* dependency order.                                                            *)
EXTENDS WorkflowDriver

MCSteps == {"draft", "notify", "review"}

MCOrder == <<"review", "draft", "notify">>

MCDeps == [s \in MCSteps |-> IF s = "review" THEN {"draft"} ELSE {}]

MCRequired == [s \in MCSteps |-> IF s = "review" THEN {"approved"} ELSE {}]

MCEmits == [s \in MCSteps |-> {}]

MCCustomWaits ==
    [s \in MCSteps |->
        IF s = "notify"
        THEN {[type |-> "TIMER", step |-> s, event |-> AnyEvent, required |-> {}],
              [type |-> "EVENT", step |-> s, event |-> "paid", required |-> {}]}
        ELSE {}]

AnyInputs == {{}, {"approved"}}
=============================================================================
