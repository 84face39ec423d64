------------------------ MODULE MCExecutorOptimizer ------------------------
(***************************************************************************)
(* Two actions, two candidates, and the record kinds that tell the gate's  *)
(* clauses apart.                                                          *)
(***************************************************************************)
EXTENDS ExecutorOptimizer

Clean == [action |-> "draft", approved |-> "yes", ratings |-> {"positive"},
          checks |-> {TRUE}, behaviors |-> {"true", "na"},
          latency |-> 1, cost |-> 1]

MCKinds ==
    {Clean,
     [Clean EXCEPT !.action = "send"],
     [Clean EXCEPT !.action = "", !.behaviors = {"na"}],
     [Clean EXCEPT !.behaviors = {"true", "false"}],
     [Clean EXCEPT !.checks = {TRUE, FALSE}],
     [Clean EXCEPT !.approved = "no"],
     [Clean EXCEPT !.ratings = {"nonpositive", "text"}, !.latency = 0],
     [Clean EXCEPT !.latency = 5, !.cost = 3],
     [Clean EXCEPT !.approved = "absent", !.ratings = {}, !.checks = {},
                   !.behaviors = {"na"}],
     [Clean EXCEPT !.approved = "absent", !.ratings = {}, !.checks = {},
                   !.behaviors = {}],
     [Clean EXCEPT !.approved = "absent", !.ratings = {"text"},
                   !.checks = {}, !.behaviors = {"false"}]}

Gate(q, c, l, k) == [quality |-> q, compliance |-> c, latency |-> l, cost |-> k]

MCThresholds == {Gate(95, 100, NoLimit, NoLimit), Gate(50, 100, NoLimit, NoLimit),
                 Gate(50, 50, 2, 2)}
=============================================================================
