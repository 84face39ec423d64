----------------------------- MODULE MCBuildRun -----------------------------
(* Builds for BuildRun: a code step that reads the source data, then steps an     *)
(* agent or an SLM derived from it.                                               *)
EXTENDS BuildRun

Build(trace, params) == [trace |-> trace, params |-> params]

One == {"CUST-1"}

\* A step not replayed, an agent's file, and an SLM's answer about it; an agent's file
\* and an SLM's file; an agent's file for two parameter sets.
MCBuilds ==
    {Build(<<"read", "check", "draft", "answer">>, One),
     Build(<<"read", "draft", "price">>, One),
     Build(<<"read", "draft">>, Params)}

\* What EscalateOnce rests on holds of these builds.
ASSUME MCReplayable == Replayable
=============================================================================
