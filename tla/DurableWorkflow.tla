-------------------------- MODULE DurableWorkflow ---------------------------
(***************************************************************************)
(* What the durable runtime promises, without attempts, waits, statuses or *)
(* file contents: a set of completed steps in memory (done), the set in    *)
(* the checkpoint (durable), and the completions a caller was told of      *)
(* (told).  Steps complete one at a time, after their prerequisites, and   *)
(* nothing that was told is lost by a crash.                               *)
(***************************************************************************)
CONSTANTS Steps, Deps

VARIABLES up, done, durable, told

dvars == <<up, done, durable, told>>

Init == up = FALSE /\ done = {} /\ durable = {} /\ told = {}

\* A new run of the workflow; its first checkpoint may be missing.
Begin ==
    /\ ~up
    /\ up' = TRUE /\ done' = {} /\ told' = {}
    /\ durable' \in {{}, durable}

\* A step completes; it is saved and reported, or neither.
Complete(s) ==
    /\ up
    /\ Deps[s] \subseteq done
    /\ done' = done \cup {s}
    /\ \/ durable' = done' /\ told' = told \cup (done' \ done)
       \/ UNCHANGED <<durable, told>>
    /\ UNCHANGED up

Save ==
    /\ up
    /\ durable' = done
    /\ UNCHANGED <<up, done, told>>

Reload ==
    /\ up' = TRUE
    /\ done' = durable
    /\ UNCHANGED <<durable, told>>

Crash ==
    /\ up' = FALSE /\ done' = {}
    /\ UNCHANGED <<durable, told>>

Next ==
    \/ Begin
    \/ \E s \in Steps : Complete(s)
    \/ Save
    \/ Reload
    \/ Crash

Spec == Init /\ [][Next]_dvars
=============================================================================
