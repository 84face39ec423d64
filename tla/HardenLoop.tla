----------------------------- MODULE HardenLoop -----------------------------
(***************************************************************************)
(* core/build/harden.py: the compile-time loop that benchmarks a build,    *)
(* lets a coding agent edit the artifact of a failing step, benchmarks     *)
(* again, and keeps the edit only if more outputs match.                   *)
(*                                                                         *)
(* The build's artifact of an action is one opaque content; the benchmark  *)
(* is a function of the contents (it is deterministic), so a step matches  *)
(* exactly when the content of its action is one of those that reproduce   *)
(* its recorded output.  Several steps may share an action.  The process   *)
(* may die while the agent works, before anything is written to            *)
(* harden.json; a raising agent or benchmark has the same effect.          *)
(***************************************************************************)
EXTENDS Integers, FiniteSets

CONSTANTS
    Actions,
    Steps,          \* the benchmarked steps, by their position in the session
    ActionOf,       \* step -> its action
    Content,        \* the contents an artifact can have
    Reproduces,     \* step -> the contents with which its output matches
    Volatile,       \* step -> the contents whose mismatch looks inherent
    Recorded,       \* step -> its recorded output, up to the first five lines
    HasArtifact,    \* the actions with a handler, prompt or rule file
    InitialContent,
    Backend,        \* whether a coding-agent backend was given
    MaxIters, FixesPerIter,
    Budget,         \* budget_tokens, 0 for none
    FixTokens,      \* the token costs a fix may have
    MaxRuns,        \* bound on the runs of the command
    MayDie          \* whether the process may die while the agent works

ASSUME HardenAssumption ==
    /\ Steps \subseteq Nat /\ IsFiniteSet(Steps)
    /\ Content # {}
    /\ ActionOf \in [Steps -> Actions]
    /\ Reproduces \in [Steps -> SUBSET Content]
    /\ Volatile \in [Steps -> SUBSET Content]
    /\ DOMAIN Recorded = Steps
    /\ HasArtifact \subseteq Actions
    /\ InitialContent \in [Actions -> Content]
    /\ FixTokens \subseteq Nat
    /\ {MaxIters, FixesPerIter, Budget, MaxRuns} \subseteq Nat

VARIABLES
    art,            \* the build: action -> content of its artifact
    saved,          \* harden.json: signatures whose last outcome is "reverted"
    pc,             \* "idle", "iterate", "fix", "judge", "done"
    reverted,       \* attempts: signatures whose last outcome is "reverted"
    failures,       \* the failures of the last benchmark that was believed
    score,          \* the matched outputs of that benchmark
    queue,          \* what is left of actionable[:fixes_per_iter]
    fixing,         \* the failure whose artifact the agent edits
    snapshot,       \* the artifact before the edit under judgement
    exitOk,         \* the agent's exit code is 0
    iteration, progressed, tokens,
    needsHuman, converged,
    runs, deaths,   \* history: runs started, and those that died
    revertedCount   \* history: signature -> how many of its fixes were reverted

report == <<iteration, progressed, tokens, needsHuman, converged>>
vars == <<art, saved, pc, reverted, failures, score, queue, fixing, snapshot, exitOk,
          iteration, progressed, tokens, needsHuman, converged, runs, deaths, revertedCount>>

----------------------------------------------------------------------------
(* The benchmark and the failures it reports.                               *)

Matches(build, s) == build[ActionOf[s]] \in Reproduces[s]

ScoreOf(build) == Cardinality({s \in Steps : Matches(build, s)})

\* A failure keeps what was replayed when it was observed.
Observe(build, s) == [step |-> s, replayed |-> build[ActionOf[s]]]

FailuresOf(build) ==
    {Observe(build, s) : s \in {t \in Steps : ~ Matches(build, t)}}

Signature(f) == <<ActionOf[f.step], Recorded[f.step], f.replayed>>

Signatures == Actions \X {Recorded[s] : s \in Steps} \X Content

Inherent(f) == f.replayed \in Volatile[f.step]

Gated(f) ==
    ~Inherent(f) /\ (ActionOf[f.step] \notin HasArtifact \/ Signature(f) \in reverted)

Actionable(f) == ~Inherent(f) /\ ~Gated(f)

----------------------------------------------------------------------------
Init ==
    /\ art = InitialContent /\ saved = {} /\ pc = "idle" /\ reverted = {}
    /\ failures = {} /\ score = 0 /\ queue = {}
    /\ fixing = [step |-> 0, replayed |-> CHOOSE c \in Content : TRUE]
    /\ snapshot = CHOOSE c \in Content : TRUE
    /\ exitOk = TRUE
    /\ iteration = 0 /\ progressed = FALSE /\ tokens = 0
    /\ needsHuman = {} /\ converged = FALSE
    /\ runs = 0 /\ deaths = 0 /\ revertedCount = [g \in Signatures |-> 0]

\* Mutant: the history of earlier runs is not loaded.
StartForgetting ==
    /\ pc \in {"idle", "done"} /\ runs < MaxRuns
    /\ pc' = "iterate" /\ runs' = runs + 1
    /\ reverted' = {}
    /\ failures' = FailuresOf(art) /\ score' = ScoreOf(art)
    /\ iteration' = 0 /\ progressed' = FALSE /\ tokens' = 0
    /\ needsHuman' = {} /\ converged' = FALSE
    /\ UNCHANGED <<art, saved, queue, fixing, snapshot, exitOk, deaths, revertedCount>>

\* A run: load the history, benchmark, start a fresh report.
Start ==
    /\ pc \in {"idle", "done"} /\ runs < MaxRuns
    /\ pc' = "iterate" /\ runs' = runs + 1
    /\ reverted' = saved
    /\ failures' = FailuresOf(art) /\ score' = ScoreOf(art)
    /\ iteration' = 0 /\ progressed' = FALSE /\ tokens' = 0
    /\ needsHuman' = {} /\ converged' = FALSE
    /\ UNCHANGED <<art, saved, queue, fixing, snapshot, exitOk, deaths, revertedCount>>

\* The end of the run: harden.json is written with the attempts.
Write(value) ==
    /\ pc' = "done" /\ saved' = reverted /\ converged' = value

\* actionable[:fixes_per_iter]: failures are listed in the order of the steps.
FirstFixes(actionable) ==
    {f \in actionable :
        Cardinality({g \in actionable : g.step < f.step}) < FixesPerIter}

\* The head of the for loop: sort the failures into gated and actionable.
Iterate ==
    /\ pc = "iterate" /\ iteration < MaxIters
    /\ LET actionable == {f \in failures : Actionable(f)}
           gated == {ActionOf[f.step] : f \in {g \in failures : Gated(g)}}
       IN  /\ iteration' = iteration + 1
           /\ needsHuman' = needsHuman \cup gated
           /\ progressed' = FALSE
           /\ IF actionable = {} \/ ~Backend
              THEN /\ Write(actionable = {} /\ gated = {})
                   /\ UNCHANGED queue
              ELSE /\ pc' = "fix"
                   /\ queue' = FirstFixes(actionable)
                   /\ UNCHANGED <<saved, converged>>
    /\ UNCHANGED <<art, reverted, failures, score, fixing, snapshot, exitOk, tokens, runs, deaths,
                   revertedCount>>

IterationLimit ==
    /\ pc = "iterate" /\ iteration = MaxIters
    /\ Write(FALSE)
    /\ UNCHANGED <<art, reverted, failures, score, queue, fixing, snapshot, exitOk, iteration,
                   progressed, tokens, needsHuman, runs, deaths, revertedCount>>

Exhausted == Budget # 0 /\ tokens >= Budget

\* Mutant: the budget is compared before the first fix of an iteration only.
FixLateBudget(f, content, cost, ok) ==
    /\ pc = "fix" /\ \A g \in queue : f.step <= g.step
    /\ ~(Exhausted /\ ~progressed)
    /\ fixing' = f /\ queue' = queue \ {f}
    /\ snapshot' = art[ActionOf[f.step]]
    /\ art' = [art EXCEPT ![ActionOf[f.step]] = content]
    /\ tokens' = tokens + cost /\ exitOk' = ok
    /\ pc' = "judge"
    /\ UNCHANGED <<saved, reverted, failures, score, iteration, progressed,
                   needsHuman, converged, runs, deaths, revertedCount>>

\* The next actionable failure: snapshot its artifact and let the agent edit it.
Fix(f, content, cost, ok) ==
    /\ pc = "fix" /\ \A g \in queue : f.step <= g.step
    /\ ~Exhausted
    /\ fixing' = f /\ queue' = queue \ {f}
    /\ snapshot' = art[ActionOf[f.step]]
    /\ art' = [art EXCEPT ![ActionOf[f.step]] = content]
    /\ tokens' = tokens + cost /\ exitOk' = ok
    /\ pc' = "judge"
    /\ UNCHANGED <<saved, reverted, failures, score, iteration, progressed,
                   needsHuman, converged, runs, deaths, revertedCount>>

Accepted == ScoreOf(art) > score /\ exitOk

\* The build with the artifact as it was before the edit.
Restored == [art EXCEPT ![ActionOf[fixing.step]] = snapshot]

\* Mutant: a rejected edit stays in the build.
JudgeWithoutRestore ==
    /\ pc = "judge"
    /\ LET sig == Signature(fixing)
       IN  IF Accepted
           THEN /\ failures' = FailuresOf(art) /\ score' = ScoreOf(art) /\ progressed' = TRUE
                /\ reverted' = reverted \ {sig}
                /\ UNCHANGED <<art, revertedCount>>
           ELSE /\ reverted' = reverted \cup {sig}
                /\ revertedCount' = [revertedCount EXCEPT ![sig] = @ + 1]
                /\ UNCHANGED <<art, failures, score, progressed>>
    /\ pc' = "fix"
    /\ UNCHANGED <<saved, queue, fixing, snapshot, exitOk, iteration, tokens, needsHuman, converged, runs, deaths>>

\* Mutant: a rejected fix is tried again until one is accepted.
JudgeRetrying ==
    /\ pc = "judge"
    /\ IF Accepted
       THEN /\ failures' = FailuresOf(art) /\ score' = ScoreOf(art) /\ progressed' = TRUE
            /\ UNCHANGED <<art, queue>>
       ELSE /\ art' = Restored
            /\ queue' = queue \cup {fixing}
            /\ UNCHANGED <<failures, score, progressed>>
    /\ pc' = "fix"
    /\ UNCHANGED <<saved, reverted, fixing, snapshot, exitOk, iteration, tokens, needsHuman,
                   converged, runs, deaths, revertedCount>>

\* Benchmark again; keep the edit or restore the snapshot.  The outcome is
\* recorded under the signature the failure had when the iteration began.
Judge ==
    /\ pc = "judge"
    /\ LET sig == Signature(fixing)
       IN  IF Accepted
           THEN /\ failures' = FailuresOf(art) /\ score' = ScoreOf(art) /\ progressed' = TRUE
                /\ reverted' = reverted \ {sig}
                /\ UNCHANGED <<art, revertedCount>>
           ELSE /\ art' = Restored
                /\ reverted' = reverted \cup {sig}
                /\ revertedCount' = [revertedCount EXCEPT ![sig] = @ + 1]
                /\ UNCHANGED <<failures, score, progressed>>
    /\ pc' = "fix"
    /\ UNCHANGED <<saved, queue, fixing, snapshot, exitOk, iteration, tokens, needsHuman, converged, runs, deaths>>

Clean == \A f \in failures : Inherent(f)

\* Mutant: an iteration that made progress is taken for convergence.
EndIterationHopeful ==
    /\ pc = "fix"
    /\ queue = {} \/ Exhausted
    /\ IF queue # {} \/ ~progressed
       THEN Write(FALSE)
       ELSE Write(TRUE)
    /\ UNCHANGED <<art, reverted, failures, score, queue, fixing, snapshot, exitOk, iteration,
                   progressed, tokens, needsHuman, runs, deaths, revertedCount>>

\* After the inner loop: out of budget, no progress, everything fixed, or on.
EndIteration ==
    /\ pc = "fix"
    /\ queue = {} \/ Exhausted
    /\ IF queue # {} \/ ~progressed THEN Write(FALSE)
       ELSE IF Clean THEN Write(TRUE)
       ELSE pc' = "iterate" /\ UNCHANGED <<saved, converged>>
    /\ UNCHANGED <<art, reverted, failures, score, queue, fixing, snapshot, exitOk, iteration,
                   progressed, tokens, needsHuman, runs, deaths, revertedCount>>

\* The process dies with the agent's edit in the build: neither the snapshot nor
\* the attempts of this run are ever written.
Die ==
    /\ MayDie /\ pc = "judge"
    /\ pc' = "idle" /\ queue' = {} /\ deaths' = deaths + 1
    /\ UNCHANGED <<art, saved, reverted, failures, score, fixing, snapshot, exitOk, iteration,
                   progressed, tokens, needsHuman, converged, runs, revertedCount>>

LoopStep ==
    \/ Iterate \/ IterationLimit
    \/ \E f \in queue, content \in Content, cost \in FixTokens, ok \in BOOLEAN :
           Fix(f, content, cost, ok)
    \/ Judge \/ EndIteration

Next == Start \/ LoopStep \/ Die

Spec == Init /\ [][Next]_vars

\* The command runs on once it is started; an agent call returns.
FairSpec == Spec /\ WF_vars(LoopStep)

----------------------------------------------------------------------------
(* Properties.                                                              *)

\* The build, the history and the loop are of their types (harden).
Failure == [step : Steps, replayed : Content]

TypeOK ==
    /\ art \in [Actions -> Content] /\ snapshot \in Content
    /\ saved \subseteq Signatures /\ reverted \subseteq Signatures
    /\ pc \in {"idle", "iterate", "fix", "judge", "done"}
    /\ failures \subseteq Failure /\ queue \subseteq Failure
    /\ pc = "judge" => fixing \in Failure
    /\ score \in Nat
    /\ {exitOk, progressed, converged} \subseteq BOOLEAN
    /\ iteration \in 0..MaxIters /\ tokens \in Nat
    /\ needsHuman \subseteq Actions
    /\ runs \in 0..MaxRuns /\ deaths \in Nat
    /\ revertedCount \in [Signatures -> Nat]

\* Outside a judgement the loop's score and failures are those of the build as it
\* stands on disk, although rejected edits were made and undone in between and
\* neither is recomputed after a restore.
ScoreIsOfTheBuild ==
    pc \in {"iterate", "fix", "done"} =>
        score = ScoreOf(art) /\ failures = FailuresOf(art)

\* A run that reports convergence leaves a build whose every mismatch is inherent.
ConvergedIsClean ==
    pc = "done" /\ converged =>
        \A s \in Steps : Matches(art, s) \/ Inherent(Observe(art, s))

\* The budget is overrun by less than the price of one fix.
BudgetIsKept ==
    Budget # 0 => \/ tokens < Budget
                  \/ \E cost \in FixTokens : tokens - cost < Budget

\* The module docstring (harden.py:21-22): the history in harden.json is there "so a
\* re-run never re-spends budget on a fix that already failed for the same reason".
\* A signature has one reverted fix, within a run or over several, plus one for each
\* run that died before it wrote its attempts.
NothingIsRespent == \A g \in Signatures : revertedCount[g] <= 1 + deaths

\* Every run that does not die ends with a report.
RunEnds == pc # "idle" ~> pc \in {"idle", "done"}
=============================================================================
