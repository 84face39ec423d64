-------------------------- MODULE HardenLoopProofs --------------------------
(***************************************************************************)
(* The hardening loop keeps what it says of a build, for any benchmarked   *)
(* steps, contents and limits: every edit that was not believed is undone, *)
(* so neither the score nor the failures have to be computed again after   *)
(* one.  What the benchmark finds is left open: the proofs use only that   *)
(* it is a function of the build.                                          *)
(***************************************************************************)
EXTENDS HardenLoop, FiniteSetTheorems, TLAPS

\* Two steps that share an action were recorded with different outputs.
DistinctOutputs ==
    \A s, t \in Steps :
        s # t /\ ActionOf[s] = ActionOf[t] => Recorded[s] # Recorded[t]

\* During a judgement the loop's verdict is of the build before the edit.
Undoable ==
    pc = "judge" =>
        /\ Restored \in [Actions -> Content]
        /\ score = ScoreOf(Restored) /\ failures = FailuresOf(Restored)

Honest == pc = "done" /\ converged => Clean

IInv == TypeOK /\ ScoreIsOfTheBuild /\ Undoable /\ Honest /\ BudgetIsKept

\* A failure is reported once per step, and its signature tells the step.
OncePerStep ==
    /\ \A f, g \in queue : f # g => f.step # g.step
    /\ pc = "judge" => \A g \in queue : g.step # fixing.step

\* The history in charge: of the run that is on, or of harden.json.
History == IF pc \in {"idle", "done"} THEN saved ELSE reverted

\* Each reverted fix is in the history, but for one per death.
Accounted ==
    \A g \in Signatures :
        revertedCount[g] <= deaths + (IF g \in History THEN 1 ELSE 0)

Untried ==
    /\ pc \in {"fix", "judge"} => \A f \in queue : Signature(f) \notin reverted
    /\ pc = "judge" => Signature(fixing) \notin reverted

SpentInv == OncePerStep /\ Accounted /\ Untried

-----------------------------------------------------------------------------
\* The limits of a run are numbers.
LEMMA Bounds == {MaxIters, MaxRuns, Budget} \subseteq Nat
BY HardenAssumption

\* What a benchmark reports of a build is of its type, one failure per step.
LEMMA BenchmarkTypes ==
    ASSUME NEW build \in [Actions -> Content]
    PROVE  /\ ScoreOf(build) \in Nat
           /\ FailuresOf(build) \subseteq Failure
           /\ \A f, g \in FailuresOf(build) : f # g => f.step # g.step
<1>1. IsFiniteSet({s \in Steps : Matches(build, s)})
  BY FS_Subset, HardenAssumption
<1>2. ScoreOf(build) \in Nat
  BY <1>1, FS_CardinalityType DEF ScoreOf
<1>3. FailuresOf(build) \subseteq Failure
  BY HardenAssumption DEF FailuresOf, Observe, Failure
<1>4. \A f, g \in FailuresOf(build) : f # g => f.step # g.step
  BY DEF FailuresOf, Observe
<1> QED
  BY <1>2, <1>3, <1>4

\* The signature of a failure is one the history can hold.
LEMMA SignatureType ==
    ASSUME NEW f \in Failure
    PROVE  Signature(f) \in Signatures
BY HardenAssumption DEF Signature, Signatures, Failure

\* Distinct outputs make the signatures of failures of distinct steps distinct.
LEMMA SignaturesTellSteps ==
    ASSUME DistinctOutputs, NEW f \in Failure, NEW g \in Failure, f.step # g.step
    PROVE  Signature(f) # Signature(g)
BY DEF DistinctOutputs, Signature, Failure

\* A build that was never hardened.
LEMMA InitIsInductive == Init => IInv
<1> SUFFICES ASSUME Init PROVE IInv
  OBVIOUS
<1>1. TypeOK
  <2>1. iteration \in 0..MaxIters /\ runs \in 0..MaxRuns
    BY Bounds DEF Init
  <2>2. snapshot \in Content /\ art \in [Actions -> Content]
    BY HardenAssumption DEF Init
  <2>3. revertedCount \in [Signatures -> Nat]
    BY DEF Init
  <2> QED
    BY <2>1, <2>2, <2>3 DEF Init, TypeOK
<1>2. ScoreIsOfTheBuild /\ Undoable /\ Honest /\ BudgetIsKept
  BY HardenAssumption DEF Init, ScoreIsOfTheBuild, Undoable, Honest, BudgetIsKept
<1> QED
  BY <1>1, <1>2 DEF IInv

\* A run benchmarks the build before anything else.
LEMMA StartKeepsInv ==
    ASSUME IInv, Start
    PROVE  IInv'
<1>1. art \in [Actions -> Content] /\ art' = art
  BY DEF IInv, TypeOK, Start
<1>2. TypeOK'
  <2>1. iteration' \in 0..MaxIters /\ runs' \in 0..MaxRuns
    BY Bounds DEF IInv, TypeOK, Start
  <2>2. ScoreOf(art) \in Nat /\ FailuresOf(art) \subseteq Failure
    BY <1>1, BenchmarkTypes
  <2> QED
    BY <2>1, <2>2 DEF IInv, TypeOK, Start
<1>3. ScoreIsOfTheBuild' /\ Undoable' /\ Honest'
  BY <1>1 DEF Start, ScoreIsOfTheBuild, Undoable, Honest
<1>4. BudgetIsKept'
  BY HardenAssumption DEF Start, BudgetIsKept
<1> QED
  BY <1>2, <1>3, <1>4 DEF IInv

\* Sorting the failures changes no verdict, and finding none to sort is clean.
LEMMA IterateKeepsInv ==
    ASSUME IInv, Iterate
    PROVE  IInv'
<1> DEFINE actionable == {f \in failures : Actionable(f)}
           gated == {ActionOf[f.step] : f \in {g \in failures : Gated(g)}}
<1>1. /\ pc = "iterate" /\ iteration < MaxIters
      /\ iteration' = iteration + 1 /\ needsHuman' = needsHuman \cup gated
      /\ progressed' = FALSE
      /\ \/ Write(actionable = {} /\ gated = {}) /\ UNCHANGED queue
         \/ /\ pc' = "fix" /\ queue' = FirstFixes(actionable)
            /\ UNCHANGED <<saved, converged>>
      /\ UNCHANGED <<art, reverted, failures, score, fixing, snapshot, exitOk, tokens,
                     runs, deaths, revertedCount>>
  BY DEF Iterate
<1>2. TypeOK
  BY DEF IInv
<1>3. gated \subseteq Actions
  BY <1>2, HardenAssumption DEF TypeOK, Failure
<1>4. FirstFixes(actionable) \subseteq Failure
  BY <1>2 DEF TypeOK, FirstFixes
<1>5. actionable = {} /\ gated = {} => Clean
  BY DEF Clean, Actionable
<1> HIDE DEF actionable, gated
<1>6. TypeOK'
  <2>1. iteration' \in 0..MaxIters
    BY <1>1, <1>2, Bounds DEF TypeOK
  <2> QED
    BY <2>1, <1>1, <1>2, <1>3, <1>4 DEF TypeOK, Write
<1>7. ScoreIsOfTheBuild' /\ Undoable'
  BY <1>1 DEF IInv, ScoreIsOfTheBuild, Undoable, Write
<1>8. Honest'
  BY <1>1, <1>5 DEF Honest, Write, Clean, Inherent
<1>9. BudgetIsKept'
  BY <1>1 DEF IInv, BudgetIsKept
<1> QED
  BY <1>6, <1>7, <1>8, <1>9 DEF IInv

\* Running out of iterations claims nothing.
LEMMA LimitKeepsInv ==
    ASSUME IInv, IterationLimit
    PROVE  IInv'
<1>1. TypeOK'
  BY DEF IInv, TypeOK, IterationLimit, Write
<1>2. ScoreIsOfTheBuild' /\ Undoable' /\ Honest' /\ BudgetIsKept'
  BY DEF IInv, IterationLimit, Write, ScoreIsOfTheBuild, Undoable, Honest, BudgetIsKept
<1> QED
  BY <1>1, <1>2 DEF IInv

\* The snapshot undoes the edit, and the fix was paid for out of what was left.
LEMMA FixKeepsInv ==
    ASSUME IInv, NEW f \in queue, NEW content \in Content, NEW cost \in FixTokens,
           NEW ok \in BOOLEAN, Fix(f, content, cost, ok)
    PROVE  IInv'
<1> DEFINE a == ActionOf[f.step]
<1>1. /\ TypeOK /\ pc = "fix" /\ ~ Exhausted /\ f \in Failure
      /\ a \in Actions /\ cost \in Nat
  BY HardenAssumption DEF IInv, TypeOK, Fix, Failure
<1>2. /\ fixing' = f /\ queue' = queue \ {f} /\ snapshot' = art[a]
      /\ art' = [art EXCEPT ![a] = content]
      /\ tokens' = tokens + cost /\ exitOk' = ok /\ pc' = "judge"
      /\ UNCHANGED <<saved, reverted, failures, score, iteration, progressed,
                     needsHuman, converged, runs, deaths, revertedCount>>
  BY DEF Fix
<1>3. TypeOK'
  BY <1>1, <1>2 DEF TypeOK
<1>4. Restored' = art /\ art \in [Actions -> Content]
  BY <1>1, <1>2 DEF Restored, TypeOK
<1>5. ScoreIsOfTheBuild' /\ Honest'
  BY <1>2 DEF ScoreIsOfTheBuild, Honest
<1>6. score = ScoreOf(art) /\ failures = FailuresOf(art)
  BY <1>1 DEF IInv, ScoreIsOfTheBuild
<1>7. Undoable'
  BY <1>2, <1>4, <1>6 DEF Undoable
<1>8. BudgetIsKept'
  <2> SUFFICES ASSUME Budget # 0 PROVE tokens' - cost < Budget
    BY DEF BudgetIsKept
  <2> QED
    BY <1>1, <1>2, HardenAssumption DEF Exhausted, TypeOK
<1> QED
  BY <1>3, <1>5, <1>7, <1>8 DEF IInv

\* A believed edit brings its own verdict, another is undone with the old one.
LEMMA JudgeKeepsInv ==
    ASSUME IInv, Judge
    PROVE  IInv'
<1> DEFINE sig == Signature(fixing)
<1>1. /\ TypeOK /\ pc = "judge" /\ pc' = "fix" /\ fixing \in Failure
      /\ UNCHANGED <<saved, queue, fixing, snapshot, exitOk, iteration, tokens,
                     needsHuman, converged, runs, deaths>>
  BY DEF IInv, TypeOK, Judge
<1>2. sig \in Signatures
  BY <1>1, SignatureType
<1>3. Honest' /\ BudgetIsKept' /\ Undoable'
  BY <1>1 DEF IInv, Honest, BudgetIsKept, Undoable
<1>4. CASE Accepted
  <2>1. /\ failures' = FailuresOf(art) /\ score' = ScoreOf(art) /\ progressed' = TRUE
        /\ reverted' = reverted \ {sig} /\ UNCHANGED <<art, revertedCount>>
    BY <1>4 DEF Judge
  <2>2. ScoreOf(art) \in Nat /\ FailuresOf(art) \subseteq Failure
    BY <1>1, BenchmarkTypes DEF TypeOK
  <2>3. TypeOK'
    BY <2>1, <2>2, <1>1 DEF TypeOK
  <2>4. ScoreIsOfTheBuild'
    BY <2>1 DEF ScoreIsOfTheBuild
  <2> QED
    BY <2>3, <2>4, <1>3 DEF IInv
<1>5. CASE ~ Accepted
  <2>1. /\ art' = Restored /\ reverted' = reverted \cup {sig}
        /\ revertedCount' = [revertedCount EXCEPT ![sig] = @ + 1]
        /\ UNCHANGED <<failures, score, progressed>>
    BY <1>5 DEF Judge
  <2>2. /\ Restored \in [Actions -> Content]
        /\ score = ScoreOf(Restored) /\ failures = FailuresOf(Restored)
    BY <1>1 DEF IInv, Undoable
  <2>3. TypeOK'
    BY <2>1, <2>2, <1>1, <1>2 DEF TypeOK
  <2>4. ScoreIsOfTheBuild'
    BY <2>1, <2>2 DEF ScoreIsOfTheBuild
  <2> QED
    BY <2>3, <2>4, <1>3 DEF IInv
<1> QED
  BY <1>4, <1>5

\* An iteration ends converged on failures that are all inherent.
LEMMA EndKeepsInv ==
    ASSUME IInv, EndIteration
    PROVE  IInv'
<1>1. TypeOK'
  BY DEF IInv, TypeOK, EndIteration, Write
<1>2. ScoreIsOfTheBuild' /\ Undoable' /\ BudgetIsKept'
  BY DEF IInv, EndIteration, Write, ScoreIsOfTheBuild, Undoable, BudgetIsKept
<1>3. Honest'
  BY DEF EndIteration, Write, Honest, Clean, Inherent
<1> QED
  BY <1>1, <1>2, <1>3 DEF IInv

\* A death leaves the edit, and no verdict.
LEMMA DieKeepsInv ==
    ASSUME IInv, Die
    PROVE  IInv'
<1>1. TypeOK'
  BY DEF IInv, TypeOK, Die
<1>2. ScoreIsOfTheBuild' /\ Undoable' /\ Honest' /\ BudgetIsKept'
  BY DEF IInv, Die, ScoreIsOfTheBuild, Undoable, Honest, BudgetIsKept
<1> QED
  BY <1>1, <1>2 DEF IInv

\* Every step keeps the invariant.
THEOREM NextIsInductive == IInv /\ [Next]_vars => IInv'
<1> SUFFICES ASSUME IInv, [Next]_vars PROVE IInv'
  OBVIOUS
<1>1. CASE Next
  BY <1>1, StartKeepsInv, IterateKeepsInv, LimitKeepsInv, FixKeepsInv, JudgeKeepsInv,
     EndKeepsInv, DieKeepsInv DEF Next, LoopStep
<1>2. CASE UNCHANGED vars
  BY <1>2 DEF vars, IInv, TypeOK, ScoreIsOfTheBuild, Undoable, Restored, Honest, Clean,
     Inherent, BudgetIsKept
<1> QED
  BY <1>1, <1>2

\* It holds of every run.
LEMMA InductiveInvariant == Spec => []IInv
BY InitIsInductive, NextIsInductive, PTL DEF Spec

\* The build, the history and the loop keep their types (harden).
THEOREM TypeCorrect == Spec => []TypeOK
<1>1. IInv => TypeOK
  BY DEF IInv
<1> QED
  BY <1>1, InductiveInvariant, PTL

\* The score and the failures the loop goes by are those of the build on disk,
\* whatever the agent did in between (harden).
THEOREM ScoreIsTrue == Spec => []ScoreIsOfTheBuild
<1>1. IInv => ScoreIsOfTheBuild
  BY DEF IInv
<1> QED
  BY <1>1, InductiveInvariant, PTL

\* A run that reports convergence left no mismatch but inherent ones (harden).
THEOREM ConvergenceIsClean == Spec => []ConvergedIsClean
<1>1. IInv => ConvergedIsClean
  <2> SUFFICES ASSUME IInv, pc = "done", converged, NEW s \in Steps,
                      ~ Matches(art, s)
               PROVE  Inherent(Observe(art, s))
    BY DEF ConvergedIsClean
  <2>1. Observe(art, s) \in failures
    BY DEF IInv, ScoreIsOfTheBuild, FailuresOf
  <2> QED
    BY <2>1 DEF IInv, Honest, Clean
<1> QED
  BY <1>1, InductiveInvariant, PTL

\* The budget is overrun by less than one fix (harden).
THEOREM BudgetStaysKept == Spec => []BudgetIsKept
<1>1. IInv => BudgetIsKept
  BY DEF IInv
<1> QED
  BY <1>1, InductiveInvariant, PTL

-----------------------------------------------------------------------------
\* One more reverted fix: its signature was not in the history and is now.
LEMMA RevertIsAccounted ==
    ASSUME DistinctOutputs, IInv, SpentInv, Judge, ~ Accepted
    PROVE  SpentInv'
<1> DEFINE sig == Signature(fixing)
<1>1. /\ pc = "judge" /\ pc' = "fix" /\ fixing \in Failure /\ queue \subseteq Failure
      /\ reverted' = reverted \cup {sig}
      /\ revertedCount' = [revertedCount EXCEPT ![sig] = @ + 1]
      /\ UNCHANGED <<queue, deaths>>
  BY DEF IInv, TypeOK, Judge
<1>2. sig \in Signatures /\ sig \notin reverted
  BY <1>1, SignatureType DEF SpentInv, Untried
<1>3. \A g \in queue : Signature(g) # sig
  BY <1>1, SignaturesTellSteps DEF SpentInv, OncePerStep
<1> HIDE DEF sig
<1>4. Untried'
  BY <1>1, <1>3 DEF SpentInv, Untried, Signature
<1>5. OncePerStep'
  BY <1>1 DEF SpentInv, OncePerStep
<1>6. revertedCount \in [Signatures -> Nat] /\ deaths \in Nat
  BY HardenAssumption DEF IInv, TypeOK
<1>7. Accounted'
  <2> SUFFICES ASSUME NEW g \in Signatures
               PROVE  revertedCount'[g] <= deaths' + (IF g \in History' THEN 1 ELSE 0)
    BY DEF Accounted
  <2>1. revertedCount[g] <= deaths + (IF g \in reverted THEN 1 ELSE 0)
    BY <1>1 DEF SpentInv, Accounted, History
  <2>2. History' = reverted \cup {sig}
    BY <1>1 DEF History
  <2> QED
    BY <1>1, <1>2, <1>6, <2>1, <2>2
<1> QED
  BY <1>4, <1>5, <1>7 DEF SpentInv

\* Every step keeps the account of the reverted fixes.
LEMMA SpentIsInductive ==
    ASSUME DistinctOutputs, IInv, SpentInv, [Next]_vars
    PROVE  SpentInv'
<1>1. revertedCount \in [Signatures -> Nat] /\ deaths \in Nat
  BY HardenAssumption DEF IInv, TypeOK
<1>2. CASE Start
  BY <1>2 DEF Start, SpentInv, OncePerStep, Accounted, History, Untried
<1>3. CASE Iterate
  <2>1. /\ pc = "iterate" /\ UNCHANGED <<reverted, revertedCount, deaths>>
        /\ \/ pc' = "done" /\ saved' = reverted /\ UNCHANGED queue
           \/ pc' = "fix" /\ queue' = FirstFixes({f \in failures : Actionable(f)})
    BY <1>3 DEF Iterate, Write
  <2>2. \A f, g \in failures : f # g => f.step # g.step
    BY <2>1, BenchmarkTypes DEF IInv, TypeOK, ScoreIsOfTheBuild
  <2>3. \A f \in FirstFixes({g \in failures : Actionable(g)}) :
           f \in failures /\ Actionable(f)
    BY DEF FirstFixes
  <2>4. ASSUME NEW f \in failures, Actionable(f)
        PROVE  Signature(f) \notin reverted
    BY <2>4 DEF Actionable, Gated
  <2>5. OncePerStep' /\ Untried'
    BY <2>1, <2>2, <2>3, <2>4 DEF SpentInv, OncePerStep, Untried, Signature
  <2>6. Accounted'
    BY <2>1 DEF SpentInv, Accounted, History
  <2> QED
    BY <2>5, <2>6 DEF SpentInv
<1>4. CASE IterationLimit
  BY <1>4 DEF IterationLimit, Write, SpentInv, OncePerStep, Accounted, History, Untried
<1>5. ASSUME NEW f \in queue, NEW content \in Content, NEW cost \in FixTokens,
             NEW ok \in BOOLEAN, Fix(f, content, cost, ok)
      PROVE  SpentInv'
  BY <1>5 DEF Fix, SpentInv, OncePerStep, Accounted, History, Untried, Signature
<1>6. CASE Judge
  <2>1. CASE Accepted
    <3>1. /\ pc = "judge" /\ pc' = "fix"
          /\ reverted' = reverted \ {Signature(fixing)}
          /\ UNCHANGED <<revertedCount, queue, deaths>>
      BY <1>6, <2>1 DEF Judge
    <3>2. Signature(fixing) \notin reverted
      BY <3>1 DEF SpentInv, Untried
    <3>3. reverted' = reverted
      BY <3>1, <3>2
    <3> QED
      BY <3>1, <3>3 DEF SpentInv, OncePerStep, Accounted, History, Untried, Signature
  <2> QED
    BY <1>6, <2>1, RevertIsAccounted
<1>7. CASE EndIteration
  BY <1>7 DEF EndIteration, Write, SpentInv, OncePerStep, Accounted, History, Untried
<1>8. CASE Die
  <2>1. /\ pc = "judge" /\ pc' = "idle" /\ queue' = {} /\ deaths' = deaths + 1
        /\ UNCHANGED <<saved, reverted, revertedCount>>
    BY <1>8 DEF Die
  <2>2. Accounted'
    BY <2>1, <1>1 DEF SpentInv, Accounted, History
  <2> QED
    BY <2>1, <2>2 DEF SpentInv, OncePerStep, Untried
<1>9. CASE UNCHANGED vars
  BY <1>9 DEF vars, SpentInv, OncePerStep, Accounted, History, Untried, Signature
<1> QED
  BY <1>2, <1>3, <1>4, <1>5, <1>6, <1>7, <1>8, <1>9 DEF Next, LoopStep

\* Where steps of one action were recorded with different outputs, a fix that
\* failed is tried once more per run that died, and no more (harden).
THEOREM FailedFixesAreRemembered ==
    ASSUME DistinctOutputs
    PROVE  Spec => []NothingIsRespent
<1>1. Init => SpentInv
  BY DEF Init, SpentInv, OncePerStep, Accounted, History, Untried
<1>2. IInv /\ SpentInv /\ [Next]_vars => SpentInv'
  BY SpentIsInductive
<1>3. IInv /\ SpentInv => NothingIsRespent
  <2> SUFFICES ASSUME IInv, SpentInv, NEW g \in Signatures
               PROVE  revertedCount[g] <= 1 + deaths
    BY DEF NothingIsRespent
  <2>1. revertedCount[g] \in Nat /\ deaths \in Nat
    BY HardenAssumption DEF IInv, TypeOK
  <2> QED
    BY <2>1 DEF SpentInv, Accounted
<1> QED
  BY <1>1, <1>2, <1>3, InductiveInvariant, PTL DEF Spec
=============================================================================
