------------------------- MODULE SlmPromotionProofs -------------------------
(***************************************************************************)
(* The files of a build stay of their types and in step with one another,  *)
(* for any actions, models and answers and any number of commands, crashes *)
(* included; there the proofs leave the verdict of the gates open.  The    *)
(* last parts do not: where the gates are sharp, the abstract switch is    *)
(* implemented, and the gates of the code are shown to be sharp.           *)
(***************************************************************************)
EXTENDS SlmPromotion, FiniteSetTheorems, WellFoundedInduction, TLAPS

\* A promote has seen the previous executor once it has saved work.yaml.
PreviousIsKnown ==
    cmd.op = "promote" /\ cmd.at \in {"tier", "escalation", "info", "manifest"}
    => cmd.previous \in Types

\* An action that needs no runtime on the slm tier: it came so, or twice.
Excused(a) == Emitted[a] = "slm" \/ a \in again

\* SlmTierIsBacked with what keeps it: the runtime is there before work.yaml
\* names the tier, and demote puts the action off the tier before it goes.
Backed ==
    /\ \A a \in Actions :
           /\ spec[a] = "slm" => Excused(a) \/ runtime[a] # None
           /\ info[a] = "slm" => Excused(a)
    /\ At("promote", "spec") => runtime[cmd.action] # None
    /\ cmd.previous = "slm" /\ cmd.at \notin {"idle", "spec", "report"}
           => Excused(cmd.action)
    /\ cmd.op = "demote" /\ cmd.at \in {"tier", "runtime"}
           => spec[cmd.action] = cmd.previous

\* What FilesAgree asks of one action.
Named(a) == source[a].tier = Tier(spec[a])
Paired(a) == (info[a] # None) <=> (runtime[a] # None)

\* FilesAgree at every point of a command: the actions it is not about agree,
\* and its own agrees in all that it is not about to write.
InStep ==
    ~ torn =>
    /\ \A a \in Actions :
           cmd = Idle \/ a # cmd.action => Named(a) /\ Paired(a)
    /\ cmd # Idle =>
       LET a == cmd.action IN
       /\ cmd.at \in {"manifest", "report"} => Named(a) /\ Paired(a)
       /\ cmd.op = "promote" =>
              /\ cmd.at = "runtime" => Named(a) /\ Paired(a)
              /\ cmd.at \in {"spec", "escalation", "info"} => Named(a)
              /\ cmd.at = "tier" => spec[a] = "slm"
              /\ cmd.at \in {"spec", "tier", "escalation", "info"} => runtime[a] # None
       /\ cmd.op = "demote" =>
              /\ cmd.at = "tier" => spec[a] = cmd.previous
              /\ cmd.at \in {"runtime", "info"} => Named(a)
              /\ cmd.at \in {"tier", "runtime"} => info[a] # None /\ runtime[a] # None
              /\ cmd.at = "info" => runtime[a] = None

IInv == TypeOK /\ PreviousIsKnown /\ Backed /\ InStep

\* The gates write no file and leave a well-formed command (evaluate).
LEMMA EvaluateStarts ==
    ASSUME NEW a \in Actions, NEW m \in Models, NEW dry \in BOOLEAN, NEW answers,
           Evaluate(a, m, dry, answers)
    PROVE  /\ cmd = Idle /\ issued < MaxCommands /\ issued' = issued + 1
           /\ UNCHANGED <<disk, torn, again>>
           /\ \E result \in Results, at \in {"runtime", "report"} :
                 cmd' = [op |-> "promote", action |-> a, model |-> m,
                         previous |-> None, result |-> result, at |-> at]
<1> DEFINE passed == EvaluatePromotion(a, Records(a, answers), Gate)
           would == PassRateReached(Records(a, answers))
<1>1. cmd' = [op |-> "promote", action |-> a, model |-> m,
              previous |-> None,
              result |-> IF passed /\ ~ dry THEN "promoted"
                         ELSE IF dry /\ would THEN "would promote" ELSE "refused",
              at |-> IF passed /\ ~ dry THEN "runtime" ELSE "report"]
  BY DEF Evaluate
<1> HIDE DEF passed, would
<1>2. \E result \in Results, at \in {"runtime", "report"} :
         cmd' = [op |-> "promote", action |-> a, model |-> m,
                 previous |-> None, result |-> result, at |-> at]
  BY <1>1 DEF Results
<1> QED
  BY <1>2 DEF Evaluate

\* A fresh build is in step.
LEMMA InitIsInductive == Init => IInv
<1> SUFFICES ASSUME Init PROVE IInv
  OBVIOUS
<1>1. TypeOK
  <2>1. source \in [Actions -> [tier : Types \cup {"llm"}, esc : Escalations]]
    BY EmittedTypes DEF Init, Tier, Types, Escalations
  <2>2. spec \in [Actions -> Types]
    BY EmittedTypes DEF Init
  <2>3. /\ runtime \in [Actions -> Models \cup {None}]
        /\ info \in [Actions -> Types \cup {None}]
        /\ report \in [Actions -> Results \cup {"none"}]
    BY DEF Init
  <2>4. manifest \in Seq([action : Actions, from : Types, to : Types])
    BY DEF Init
  <2>6. cmd = Idle /\ torn \in BOOLEAN /\ again \subseteq Actions
    BY DEF Init
  <2>5. issued \in 0..MaxCommands
    BY BoundIsNatural DEF Init
  <2> QED
    BY <2>1, <2>2, <2>3, <2>4, <2>5, <2>6 DEF TypeOK
<1>2. PreviousIsKnown /\ Backed
  BY NoneIsNoValue, EmittedTypes
     DEF Init, PreviousIsKnown, Backed, Excused, At, Idle, Types
<1>3. InStep
  BY DEF Init, InStep, Named, Paired, Idle
<1> QED
  BY <1>1, <1>2, <1>3 DEF IInv

\* What the type of the command says at each of its steps.
LEMMA Shapes ==
    ASSUME TypeOK, cmd # Idle
    PROVE  /\ cmd \in Commands /\ cmd.action \in Actions
           /\ cmd.op = "promote" => /\ cmd.model \in Models
                                    /\ cmd.previous \in Types \cup {None}
                                    /\ cmd.result \in Results
           /\ cmd.op = "demote" => cmd.previous \in Types
BY DEF TypeOK, Commands

\* The steps of a command keep its shape, and know the previous executor.
LEMMA GotoKeepsShape ==
    ASSUME TypeOK, cmd # Idle, NEW step, Goto(step),
           \/ /\ cmd.op = "promote"
              /\ step \in {"spec", "info", "manifest", "report"}
              /\ step \in {"info", "manifest"} => cmd.previous \in Types
           \/ cmd.op = "demote" /\ step \in {"runtime", "info", "manifest"}
    PROVE  cmd' \in Commands /\ PreviousIsKnown'
<1>1. cmd \in Commands /\ cmd' = [cmd EXCEPT !.at = step]
  BY Shapes DEF Goto
<1>2. CASE cmd.op = "promote"
  <2>1. cmd' \in Commands
    BY <1>1, <1>2 DEF Commands
  <2>2. cmd'.at = step /\ cmd'.previous = cmd.previous
    BY <1>1 DEF Commands
  <2> QED
    BY <1>2, <2>1, <2>2 DEF PreviousIsKnown
<1>3. CASE cmd.op = "demote"
  <2>1. cmd' \in Commands
    BY <1>1, <1>3 DEF Commands
  <2>2. cmd'.op = "demote"
    BY <1>1, <1>3 DEF Commands
  <2> QED
    BY <2>1, <2>2 DEF PreviousIsKnown
<1> QED
  BY <1>2, <1>3

\* Every step leaves a well-formed command, or none.
LEMMA CommandIsKept ==
    ASSUME IInv, Next
    PROVE  cmd' \in Commands \cup {Idle} /\ PreviousIsKnown'
<1> USE NoneIsNoValue DEF IInv, PreviousIsKnown
<1>0. TypeOK /\ Idle.at = "idle" /\ Idle.op = "none"
  BY DEF TypeOK, Idle
<1>1. ASSUME NEW a \in Actions, NEW m \in Models, NEW dry \in BOOLEAN,
             NEW answers, Evaluate(a, m, dry, answers)
      PROVE  cmd' \in Commands \cup {Idle} /\ PreviousIsKnown'
  BY <1>1, EvaluateStarts DEF Commands
<1>2. CASE SaveRuntime
  BY <1>2, <1>0, GotoKeepsShape DEF SaveRuntime, At
<1>3. CASE SaveSpec
  <2>1. cmd \in Commands /\ cmd.op = "promote" /\ spec[cmd.action] \in Types
    BY <1>3, <1>0, Shapes DEF SaveSpec, At, TypeOK
  <2>2. cmd' = [cmd EXCEPT !.previous = spec[cmd.action],
                           !.at = IF spec[cmd.action] = "code" THEN "escalation" ELSE "tier"]
    BY <1>3 DEF SaveSpec
  <2> QED
    BY <2>1, <2>2 DEF Commands
<1>4. CASE FlipTier
  BY <1>4, <1>0, GotoKeepsShape DEF FlipTier, At
<1>5. CASE FlipEscalation
  BY <1>5, <1>0, GotoKeepsShape DEF FlipEscalation, At
<1>6. CASE SaveInfo
  BY <1>6, <1>0, GotoKeepsShape DEF SaveInfo, At
<1>7. CASE UpdateManifest
  <2>1. cmd # Idle /\ (cmd.op = "promote" \/ cmd.op = "demote")
    BY <1>0, <1>7, Shapes DEF UpdateManifest, Commands
  <2> QED
    BY <2>1, <1>7, <1>0, GotoKeepsShape DEF UpdateManifest
<1>8. CASE WriteReport
  BY <1>8, <1>0 DEF WriteReport, At
<1>9. CASE RestoreTier
  BY <1>9, <1>0, GotoKeepsShape DEF RestoreTier, At
<1>10. CASE UnlinkRuntime
  BY <1>10, <1>0, GotoKeepsShape DEF UnlinkRuntime, At
<1>11. CASE UnlinkInfo
  BY <1>11, <1>0, GotoKeepsShape DEF UnlinkInfo, At
<1>12. ASSUME NEW a \in Actions, Demote(a)
       PROVE  cmd' \in Commands \cup {Idle} /\ PreviousIsKnown'
  <2>1. info[a] \in Types
    BY <1>12 DEF Demote, TypeOK
  <2> QED
    BY <2>1, <1>12 DEF Demote, Commands
<1>13. CASE Die
  BY <1>13, <1>0 DEF Die
<1> QED
  BY <1>1, <1>2, <1>3, <1>4, <1>5, <1>6, <1>7, <1>8, <1>9, <1>10, <1>11, <1>12,
     <1>13 DEF Next, Step

\* Every step keeps the files and the command well-formed.
LEMMA TypesAreKept ==
    ASSUME IInv, Next
    PROVE  TypeOK' /\ PreviousIsKnown'
<1> USE CommandIsKept DEF IInv, TypeOK, disk, seen
<1>0. Idle.at = "idle" /\ Idle.op = "none"
  BY DEF Idle
<1>1. ASSUME NEW a \in Actions, NEW m \in Models, NEW dry \in BOOLEAN,
             NEW answers, Evaluate(a, m, dry, answers)
      PROVE  TypeOK' /\ PreviousIsKnown'
  <2>1. issued' \in 0..MaxCommands
    BY <1>1, EvaluateStarts, BoundIsNatural
  <2> QED
    BY <2>1, <1>1, EvaluateStarts
<1>2. CASE SaveRuntime
  BY <1>0, <1>2, Shapes DEF SaveRuntime, At
<1>3. CASE SaveSpec
  BY <1>0, <1>3, Shapes DEF SaveSpec, At, Types
<1>4. CASE FlipTier
  BY <1>0, <1>4, Shapes DEF FlipTier, At, Types
<1>5. CASE FlipEscalation
  <2>1. cmd # Idle /\ cmd.action \in Actions
    BY <1>0, <1>5, Shapes DEF FlipEscalation, At
  <2>2. source' \in [Actions -> [tier : Types \cup {"llm"}, esc : Escalations]]
    <3> DEFINE c == cmd.action
               S == [tier : Types \cup {"llm"}, esc : Escalations]
               new == [source[c] EXCEPT !.esc = IF @ = "none" THEN @ ELSE "slm_then_agent"]
    <3>1. source' = [source EXCEPT ![c] = new]
      BY <1>5 DEF FlipEscalation
    <3>2. source \in [Actions -> S] /\ c \in Actions
      BY <2>1
    <3>3. new \in S
      BY ONLY <3>2 DEF Escalations
    <3> HIDE DEF c, S, new
    <3>4. source' \in [Actions -> S]
      BY ONLY <3>1, <3>2, <3>3
    <3> QED
      BY ONLY <3>4 DEF S
  <2> QED
    BY <2>2, <1>5 DEF FlipEscalation
<1>6. CASE SaveInfo
  BY <1>0, <1>6, Shapes DEF SaveInfo, At
<1>7. CASE UpdateManifest
  <2>1. cmd # Idle /\ (cmd.op = "promote" \/ cmd.op = "demote") /\ cmd.previous \in Types
    BY <1>0, <1>7, Shapes DEF UpdateManifest, PreviousIsKnown, Commands
  <2>2. manifest' \in Seq([action : Actions, from : Types, to : Types])
    BY <2>1, <1>7, Shapes DEF UpdateManifest, Types
  <2> QED
    BY <2>2, <1>7 DEF UpdateManifest
<1>8. CASE WriteReport
  BY <1>0, <1>8, Shapes DEF WriteReport, At
<1>9. CASE RestoreTier
  BY <1>0, <1>9, Shapes DEF RestoreTier, At, Tier, Types
<1>10. CASE UnlinkRuntime
  BY <1>0, <1>10, Shapes DEF UnlinkRuntime, At
<1>11. CASE UnlinkInfo
  BY <1>0, <1>11, Shapes DEF UnlinkInfo, At
<1>12. ASSUME NEW a \in Actions, Demote(a)
       PROVE  TypeOK' /\ PreviousIsKnown'
  <2>1. issued' \in 0..MaxCommands /\ info[a] \in Types
    BY <1>12, BoundIsNatural DEF Demote
  <2> QED
    BY <2>1, <1>12 DEF Demote
<1>13. CASE Die
  BY <1>13 DEF Die
<1> HIDE DEF IInv, TypeOK, disk, seen
<1> QED
  BY <1>1, <1>2, <1>3, <1>4, <1>5, <1>6, <1>7, <1>8, <1>9, <1>10, <1>11, <1>12,
     <1>13 DEF Next, Step

\* Every step keeps the slm tier backed.
LEMMA BackingIsKept ==
    ASSUME IInv, Next
    PROVE  Backed'
<1> USE NoneIsNoValue
        DEF IInv, TypeOK, PreviousIsKnown, Backed, Excused, Commands, Idle, At, Goto,
            disk, seen
<1>1. ASSUME NEW a \in Actions, NEW m \in Models, NEW dry \in BOOLEAN,
             NEW answers, Evaluate(a, m, dry, answers)
      PROVE  Backed'
  <2>1. /\ UNCHANGED <<spec, runtime, info, again>>
        /\ cmd'.op = "promote" /\ cmd'.at \in {"runtime", "report"}
        /\ cmd'.previous = None
    BY <1>1, EvaluateStarts
  <2>2. None # "slm"
    BY DEF Types
  <2> QED
    BY <2>1, <2>2
<1>2. CASE SaveRuntime
  BY <1>2 DEF SaveRuntime
<1>3. CASE SaveSpec
  BY <1>3 DEF SaveSpec
<1>4. CASE FlipTier
  BY <1>4 DEF FlipTier
<1>5. CASE FlipEscalation
  BY <1>5 DEF FlipEscalation
<1>6. CASE SaveInfo
  BY <1>6 DEF SaveInfo
<1>7. CASE UpdateManifest
  BY <1>7 DEF UpdateManifest
<1>8. CASE WriteReport
  BY <1>8 DEF WriteReport
<1>9. CASE RestoreTier
  BY <1>9 DEF RestoreTier
<1>10. CASE UnlinkRuntime
  <2> DEFINE c == cmd.action
  <2>1. /\ c \in Actions /\ cmd' = [cmd EXCEPT !.at = "info"]
        /\ runtime' = [runtime EXCEPT ![c] = None]
        /\ UNCHANGED <<spec, info, again>>
        /\ cmd.op = "demote" /\ cmd.at = "runtime"
    BY <1>10, Shapes DEF UnlinkRuntime
  <2>2. cmd'.op = "demote" /\ cmd'.at = "info" /\ UNCHANGED <<cmd.previous, cmd.action>>
    BY <2>1
  <2>3. spec[c] = "slm" => Excused(c)
    BY <2>1
  <2>4. \A a \in Actions : a # c => runtime'[a] = runtime[a]
    BY <2>1
  <2> QED
    BY <2>1, <2>2, <2>3, <2>4
<1>11. CASE UnlinkInfo
  <2> DEFINE c == cmd.action
  <2>1. /\ c \in Actions /\ cmd' = [cmd EXCEPT !.at = "manifest"]
        /\ info' = [info EXCEPT ![c] = None]
        /\ UNCHANGED <<spec, runtime, again>>
        /\ cmd.op = "demote" /\ cmd.at = "info"
    BY <1>11, Shapes DEF UnlinkInfo
  <2>2. cmd'.op = "demote" /\ cmd'.at = "manifest" /\ UNCHANGED <<cmd.previous, cmd.action>>
    BY <2>1
  <2>3. \A a \in Actions : info'[a] = info[a] \/ info'[a] = None
    BY <2>1
  <2>4. None # "slm"
    BY DEF Types
  <2> QED
    BY <2>1, <2>2, <2>3, <2>4
<1>12. ASSUME NEW a \in Actions, Demote(a)
       PROVE  Backed'
  BY <1>12 DEF Demote
<1>13. CASE Die
  BY <1>13 DEF Die
<1> QED
  BY <1>1, <1>2, <1>3, <1>4, <1>5, <1>6, <1>7, <1>8, <1>9, <1>10, <1>11, <1>12,
     <1>13 DEF Next, Step

\* Every step of a command that lives keeps the files in step.
LEMMA StepIsKept ==
    ASSUME IInv, Next
    PROVE  InStep'
<1> USE NoneIsNoValue
        DEF IInv, TypeOK, PreviousIsKnown, InStep, Named, Paired, Commands, Idle, At,
            Goto, disk, seen
<1>1. ASSUME NEW a \in Actions, NEW m \in Models, NEW dry \in BOOLEAN,
             NEW answers, Evaluate(a, m, dry, answers)
      PROVE  InStep'
  BY <1>1, EvaluateStarts
<1>2. CASE SaveRuntime
  BY <1>2 DEF SaveRuntime
<1>3. CASE SaveSpec
  <2> DEFINE c == cmd.action
             previous == spec[c]
             type == IF previous = "code" THEN "code" ELSE "slm"
  <2>1. /\ c \in Actions /\ cmd.op = "promote" /\ cmd.at = "spec"
        /\ cmd' = [cmd EXCEPT !.previous = previous,
                              !.at = IF previous = "code" THEN "escalation" ELSE "tier"]
        /\ spec' = [spec EXCEPT ![c] = type]
        /\ UNCHANGED <<source, runtime, info, torn>>
    BY <1>3, Shapes DEF SaveSpec
  <2>2. /\ cmd'.op = "promote" /\ cmd'.action = c
        /\ cmd'.at = IF previous = "code" THEN "escalation" ELSE "tier"
    BY <2>1
  <2>3. spec'[c] = type /\ \A a \in Actions : a # c => spec'[a] = spec[a]
    BY <2>1
  <2>4. ~ torn => /\ runtime[c] # None /\ Named(c)
                  /\ \A a \in Actions : a # c => Named(a) /\ Paired(a)
    BY <2>1
  <2>5. ASSUME ~ torn, NEW a \in Actions, a # c
        PROVE  Named(a)' /\ Paired(a)'
    BY <2>1, <2>3, <2>4, <2>5
  <2>6. ~ torn /\ previous = "code" => Named(c)'
    BY <2>1, <2>3, <2>4
  <2> QED
    BY <2>1, <2>2, <2>3, <2>4, <2>5, <2>6
<1>4. CASE FlipTier
  BY <1>4 DEF FlipTier, Tier
<1>5. CASE FlipEscalation
  BY <1>5 DEF FlipEscalation
<1>6. CASE SaveInfo
  BY <1>6 DEF SaveInfo
<1>7. CASE UpdateManifest
  BY <1>7 DEF UpdateManifest
<1>8. CASE WriteReport
  BY <1>8 DEF WriteReport
<1>9. CASE RestoreTier
  BY <1>9 DEF RestoreTier
<1>10. CASE UnlinkRuntime
  BY <1>10 DEF UnlinkRuntime
<1>11. CASE UnlinkInfo
  BY <1>11 DEF UnlinkInfo
<1>12. ASSUME NEW a \in Actions, Demote(a)
       PROVE  InStep'
  BY <1>12 DEF Demote
<1>13. CASE Die
  BY <1>13 DEF Die
<1> HIDE DEF IInv, TypeOK, PreviousIsKnown, InStep, Named, Paired, Commands, Idle, At,
         Goto, disk, seen
<1> QED
  BY <1>1, <1>2, <1>3, <1>4, <1>5, <1>6, <1>7, <1>8, <1>9, <1>10, <1>11, <1>12,
     <1>13 DEF Next, Step

\* Every step keeps the invariant.
THEOREM NextIsInductive == IInv /\ [Next]_vars => IInv'
<1>1. IInv /\ Next => IInv'
  BY TypesAreKept, BackingIsKept, StepIsKept DEF IInv
<1>2. IInv /\ UNCHANGED vars => IInv'
  BY DEF IInv, vars, disk, seen, TypeOK, PreviousIsKnown, Backed, Excused, At, InStep,
         Named, Paired
<1> QED
  BY <1>1, <1>2

\* It holds at every point of every command.
LEMMA InductiveInvariant == Spec => []IInv
BY InitIsInductive, NextIsInductive, PTL DEF Spec

\* Files, commands and observers keep their types (promote, demote).
THEOREM TypeCorrect == Spec => []TypeOK
<1>1. IInv => TypeOK
  BY DEF IInv
<1> QED
  BY <1>1, InductiveInvariant, PTL

\* Whatever the gates decide and wherever a command dies, no action is on the
\* slm tier without a runtime, but for those that came so or went there twice
\* (promote, demote).
THEOREM SlmTierStaysBacked == Spec => []SlmTierIsBacked
<1>1. IInv => SlmTierIsBacked
  BY DEF IInv, Backed, Excused, SlmTierIsBacked
<1> QED
  BY <1>1, InductiveInvariant, PTL

\* After commands that ran to their end, work.yaml, the .work source,
\* runtime.json and promotion.json of every action agree (promote, demote).
THEOREM FilesStayInStep == Spec => []FilesAgree
<1>1. IInv => FilesAgree
  BY DEF IInv, InStep, Named, Paired, FilesAgree
<1> QED
  BY <1>1, InductiveInvariant, PTL

(***************************************************************************)
(* What the gates let through: promote and demote implement the abstract   *)
(* switch when the gate of every action is sharp.                          *)
(***************************************************************************)

\* The model of a command that is about to serve was convincing on its action,
\* and nothing judges it again before it does.
Verdict ==
    /\ judged = [p \in Actions \X Models |-> judged[p]]
    /\ At("promote", "runtime") /\ SharpOn(cmd.action)
           => <<cmd.action, cmd.model>> \in Convincing

\* The checks of a text are verdicts.
LEMMA TextChecksAreBoolean ==
    ASSUME NEW t, NEW context, NEW recorded, NEW given, NEW rt, NEW least
    PROVE  LET checks == TextGate(t, context, recorded, given, rt, least) IN
           \A c \in DOMAIN checks : checks[c] \in BOOLEAN
<1> DEFINE required == Anchors(recorded, context) \cup given
           asserted == Stated(t) \ Negated(t)
           allowed == context \cup recorded \cup required
           c1 == ~ t.blank
           c2 == AtLeast(rt.recall, required, asserted)
           c3 == AtLeast(rt.precision, Stated(t), allowed)
           c4 == ~ t.long
           c5 == ~ t.placeholder
           c6 == Cardinality(asserted \cap allowed) >= least
           c7 == required \cap Negated(t) = {}
<1>1. TextGate(t, context, recorded, given, rt, least) =
         [non_empty |-> c1, anchor_recall |-> c2, grounded |-> c3, length |-> c4,
          no_placeholder |-> c5, fact_density |-> c6, negation_cues |-> c7]
  BY Zenon DEF TextGate
<1>2. {c1, c2, c3, c4, c5, c6, c7} \subseteq BOOLEAN
  BY DEF AtLeast
<1> HIDE DEF c1, c2, c3, c4, c5, c6, c7
<1> QED
  BY <1>1, <1>2

\* A record is of the action it is written for.
LEMMA RecordIsOfAction ==
    ASSUME NEW a, NEW e, NEW answer
    PROVE  RecordOf(a, e, answer).action = a
<1>1. CASE ~ answer.ok
  BY <1>1 DEF RecordOf, SlmRecord
<1>2. CASE answer.ok /\ e.mode = "files"
  BY <1>2 DEF RecordOf, SlmRecord
<1>3. CASE answer.ok /\ e.mode # "files"
  BY <1>3 DEF RecordOf, SlmRecord
<1> QED
  BY <1>1, <1>2, <1>3

\* A record that folds to PASS is that of an answer the gate passed.
LEMMA PassIsPassed ==
    ASSUME NEW a, NEW e, NEW answer, Fold(RecordOf(a, e, answer)) = "PASS"
    PROVE  answer.ok /\ Passed(e, answer)
<1> DEFINE r == RecordOf(a, e, answer)
<1>1. FALSE \notin r.checks /\ "false" \notin r.behaviors
  BY DEF Fold, HasBehaviorFailures, HasAutomatedFailures
<1>2. answer.ok
  <2> SUFFICES ASSUME ~ answer.ok PROVE FALSE
    OBVIOUS
  <2>1. FALSE \in r.checks
    BY DEF RecordOf, SlmRecord
  <2> QED
    BY <1>1, <2>1
<1>3. CASE e.mode = "files"
  <2>1. r = LET ok == Passed(e, answer) IN SlmRecord(a, TRUE, {ok}, ok, FALSE)
    BY <1>2, <1>3 DEF RecordOf
  <2>2. ~ Passed(e, answer) => "false" \in r.behaviors
    BY <2>1 DEF SlmRecord
  <2> QED
    BY <1>1, <1>2, <2>2
<1>4. CASE e.mode # "files"
  <2> DEFINE checks == TextGate(answer.text, e.context, e.recorded, e.params, Rates, 0)
  <2>1. \A c \in DOMAIN checks : checks[c] \in r.checks
    BY <1>2, <1>4 DEF RecordOf, SlmRecord
  <2>2. \A c \in DOMAIN checks : checks[c] \in BOOLEAN
    BY TextChecksAreBoolean
  <2> HIDE DEF checks
  <2>3. Holds(checks)
    BY <1>1, <2>1, <2>2 DEF Holds
  <2> QED
    BY <1>2, <1>4, <2>3 DEF Passed, checks
<1> QED
  BY <1>3, <1>4

\* A passed evaluation of a sharp gate is convincing.
LEMMA EvaluationConvinces ==
    ASSUME NEW a \in Actions, NEW answers \in AnswerLists(a), SharpOn(a),
           EvaluatePromotion(a, Records(a, answers), Gate)
    PROVE  Convinces(a, answers)
<1> DEFINE n == Len(Examples[a])
           records == Records(a, answers)
           P == Folded(1..n, records, "PASS")
           F == {i \in 1..n : Faithful(Examples[a][i], answers[i])}
<1>1. n \in Nat /\ DOMAIN Examples[a] = 1..n
  BY ExamplesAreRecorded DEF IsList
<1>2. /\ DOMAIN answers = 1..n /\ Len(answers) = n
      /\ \A i \in 1..n : answers[i] \in Answers(Examples[a][i])
  BY <1>1 DEF AnswerLists
<1>3. /\ DOMAIN records = 1..n
      /\ \A i \in 1..n : records[i] = RecordOf(a, Examples[a][i], answers[i])
  <2>1. DOMAIN answers = 1..n
    BY <1>2
  <2>2. records = [i \in DOMAIN answers |-> RecordOf(a, Examples[a][i], answers[i])]
    BY DEF Records
  <2> HIDE DEF n, records
  <2> QED
    BY ONLY <2>1, <2>2, Zenon
<1>4. Relevant(a, records) = 1..n
  <2>1. \A i \in 1..n : records[i].action = a
    BY <1>3, RecordIsOfAction
  <2> QED
    BY <1>3, <2>1 DEF Relevant
<1>5. 1..n # {} /\ 100 * Cardinality(P) >= Rates.quality * Cardinality(1..n)
  BY <1>4 DEF EvaluatePromotion, Gate
<1>6. n > 0 /\ Cardinality(1..n) = n /\ IsFiniteSet(1..n)
  BY <1>1, <1>5, FS_Interval
<1>7. P \subseteq F
  <2> SUFFICES ASSUME NEW i \in P PROVE i \in F
    OBVIOUS
  <2>1. i \in 1..n /\ Fold(RecordOf(a, Examples[a][i], answers[i])) = "PASS"
    BY <1>3 DEF Folded
  <2>2. answers[i].ok /\ Passed(Examples[a][i], answers[i])
    BY <2>1, PassIsPassed
  <2> QED
    BY <1>1, <1>2, <2>1, <2>2 DEF SharpOn, Sharp
<1>8. /\ IsFiniteSet(F) /\ Cardinality(F) \in Nat /\ Cardinality(P) \in Nat
      /\ Cardinality(P) <= Cardinality(F)
  <2>1. IsFiniteSet(F)
    BY <1>6, FS_Subset
  <2>2. IsFiniteSet(P) /\ Cardinality(P) <= Cardinality(F)
    BY <1>7, <2>1, FS_Subset
  <2> QED
    BY <2>1, <2>2, FS_CardinalityType
<1> HIDE DEF P, F, n
<1>9. Rates.quality \in Nat
  BY RatesArePercent
<1>10. n > 0 /\ 100 * Cardinality(F) >= Rates.quality * n
  <2>1. 100 * Cardinality(P) >= Rates.quality * n
    BY <1>5, <1>6
  <2>2. 100 * Cardinality(F) >= 100 * Cardinality(P)
    BY <1>8
  <2>3. PICK q : q = Rates.quality * n
    OBVIOUS
  <2>4. q \in Nat
    BY <1>1, <1>9, <2>3
  <2> QED
    BY <1>6, <1>8, <2>1, <2>2, <2>3, <2>4
<1> QED
  BY <1>2, <1>10 DEF Convinces, F

\* An evaluation judges its own pair and no other, and starts to serve a model
\* only with a passed verdict.
LEMMA EvaluateJudges ==
    ASSUME NEW a \in Actions, NEW m \in Models, NEW dry \in BOOLEAN,
           NEW answers \in AnswerLists(a), Evaluate(a, m, dry, answers)
    PROVE  /\ judged' = [judged EXCEPT ![<<a, m>>] = answers]
           /\ At("promote", "runtime")' =>
                  EvaluatePromotion(a, Records(a, answers), Gate)
           /\ cmd'.action = a /\ cmd'.model = m
<1> DEFINE passed == EvaluatePromotion(a, Records(a, answers), Gate)
           would == PassRateReached(Records(a, answers))
<1>1. /\ judged' = [judged EXCEPT ![<<a, m>>] = answers]
      /\ cmd' = [op |-> "promote", action |-> a, model |-> m,
                 previous |-> None,
                 result |-> IF passed /\ ~ dry THEN "promoted"
                            ELSE IF dry /\ would THEN "would promote" ELSE "refused",
                 at |-> IF passed /\ ~ dry THEN "runtime" ELSE "report"]
  BY DEF Evaluate
<1> HIDE DEF passed, would
<1>2. /\ cmd'.action = a /\ cmd'.model = m
      /\ cmd'.at = IF passed /\ ~ dry THEN "runtime" ELSE "report"
  BY <1>1
<1>3. At("promote", "runtime")' => passed
  BY <1>2 DEF At
<1> QED
  BY <1>1, <1>2, <1>3 DEF passed

\* Nothing convinces yet.
LEMMA VerdictInit == Init => Verdict
BY DEF Init, Verdict, At, Idle

\* The pairs that convince change with the one that is judged.
LEMMA OnePairIsJudged ==
    ASSUME Verdict, NEW a \in Actions, NEW m \in Models, NEW answers,
           judged' = [judged EXCEPT ![<<a, m>>] = answers]
    PROVE  /\ judged' = [p \in Actions \X Models |-> judged'[p]]
           /\ Convincing' \in {Convincing \cup {<<a, m>>}, Convincing \ {<<a, m>>}}
           /\ <<a, m>> \in Convincing' <=> Convinces(a, answers)
<1> DEFINE p == <<a, m>>
<1>1. p \in Actions \X Models /\ p[1] = a
  OBVIOUS
<1>2. /\ judged' = [q \in Actions \X Models |-> judged'[q]]
      /\ judged'[p] = answers
      /\ \A q \in Actions \X Models : q # p => judged'[q] = judged[q]
  BY DEF Verdict
<1> HIDE DEF p
<1>3. Convincing' = {q \in Actions \X Models : Convinces(q[1], judged'[q])}
  BY DEF Convincing
<1>4. \A q \in Actions \X Models : q # p => (q \in Convincing' <=> q \in Convincing)
  BY <1>2, <1>3 DEF Convincing
<1>5. p \in Convincing' <=> Convinces(a, answers)
  BY <1>1, <1>2, <1>3
<1>6. Convincing \subseteq Actions \X Models /\ Convincing' \subseteq Actions \X Models
  BY DEF Convincing
<1>7. Convincing' = Convincing \cup {p} \/ Convincing' = Convincing \ {p}
  BY <1>1, <1>4, <1>6
<1> QED
  BY <1>2, <1>5, <1>7 DEF p

\* No step of a command leads back to where its model starts to serve.
LEMMA StepLeavesRuntime ==
    ASSUME TypeOK, Step
    PROVE  ~ At("promote", "runtime")'
<1> USE DEF At
<1>0. cmd # Idle => \/ cmd \in Commands /\ cmd.op = "promote"
                    \/ cmd \in Commands /\ cmd.op = "demote"
  BY DEF TypeOK, Commands
<1>1. ASSUME cmd \in Commands, NEW step, Goto(step)
      PROVE  cmd'.at = step /\ cmd'.op = cmd.op
  BY <1>1 DEF Goto, Commands
<1>2. Idle.at = "idle" /\ Idle.op = "none"
  BY DEF Idle
<1>3. CASE SaveRuntime \/ FlipTier \/ FlipEscalation \/ SaveInfo
           \/ RestoreTier \/ UnlinkRuntime \/ UnlinkInfo
  BY <1>0, <1>1, <1>2, <1>3 DEF SaveRuntime, FlipTier, FlipEscalation, SaveInfo,
                                RestoreTier, UnlinkRuntime, UnlinkInfo
<1>4. CASE SaveSpec
  <2>1. cmd \in Commands /\ cmd.op = "promote"
    BY <1>0, <1>2, <1>4 DEF SaveSpec
  <2> QED
    BY <1>4, <2>1 DEF SaveSpec, Commands
<1>5. CASE UpdateManifest
  BY <1>0, <1>1, <1>2, <1>5 DEF UpdateManifest
<1>6. CASE WriteReport
  BY <1>2, <1>6 DEF WriteReport
<1> QED
  BY <1>3, <1>4, <1>5, <1>6 DEF Step

\* Only an evaluation judges, and it ends before the model it passed serves.
LEMMA VerdictIsKept ==
    ASSUME IInv, Verdict, [Next]_vars
    PROVE  Verdict'
<1>1. ASSUME NEW a \in Actions, NEW m \in Models, NEW dry \in BOOLEAN,
             NEW answers \in AnswerLists(a), Evaluate(a, m, dry, answers)
      PROVE  Verdict'
  <2>1. /\ judged' = [judged EXCEPT ![<<a, m>>] = answers]
        /\ At("promote", "runtime")' => EvaluatePromotion(a, Records(a, answers), Gate)
        /\ cmd'.action = a /\ cmd'.model = m
    BY <1>1, EvaluateJudges
  <2>2. /\ judged' = [p \in Actions \X Models |-> judged'[p]]
        /\ <<a, m>> \in Convincing' <=> Convinces(a, answers)
    BY <2>1, OnePairIsJudged
  <2>3. At("promote", "runtime")' /\ SharpOn(a) => Convinces(a, answers)
    BY <2>1, EvaluationConvinces
  <2> QED
    BY <2>1, <2>2, <2>3 DEF Verdict
<1>2. ASSUME UNCHANGED judged, At("promote", "runtime")' => UNCHANGED cmd
      PROVE  Verdict'
  <2>1. Convincing' = Convincing
    BY <1>2 DEF Convincing
  <2>2. CASE At("promote", "runtime")'
    BY <1>2, <2>1, <2>2 DEF Verdict, At
  <2>3. CASE ~ At("promote", "runtime")'
    BY <1>2, <2>3 DEF Verdict
  <2> QED
    BY <2>2, <2>3
<1>3. CASE Step
  <2>1. UNCHANGED judged
    BY <1>3 DEF Step, SaveRuntime, SaveSpec, FlipTier, FlipEscalation, SaveInfo,
                UpdateManifest, WriteReport, RestoreTier, UnlinkRuntime, UnlinkInfo, seen
  <2>2. ~ At("promote", "runtime")'
    BY <1>3, StepLeavesRuntime DEF IInv
  <2> QED
    BY <1>2, <2>1, <2>2
<1>4. ASSUME NEW a \in Actions, Demote(a)
      PROVE  Verdict'
  BY <1>2, <1>4 DEF Demote, At
<1>5. CASE Die
  BY <1>2, <1>5 DEF Die, At, Idle
<1>6. CASE UNCHANGED vars
  BY <1>2, <1>6 DEF vars, seen
<1> QED
  BY <1>1, <1>3, <1>4, <1>5, <1>6 DEF Next

\* So it holds of every execution.
LEMMA VerdictHolds == Spec => [](IInv /\ Verdict)
<1>1. IInv /\ Verdict /\ [Next]_vars => Verdict'
  BY VerdictIsKept
<1> QED
  BY <1>1, VerdictInit, InductiveInvariant, PTL DEF Spec

\* A model starts to serve only in SaveRuntime; demote takes it away again.
LEMMA RuntimeSteps ==
    ASSUME IInv, Next
    PROVE  \/ /\ At("promote", "runtime") /\ cmd.action \in Actions /\ cmd.model \in Models
              /\ runtime' = [runtime EXCEPT ![cmd.action] = cmd.model]
              /\ UNCHANGED judged
           \/ /\ cmd.action \in Actions
              /\ runtime' = [runtime EXCEPT ![cmd.action] = None]
              /\ UNCHANGED judged
           \/ UNCHANGED <<runtime, judged>>
           \/ /\ UNCHANGED runtime
              /\ \E a \in Actions, m \in Models : \E answers \in AnswerLists(a) :
                     judged' = [judged EXCEPT ![<<a, m>>] = answers]
<1>1. ASSUME NEW a \in Actions, NEW m \in Models, NEW dry \in BOOLEAN,
             NEW answers \in AnswerLists(a), Evaluate(a, m, dry, answers)
      PROVE  UNCHANGED runtime /\ judged' = [judged EXCEPT ![<<a, m>>] = answers]
  BY <1>1 DEF Evaluate, disk
<1>2. CASE SaveRuntime
  BY <1>2, Shapes DEF SaveRuntime, At, Idle, IInv, TypeOK, seen
<1>3. CASE UnlinkRuntime
  BY <1>3, Shapes DEF UnlinkRuntime, At, Idle, IInv, TypeOK, seen
<1>4. CASE \/ SaveSpec \/ FlipTier \/ FlipEscalation \/ SaveInfo
           \/ UpdateManifest \/ WriteReport \/ RestoreTier \/ UnlinkInfo
  BY <1>4 DEF SaveSpec, FlipTier, FlipEscalation, SaveInfo, UpdateManifest,
              WriteReport, RestoreTier, UnlinkInfo, seen
<1>5. ASSUME NEW a \in Actions, Demote(a)
      PROVE  UNCHANGED <<runtime, judged>>
  BY <1>5 DEF Demote
<1>6. CASE Die
  BY <1>6 DEF Die, disk
<1>7. CASE \E a \in Actions, m \in Models, dry \in BOOLEAN :
              \E answers \in AnswerLists(a) : Evaluate(a, m, dry, answers)
  <2>1. PICK a \in Actions, m \in Models, dry \in BOOLEAN :
            \E answers \in AnswerLists(a) : Evaluate(a, m, dry, answers)
    BY <1>7
  <2>2. PICK answers \in AnswerLists(a) : Evaluate(a, m, dry, answers)
    BY <2>1
  <2>3. UNCHANGED runtime /\ judged' = [judged EXCEPT ![<<a, m>>] = answers]
    BY <1>1, <2>2
  <2> QED
    BY <2>3
<1>8. CASE \E a \in Actions : Demote(a)
  BY <1>5, <1>8
<1> QED
  BY <1>2, <1>3, <1>4, <1>6, <1>7, <1>8 DEF Next, Step

\* Each step is one of the abstract switch, or a stutter.
LEMMA StepRefines ==
    ASSUME IInv, Verdict, [Next]_vars, \A a \in Actions : SharpOn(a)
    PROVE  [Switch!Next]_<<runtime, Convincing>>
<1>1. CASE Next
  <2>1. CASE /\ At("promote", "runtime") /\ cmd.action \in Actions /\ cmd.model \in Models
             /\ runtime' = [runtime EXCEPT ![cmd.action] = cmd.model]
             /\ UNCHANGED judged
    <3>1. <<cmd.action, cmd.model>> \in Convincing
      BY <2>1 DEF Verdict
    <3>2. UNCHANGED Convincing
      BY <2>1 DEF Convincing
    <3>3. Switch!SwitchTo(cmd.action, cmd.model)
      BY <2>1, <3>1, <3>2 DEF Switch!SwitchTo
    <3> QED
      BY <2>1, <3>3 DEF Switch!Next
  <2>2. CASE /\ cmd.action \in Actions
             /\ runtime' = [runtime EXCEPT ![cmd.action] = None]
             /\ UNCHANGED judged
    <3>1. UNCHANGED Convincing
      BY <2>2 DEF Convincing
    <3>2. Switch!Restore(cmd.action)
      BY <2>2, <3>1 DEF Switch!Restore
    <3> QED
      BY <2>2, <3>2 DEF Switch!Next
  <2>3. CASE UNCHANGED <<runtime, judged>>
    BY <2>3 DEF Convincing
  <2>4. ASSUME UNCHANGED runtime, NEW a \in Actions, NEW m \in Models, NEW answers,
               judged' = [judged EXCEPT ![<<a, m>>] = answers]
        PROVE  Switch!Next
    <3>1. Convincing' \in {Convincing \cup {<<a, m>>}, Convincing \ {<<a, m>>}}
      BY <2>4, OnePairIsJudged
    <3>2. Switch!Try(<<a, m>>)
      BY <2>4, <3>1 DEF Switch!Try
    <3> QED
      BY <3>2 DEF Switch!Next
  <2> QED
    BY <1>1, <2>1, <2>2, <2>3, <2>4, RuntimeSteps
<1>2. CASE UNCHANGED vars
  BY <1>2 DEF vars, disk, seen, Convincing
<1> QED
  BY <1>1, <1>2

\* Where every gate is sharp, promote and demote implement the abstract switch
\* for any models, answers and rates, and wherever a command dies: a model
\* serves only after it convinced (promote, demote).
THEOREM PromotionImplementsSwitch ==
    ASSUME \A a \in Actions : SharpOn(a)
    PROVE  Spec => Implements
<1>1. Init => Switch!Init
  BY DEF Init, Switch!Init, Convincing, Convinces
<1>2. IInv /\ Verdict /\ [Next]_vars => [Switch!Next]_<<runtime, Convincing>>
  BY StepRefines
<1> QED
  BY <1>1, <1>2, VerdictHolds, PTL DEF Spec, Implements, Switch!Spec

(***************************************************************************)
(* When a gate is sharp.                                                   *)
(***************************************************************************)

\* The first of a set of places is one of them.
LEMMA MinIsIn ==
    ASSUME NEW S \in SUBSET Nat, S # {}
    PROVE  Min(S) \in S
<1> DEFINE Less == {ss \in Nat \X Nat : ss[1] < ss[2]}
<1>1. IsWellFoundedOn(Less, Nat)
  BY NatLessThanWellFounded, Zenon DEF OpToRel
<1>2. PICK x \in S : \A y \in S : ~ (<<y, x>> \in Less)
  <2> HIDE DEF Less
  <2> QED
    BY <1>1, WFMin
<1>3. \A y \in S : ~ (y < x)
  BY <1>2
<1>4. x \in S /\ \A y \in S : x =< y
  BY <1>2, <1>3
<1> QED
  BY <1>4 DEF Min

\* Of the recorded files at most one is JSON and at most one is not.
OneOfAKind(recorded) ==
    \A i, j \in DOMAIN recorded :
        (recorded[i].tag = "json" <=> recorded[j].tag = "json") => i = j

\* The gate of promotion, and its checks of one recorded file.
ExactGate(recorded, files, context, params) ==
    FileGate(recorded, files, context, params, TRUE)
OwnChecks(r, files, context) == ChecksOf(r, Written(r, files), context, TRUE)

\* A share of at most a fifth, in whole files.
LEMMA AFifth ==
    ASSUME NEW m \in Nat, NEW n \in Nat, m <= n \div 5
    PROVE  5 * m <= n
OBVIOUS

\* The checks of a recorded file at the exact gate, by its kind.
LEMMA ExactChecks ==
    ASSUME NEW r, NEW f, NEW context
    PROVE  LET checks == ChecksOf(r, f, context, TRUE) IN
           /\ r.tag = "json" => /\ DOMAIN checks \subseteq
                                      {"json_parses", "json_structure", "json_values"}
                                /\ (\A c \in DOMAIN checks : checks[c])
                                       => As(r, f) = "exact"
           /\ r.tag # "json" => /\ DOMAIN checks = {"md_present", "md_anchors"}
                                /\ (\A c \in DOMAIN checks : checks[c])
                                       => /\ f.content # "garbage"
                                          /\ AnchorsKept(r, f, context)
<1> PICK checks : checks = ChecksOf(r, f, context, TRUE)
  OBVIOUS
<1> DEFINE state == As(r, f)
<1>1. CASE r.tag = "json" /\ state = "garbage"
  <2>1. checks = [json_parses |-> FALSE]
    BY <1>1 DEF ChecksOf, JsonChecks
  <2>2. DOMAIN checks = {"json_parses"}
    BY ONLY <2>1
  <2>3. ~ checks["json_parses"]
    BY ONLY <2>1
  <2> QED
    BY <1>1, <2>2, <2>3
<1>2. CASE r.tag = "json" /\ state # "garbage"
  <2>1. checks = [json_parses |-> TRUE, json_structure |-> state # "structure",
                  json_values |-> state = "exact"]
    BY <1>2 DEF ChecksOf, JsonChecks
  <2> HIDE DEF state
  <2>2. DOMAIN checks = {"json_parses", "json_structure", "json_values"}
    BY ONLY <2>1
  <2>3. checks["json_values"] <=> state = "exact"
    BY ONLY <2>1
  <2> QED
    BY <1>2, <2>2, <2>3 DEF state
<1>3. CASE r.tag # "json"
  <2> DEFINE present == f.content # "garbage"
             kept == AnchorsKept(r, f, context)
  <2>1. checks = [md_present |-> present, md_anchors |-> kept]
    BY <1>3 DEF ChecksOf, OtherChecks
  <2>2. present \in BOOLEAN /\ kept \in BOOLEAN
    BY DEF AnchorsKept
  <2> HIDE DEF present, kept
  <2>3. /\ DOMAIN checks = {"md_present", "md_anchors"}
        /\ checks["md_present"] = present /\ checks["md_anchors"] = kept
    BY ONLY <2>1
  <2>4. (\A c \in DOMAIN checks : checks[c]) => present /\ kept
    BY ONLY <2>2, <2>3
  <2> QED
    BY <1>3, <2>3, <2>4 DEF present, kept
<1> QED
  BY <1>1, <1>2, <1>3

\* A check of the exact gate tells the kind of its file.
LEMMA KindOfCheck ==
    ASSUME NEW r, NEW f, NEW context, NEW c \in DOMAIN ChecksOf(r, f, context, TRUE)
    PROVE  r.tag = "json" <=> c \in {"json_parses", "json_structure", "json_values"}
<1> PICK checks : checks = ChecksOf(r, f, context, TRUE)
  OBVIOUS
<1>1. /\ r.tag = "json" => DOMAIN checks \subseteq
                                {"json_parses", "json_structure", "json_values"}
      /\ r.tag # "json" => DOMAIN checks = {"md_present", "md_anchors"}
      /\ c \in DOMAIN checks
  BY ExactChecks
<1> QED
  BY ONLY <1>1

\* The exact gate finds a regenerated file for every recorded one.
LEMMA FileIsMatched ==
    ASSUME NEW recorded, IsList(recorded), NEW files, IsList(files),
           NEW context, NEW params, NEW i \in DOMAIN recorded,
           ExactGate(recorded, files, context, params)
    PROVE  \E j \in DOMAIN files : /\ files[j].base = recorded[i].base
                                   /\ Written(recorded[i], files) = files[j]
<1> DEFINE r == recorded[i]
<1>1. Match(r, files) # {}
  BY recorded # << >> DEF ExactGate, FileGate, FileSet
<1>2. Match(r, files) \subseteq Nat
  <2>1. DOMAIN files \subseteq Nat
    BY DEF IsList
  <2> QED
    BY <2>1 DEF Match
<1>3. Min(Match(r, files)) \in Match(r, files)
  BY <1>1, <1>2, MinIsIn
<1> QED
  BY <1>1, <1>3 DEF Written, Match

\* Of files of different kinds, each is judged by its own checks.
LEMMA OwnChecksHold ==
    ASSUME NEW recorded, IsList(recorded), NEW files, IsList(files),
           NEW context, NEW params, NEW i \in DOMAIN recorded,
           ExactGate(recorded, files, context, params), OneOfAKind(recorded)
    PROVE  \A c \in DOMAIN OwnChecks(recorded[i], files, context) :
               OwnChecks(recorded[i], files, context)[c]
<1> DEFINE own(k) == OwnChecks(recorded[k], files, context)
           of == [k \in DOMAIN recorded |-> own(k)]
           names == UNION {DOMAIN of[k] : k \in DOMAIN recorded}
           all == [c \in names |-> of[Max({k \in DOMAIN of : c \in DOMAIN of[k]})][c]]
<1>1. \A c \in names : all[c]
  BY DEF ExactGate, FileGate, Holds, FileChecks, OwnChecks
<1>2. ASSUME NEW k \in DOMAIN recorded, NEW c, c \in DOMAIN own(k), c \in DOMAIN own(i)
      PROVE  k = i
  <2>1. recorded[k].tag = "json" <=> recorded[i].tag = "json"
    BY <1>2, KindOfCheck DEF OwnChecks
  <2> QED
    BY <2>1 DEF OneOfAKind
<1> SUFFICES ASSUME NEW c \in DOMAIN own(i) PROVE own(i)[c]
  OBVIOUS
<1> HIDE DEF own
<1>3. {k \in DOMAIN of : c \in DOMAIN of[k]} = {i}
  BY <1>2
<1>4. i \in Nat
  BY DEF IsList
<1>5. Max({i}) = i
  BY <1>4 DEF Max
<1>6. c \in names
  OBVIOUS
<1>7. all[c] = of[i][c]
  BY <1>3, <1>5, <1>6
<1> QED
  BY <1>1, <1>6, <1>7

\* All the recorded occurrences of a are patches.
WritesFiles(a) == \A i \in DOMAIN Examples[a] : Examples[a][i].mode = "files"

\* The examples whose patch holds no two JSON files and no two others.
FilesOfDifferentKinds ==
    \A a \in Actions : \A i \in DOMAIN Examples[a] :
        Examples[a][i].mode = "files" => OneOfAKind(Examples[a][i].recorded)

\* Files of different kinds that pass are regenerated, one by one.
LEMMA FileIsRegenerated ==
    ASSUME NEW e, NEW answer, IsList(e.recorded), IsList(answer.files),
           \A k \in DOMAIN e.recorded : IsFiniteSet(e.recorded[k].facts),
           ExactGate(e.recorded, answer.files, e.context, e.params),
           OneOfAKind(e.recorded), NEW i \in DOMAIN e.recorded
    PROVE  \E j \in DOMAIN answer.files :
               Regenerates(e, e.recorded[i], answer.files[j])
<1> DEFINE r == e.recorded[i]
<1>1. PICK j \in DOMAIN answer.files :
          answer.files[j].base = r.base /\ Written(r, answer.files) = answer.files[j]
  BY FileIsMatched
<1> DEFINE f == answer.files[j]
<1>2. \A c \in DOMAIN ChecksOf(r, f, e.context, TRUE) :
          ChecksOf(r, f, e.context, TRUE)[c]
  BY <1>1, OwnChecksHold DEF OwnChecks
<1>3. CASE r.tag = "json"
  <2>1. As(r, f) = "exact"
    BY <1>2, <1>3, ExactChecks
  <2>2. f.content = "exact" /\ f.like = Path(r)
    BY <2>1 DEF As
  <2> QED
    BY <1>1, <1>3, <2>2 DEF Regenerates
<1>4. CASE r.tag # "json"
  <2> DEFINE wanted == r.facts \cap e.context
             missing == wanted \ f.facts
  <2>1. f.content # "garbage" /\ Cardinality(missing) <= Cardinality(wanted) \div 5
    <3>1. f.content # "garbage" /\ AnchorsKept(r, f, e.context)
      BY <1>2, <1>4, ExactChecks
    <3> QED
      BY <3>1 DEF AnchorsKept, Anchors
  <2>2. Cardinality(missing) \in Nat /\ Cardinality(wanted) \in Nat
    <3>1. IsFiniteSet(r.facts) /\ wanted \subseteq r.facts /\ missing \subseteq r.facts
      OBVIOUS
    <3> QED
      BY ONLY <3>1, FS_Subset, FS_CardinalityType
  <2>3. 5 * Cardinality(missing) <= Cardinality(wanted)
    BY ONLY <2>1, <2>2, AFifth
  <2> QED
    BY <1>1, <1>4, <2>1, <2>3 DEF Regenerates
<1> QED
  BY <1>3, <1>4

LEMMA FilesAreFaithful ==
    ASSUME NEW a \in Actions, NEW i \in DOMAIN Examples[a],
           NEW answer \in Answers(Examples[a][i]),
           Examples[a][i].mode = "files", OneOfAKind(Examples[a][i].recorded),
           answer.ok, Passed(Examples[a][i], answer)
    PROVE  Faithful(Examples[a][i], answer)
<1>1. PICK e : e = Examples[a][i]
  OBVIOUS
<1>2. /\ e.mode = "files" /\ IsList(e.recorded) /\ IsList(answer.files)
      /\ \A k \in DOMAIN e.recorded : IsFiniteSet(e.recorded[k].facts)
  BY <1>1, ExamplesAreRecorded
<1>3. ExactGate(e.recorded, answer.files, e.context, e.params)
  BY <1>1, <1>2 DEF Passed, ExactGate
<1>4. \A k \in DOMAIN e.recorded : \E j \in DOMAIN answer.files :
          Regenerates(e, e.recorded[k], answer.files[j])
  BY <1>1, <1>2, <1>3, FileIsRegenerated
<1> QED
  BY <1>1, <1>2, <1>4 DEF Faithful, FaithfulFiles

\* The gate of an action that writes files of different kinds is sharp.
LEMMA FilesAreSharp ==
    ASSUME NEW a \in Actions, WritesFiles(a), FilesOfDifferentKinds
    PROVE  SharpOn(a)
BY FilesAreFaithful DEF SharpOn, Sharp, WritesFiles, FilesOfDifferentKinds

\* Where no recorded patch holds two JSON files or two others, a model that takes
\* over an action that writes files regenerated, on the asked share of the examples,
\* every recorded file: a JSON file with the recorded values, as the comment of
\* gate_files says, and another with four fifths of its grounded facts.
THEOREM FilesOfOneKindAreRegenerated ==
    ASSUME FilesOfDifferentKinds
    PROVE  Spec => PromotedFilesAreRegenerated
<1> DEFINE Taken(a) == runtime'[a] # runtime[a] /\ runtime'[a] # None
<1>1. \A a \in Actions : WritesFiles(a) => SharpOn(a)
  BY FilesAreSharp
<1>2. ASSUME IInv, Verdict, Next, NEW a \in Actions, Taken(a), WritesFiles(a)
      PROVE  <<a, runtime'[a]>> \in Convincing
  <2>1. /\ At("promote", "runtime") /\ cmd.action \in Actions
        /\ runtime' = [runtime EXCEPT ![cmd.action] = cmd.model]
    BY <1>2, RuntimeSteps DEF IInv, TypeOK
  <2>2. a = cmd.action /\ runtime'[a] = cmd.model
    BY <1>2, <2>1 DEF IInv, TypeOK
  <2> QED
    BY <1>1, <1>2, <2>1, <2>2 DEF Verdict
<1>3. IInv /\ Verdict /\ [Next]_vars =>
         [\A a \in Actions :
             /\ runtime'[a] # runtime[a] /\ runtime'[a] # None
             /\ \A i \in DOMAIN Examples[a] : Examples[a][i].mode = "files"
             => <<a, runtime'[a]>> \in Convincing]_vars
  BY <1>2 DEF WritesFiles
<1> QED
  BY <1>3, VerdictHolds, PTL DEF Spec, PromotedFilesAreRegenerated

\* Any rates: a text the gate passes is as good as they ask for.
LEMMA TextsAreSharp ==
    ASSUME NEW e, NEW answer, e.mode = "text", answer.ok, Passed(e, answer)
    PROVE  Faithful(e, answer)
<1> DEFINE t == answer.text
           required == Anchors(e.recorded, e.context) \cup e.params
           asserted == Stated(t) \ Negated(t)
           allowed == e.context \cup e.recorded \cup required
           c1 == ~ t.blank
           c2 == AtLeast(Rates.recall, required, asserted)
           c3 == AtLeast(Rates.precision, Stated(t), allowed)
           c4 == ~ t.long
           c5 == ~ t.placeholder
           c6 == Cardinality(asserted \cap allowed) >= 0
           c7 == required \cap Negated(t) = {}
           checks == [non_empty |-> c1, anchor_recall |-> c2, grounded |-> c3,
                      length |-> c4, no_placeholder |-> c5, fact_density |-> c6,
                      negation_cues |-> c7]
<1>1. Holds(TextGate(t, e.context, e.recorded, e.params, Rates, 0))
  BY DEF Passed
<1>2. TextGate(t, e.context, e.recorded, e.params, Rates, 0) = checks
  BY Zenon DEF TextGate
<1>3. c1 /\ c2 /\ c3 /\ c5 /\ c7
  <2> HIDE DEF c1, c2, c3, c4, c5, c6, c7
  <2>1. /\ {"non_empty", "anchor_recall", "grounded", "no_placeholder",
            "negation_cues"} \subseteq DOMAIN checks
        /\ checks["non_empty"] = c1 /\ checks["anchor_recall"] = c2
        /\ checks["grounded"] = c3 /\ checks["no_placeholder"] = c5
        /\ checks["negation_cues"] = c7
    OBVIOUS
  <2> HIDE DEF checks
  <2>2. \A c \in DOMAIN checks : checks[c]
    BY <1>1, <1>2 DEF Holds
  <2> QED
    BY <2>1, <2>2
<1>4. /\ asserted = t.plain /\ Stated(t) = t.plain \cup t.cued
      /\ Negated(t) = t.cued \ t.plain
  BY DEF Stated, Negated
<1>5. /\ required = (e.recorded \cap e.context) \cup e.params
      /\ allowed = e.context \cup e.recorded \cup e.params
  BY DEF Anchors
<1>6. /\ AtLeast(Rates.recall, (e.recorded \cap e.context) \cup e.params, t.plain)
      /\ AtLeast(Rates.precision, t.plain \cup t.cued,
                 e.context \cup e.recorded \cup e.params)
  <2> HIDE DEF t, required, asserted, allowed
  <2> QED
    BY <1>3, <1>4, <1>5
<1>7. ((e.recorded \cap e.context) \cup e.params) \cap t.cued \subseteq t.plain
  BY <1>3, <1>4, <1>5
<1> QED
  BY <1>3, <1>6, <1>7 DEF Faithful, FaithfulText

\* Where no recorded patch holds two JSON files or two others, promote and demote
\* implement the abstract switch for any rates and whatever the models answer: the
\* gates themselves keep what is not faithful from serving (promote, gate,
\* gate_files).
THEOREM DifferentKindsImplementSwitch ==
    ASSUME FilesOfDifferentKinds
    PROVE  Spec => Implements
<1>1. ASSUME NEW a \in Actions, NEW i \in DOMAIN Examples[a],
             NEW answer \in Answers(Examples[a][i]),
             answer.ok, Passed(Examples[a][i], answer)
      PROVE  Faithful(Examples[a][i], answer)
  <2>1. CASE Examples[a][i].mode = "files"
    BY <1>1, <2>1, FilesAreFaithful DEF FilesOfDifferentKinds
  <2>2. CASE Examples[a][i].mode # "files"
    <3>1. PICK e : e = Examples[a][i]
      OBVIOUS
    <3>2. e.mode = "text"
      BY <2>2, <3>1, ExamplesAreRecorded
    <3> QED
      BY <1>1, <3>1, <3>2, TextsAreSharp
  <2> QED
    BY <2>1, <2>2
<1> QED
  BY <1>1, PromotionImplementsSwitch DEF SharpOn, Sharp
=============================================================================
