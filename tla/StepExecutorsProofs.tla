------------------------ MODULE StepExecutorsProofs ------------------------
(***************************************************************************)
(* What one execution of a step may do, for any requests: which handlers   *)
(* run and how often, and what a rule list puts out.  The invariant follows *)
(* the sequence of call shapes and the scan of the branches.               *)
(***************************************************************************)
EXTENDS StepExecutors, FiniteSetTheorems, TLAPS

Signature == request.signature
Shape(i) == Calls(Signature, request.keys)[i]

\* While no call shape has succeeded: at says which comes next, none before it
\* ran the body without raising, and only exceptions that lead on were raised.
Progress ==
    /\ at \in 1..6
    /\ effects = 0 => \A i \in 1..(at - 1) : ~ Binds(Signature, Shape(i))
    /\ raised = {} => effects = 0
    /\ raised \subseteq {"TypeError", "ValueError"}

\* The same once the step is done.
Ended ==
    /\ result \in {"ok", "waiting"} /\ raised = {} => effects = 1
    /\ raised = {} => effects <= 1
    /\ effects = 0 => /\ result = "failed"
                      /\ \/ Resolved(request) # "handler"
                         \/ \A i \in 1..6 : ~ Binds(Signature, Shape(i))

\* The handlers a build emits take **inputs only.
Emitted == Params(Signature) = {} /\ Signature.kwargs

EmittedRuns ==
    /\ result = "none" =>
           /\ at = 1 => effects = 0
           /\ at = 2 => effects <= 1
           /\ at > 2 => effects <= 2
           /\ "TypeError" \notin raised => effects <= 1
    /\ result # "none" =>
           /\ effects <= 3
           /\ "TypeError" \notin raised => effects <= 2

\* A signature that takes **kwargs and raised nothing the next shapes are for.
KeywordRuns == raised \subseteq {"Exception"} => effects <= 1

CodeInv ==
    /\ effects \in Nat
    /\ result \in {"none", "ok", "failed", "waiting"}
    /\ result = "none" => Progress
    /\ result # "none" => at = 0 /\ Ended
    /\ Emitted => EmittedRuns
    /\ Signature.kwargs => KeywordRuns

\* A rule list with branches, and which of them match.
OnList == request.executor = "rule" /\ request.shape = "list" /\ request.rule # << >>

Match(i) ==
    \A j \in DOMAIN request.rule[i].when :
        EvalCondition(request.rule[i].when[j], request.inputs) = "true"

Matching(n) == {i \in 1..n : Match(i)}

\* No branch up to n ends the scan.
Open(n) == \A h \in 1..n : ~ (Match(h) /\ request.rule[h].stop)

NoScalars == \A i \in DOMAIN request.rule : ~ request.rule[i].scalar

\* Every key of a dict is one of the branches in J, with the value of the last.
DictOf(dict, rule, J) ==
    /\ DOMAIN dict = UNION {DOMAIN rule[i].then : i \in J}
    /\ \A k \in DOMAIN dict :
          dict[k] = rule[Max({i \in J : k \in DOMAIN rule[i].then})].then[k]

OutputOf(J) == DictOf(output.dict, request.rule, J)

\* The output is that of the branches tried so far.
RuleInv ==
    /\ request \in Requests
    /\ result = "none" =>
          /\ at \in DOMAIN request.rule /\ Open(at - 1)
          /\ NoScalars => ~ output.scalar /\ OutputOf(Matching(at - 1))
    /\ result # "none" => at = 0
    /\ result = "ok" /\ NoScalars =>
          \E n \in DOMAIN request.rule :
              /\ Open(n - 1) /\ OutputOf(Matching(n))
              /\ n = Len(request.rule) \/ (Match(n) /\ request.rule[n].stop)

IInv ==
    /\ request.executor = "code" => CodeInv
    /\ OnList => RuleInv

\* Of a signature without parameters only the first two and the last shape can
\* bind: the others pass one or two values by position.
LEMMA EmittedShapes ==
    ASSUME Emitted, NEW i \in 3..5
    PROVE  ~ Binds(Signature, Shape(i))
<1>1. Cardinality(Params(Signature)) = 0
  BY FS_EmptySet DEF Emitted
<1>2. Shape(i) \in {Positional(1), Positional(2), NoCall}
  BY DEF Shape, Calls
<1>3. ~ Binds(Signature, Positional(1))
  BY <1>1 DEF Binds, Positional
<1>4. ~ Binds(Signature, Positional(2))
  BY <1>1 DEF Binds, Positional
<1>5. ~ Binds(Signature, NoCall)
  BY DEF Binds, NoCall
<1> QED
  BY <1>2, <1>3, <1>4, <1>5

\* The places of a rule list.
LEMMA RuleDomain ==
    ASSUME OnList, request \in Requests
    PROVE  /\ Len(request.rule) \in Nat /\ DOMAIN request.rule = 1..Len(request.rule)
           /\ 1 \in DOMAIN request.rule
<1>1. PICK rule : rule = request.rule
  OBVIOUS
<1>2. rule \in Seq({rule[i] : i \in DOMAIN rule}) /\ rule # << >>
  BY <1>1, RuleAssumption DEF OnList
<1>3. Len(rule) \in Nat /\ DOMAIN rule = 1..Len(rule) /\ Len(rule) # 0
  BY <1>2
<1> QED
  BY <1>1, <1>3

\* Conditions are true together when each of them is.
LEMMA AllOfTrue ==
    ASSUME NEW conditions, NEW inputs
    PROVE  AllOf(conditions, inputs) = "true" <=>
               \A j \in DOMAIN conditions : EvalCondition(conditions[j], inputs) = "true"
BY DEF AllOf

\* The largest of a set of numbers.
LEMMA MaxIs ==
    ASSUME NEW S \in SUBSET Nat, NEW n \in S, \A i \in S : i <= n
    PROVE  Max(S) = n
<1>1. \E x \in S : \A y \in S : x >= y
  OBVIOUS
<1>2. Max(S) \in S /\ \A y \in S : Max(S) >= y
  BY <1>1 DEF Max
<1>3. PICK m \in Nat : m = Max(S)
  BY <1>2
<1>4. m >= n /\ m <= n /\ n \in Nat
  BY <1>2, <1>3
<1> QED
  BY <1>3, <1>4

\* Every request starts in it.
LEMMA InitIsInductive == Init => IInv
<1> SUFFICES ASSUME Init PROVE IInv
  OBVIOUS
<1>1. CodeInv
  BY DEF Init, CodeInv, Progress, Emitted, EmittedRuns, KeywordRuns
<1>2. ASSUME OnList
      PROVE  RuleInv
  <2>1. /\ request \in Requests /\ at = 1 /\ result = "none"
        /\ ~ output.scalar /\ DOMAIN output.dict = {}
    BY DEF Init
  <2>2. 1 \in DOMAIN request.rule
    BY <1>2, <2>1, RuleDomain
  <2>3. Matching(at - 1) = {} /\ Open(at - 1)
    BY <2>1 DEF Matching, Open
  <2>4. OutputOf({})
    BY <2>1 DEF OutputOf, DictOf
  <2> QED
    BY <2>1, <2>2, <2>3, <2>4 DEF RuleInv
<1> QED
  BY <1>1, <1>2 DEF IInv

\* One more call of the handler keeps the count.
LEMMA InvokeKeepsInv ==
    ASSUME IInv, Invoke
    PROVE  CodeInv'
<1> DEFINE bound == Binds(Signature, Shape(at))
<1> USE DEF Signature, Shape, Returned
<1>1. PICK outcome \in Returned \cup {"TypeError", "ValueError", "Exception"} :
         /\ ~ bound => outcome = "TypeError"
         /\ effects' = IF bound THEN effects + 1 ELSE effects
         /\ raised' = IF bound /\ outcome \notin Returned
                      THEN raised \cup {outcome} ELSE raised
         /\ IF outcome \in Returned THEN Done(outcome)
            ELSE IF outcome \in Caught(at) THEN at' = at + 1 /\ UNCHANGED result
            ELSE Done("failed")
  BY DEF Invoke
<1>2. /\ request.executor = "code" /\ at # 0
      /\ Resolved(request) = "handler" /\ request' = request
  BY DEF Invoke
<1>3. CodeInv
  BY <1>2 DEF IInv
<1>4. result = "none" /\ Progress /\ at \in 1..6
  BY <1>2, <1>3 DEF CodeInv, Progress
<1>5. effects' \in Nat /\ result' \in {"none", "ok", "failed", "waiting"}
  BY <1>1, <1>3, <1>4 DEF CodeInv, Done
<1>6. (result' = "none" => Progress')
  <2> SUFFICES ASSUME result' = "none" PROVE Progress'
    OBVIOUS
  <2>1. outcome \notin Returned /\ outcome \in Caught(at) /\ at' = at + 1
    BY <1>1, <1>4 DEF Done
  <2>2. at \in 1..5 /\ outcome \in {"TypeError", "ValueError"}
    BY <2>1, <1>4 DEF Caught
  <2>3. raised' \subseteq {"TypeError", "ValueError"} /\ (raised' = {} => effects' = 0)
    BY <2>1, <2>2, <1>1, <1>4 DEF Progress
  <2>4. effects' = 0 => \A i \in 1..(at' - 1) : ~ Binds(Signature, Shape(i))
    <3> SUFFICES ASSUME effects' = 0, NEW i \in 1..at PROVE ~ Binds(Signature, Shape(i))
      BY <2>1, <2>2
    <3>1. ~ bound /\ effects = 0
      BY <1>1, <1>3 DEF CodeInv
    <3> QED
      BY <3>1, <1>4 DEF Progress
  <2> QED
    BY <2>1, <2>2, <2>3, <2>4, <1>2 DEF Progress
<1>7. (result' # "none" => at' = 0 /\ Ended')
  BY <1>1, <1>2, <1>3, <1>4 DEF CodeInv, Progress, Ended, Done, Caught
<1>8. (Emitted => EmittedRuns)'
  <2> SUFFICES ASSUME Emitted PROVE EmittedRuns'
    BY <1>2 DEF Emitted
  <2>1. at \in 3..5 => ~ bound
    BY EmittedShapes
  <2>2. CASE at = 1
    BY <2>2, <1>1, <1>3, <1>4 DEF CodeInv, EmittedRuns, Done, Caught
  <2>3. CASE at = 2
    BY <2>3, <1>1, <1>3, <1>4 DEF CodeInv, EmittedRuns, Done, Caught
  <2>4. CASE at \in 3..5
    BY <2>1, <2>4, <1>1, <1>3, <1>4 DEF CodeInv, EmittedRuns, Done, Caught
  <2>5. CASE at = 6
    BY <2>5, <1>1, <1>3, <1>4 DEF CodeInv, EmittedRuns, Done, Caught
  <2> QED
    BY <2>2, <2>3, <2>4, <2>5, <1>4
<1>9. (Signature.kwargs => KeywordRuns)'
  BY <1>1, <1>2, <1>3, <1>4 DEF CodeInv, Progress, KeywordRuns, Done, Caught
<1> QED
  BY <1>5, <1>6, <1>7, <1>8, <1>9 DEF CodeInv

\* A handler that cannot be resolved is not run.
LEMMA UnresolvedKeepsInv ==
    ASSUME IInv, Unresolved
    PROVE  CodeInv'
<1>1. /\ request.executor = "code" /\ at = 1 /\ Resolved(request) # "handler"
      /\ result' = "failed" /\ at' = 0
      /\ UNCHANGED <<request, effects, raised>>
  BY DEF Unresolved, Done
<1>2. CodeInv /\ result = "none"
  BY <1>1 DEF IInv, CodeInv
<1> QED
  BY <1>1, <1>2 DEF CodeInv, Progress, Ended, Emitted, EmittedRuns, KeywordRuns,
                    Signature, Shape

\* A branch that does not match leaves the output, one that does updates it.
LEMMA OutputGrows ==
    ASSUME NEW n \in Nat, n # 0, OutputOf(Matching(n - 1)), request' = request,
           IF Match(n)
           THEN output' = [scalar |-> FALSE,
                           dict |-> Updated(output.dict, request.rule[n].then)]
           ELSE output' = output
    PROVE  OutputOf(Matching(n))'
<1>1. \A i \in 1..n : Match(i)' <=> Match(i)
  BY DEF Match
<1>2. Matching(n)' = Matching(n)
  BY <1>1 DEF Matching
<1> DEFINE J == Matching(n - 1)
           then(i) == request.rule[i].then
<1>3. n \in 1..n /\ \A i \in 1..n : i = n \/ i \in 1..(n - 1)
  OBVIOUS
<1>4. \A i \in 1..(n - 1) : i \in 1..n /\ i < n
  OBVIOUS
<1>5. CASE ~ Match(n)
  <2>1. Matching(n) = J
    BY <1>3, <1>4, <1>5 DEF Matching
  <2>2. output' = output /\ request' = request /\ OutputOf(J)
    BY <1>5
  <2> QED
    BY ONLY <1>2, <2>1, <2>2 DEF OutputOf
<1>6. CASE Match(n)
  <2>1. Matching(n) = J \cup {n} /\ J \subseteq 1..(n - 1)
    BY <1>3, <1>4, <1>6 DEF Matching
  <2>2. output'.dict = Updated(output.dict, then(n))
    BY <1>6
  <2>3. /\ DOMAIN output'.dict = DOMAIN output.dict \cup DOMAIN then(n)
        /\ \A k \in DOMAIN output'.dict :
              output'.dict[k] = IF k \in DOMAIN then(n) THEN then(n)[k] ELSE output.dict[k]
    BY <2>2 DEF Updated
  <2>4. /\ DOMAIN output.dict = UNION {DOMAIN then(i) : i \in J}
        /\ \A k \in DOMAIN output.dict :
              output.dict[k] = then(Max({i \in J : k \in DOMAIN then(i)}))[k]
    BY DEF OutputOf, DictOf
  <2> HIDE DEF J, then
  <2>5. DOMAIN output'.dict = UNION {DOMAIN then(i) : i \in J \cup {n}}
    BY <2>3, <2>4
  <2>6. ASSUME NEW k \in DOMAIN output'.dict
        PROVE  output'.dict[k] = then(Max({i \in J \cup {n} : k \in DOMAIN then(i)}))[k]
    <3>1. CASE k \in DOMAIN then(n)
      <4>1. PICK S : S = {i \in J \cup {n} : k \in DOMAIN then(i)}
        OBVIOUS
      <4>2. n \in S /\ S \in SUBSET Nat /\ \A i \in S : i <= n
        <5>1. n \in S
          BY <3>1, <4>1
        <5>2. \A i \in S : i \in J \/ i = n
          BY <4>1
        <5>3. \A i \in J : i \in Nat /\ i <= n
          BY <2>1
        <5>4. n \in Nat /\ n <= n
          OBVIOUS
        <5> QED
          BY ONLY <5>1, <5>2, <5>3, <5>4
      <4>3. Max(S) = n
        BY <4>2, MaxIs
      <4> QED
        BY <2>3, <3>1, <4>1, <4>3
    <3>2. CASE k \notin DOMAIN then(n)
      <4>1. {i \in J \cup {n} : k \in DOMAIN then(i)} = {i \in J : k \in DOMAIN then(i)}
        BY <3>2
      <4>2. k \in DOMAIN output.dict /\ output'.dict[k] = output.dict[k]
        BY <2>3, <3>2
      <4> QED
        BY <2>4, <4>1, <4>2
    <3> QED
      BY <3>1, <3>2
  <2>7. DictOf(output'.dict, request.rule, J \cup {n})
    BY <2>5, <2>6 DEF DictOf, then
  <2>8. request' = request
    OBVIOUS
  <2> QED
    BY ONLY <1>2, <2>1, <2>7, <2>8 DEF OutputOf
<1> QED
  BY <1>5, <1>6

\* One more branch of a rule list.
LEMMA BranchKeepsInv ==
    ASSUME OnList, RuleInv, Branch
    PROVE  RuleInv'
<1>0. PICK n : n = at
  OBVIOUS
<1> DEFINE b == request.rule[n]
<1>1. /\ request' = request /\ at \in DOMAIN request.rule
      /\ request.executor = "rule" /\ request.shape = "list"
  BY DEF Branch
<1>2. /\ Len(request.rule) \in Nat /\ DOMAIN request.rule = 1..Len(request.rule)
  BY RuleDomain DEF RuleInv
<1>3. /\ n \in Nat /\ n # 0 /\ n <= Len(request.rule) /\ result = "none"
  BY <1>0, <1>1, <1>2 DEF RuleInv
<1>4. /\ Open(n - 1)
      /\ NoScalars => ~ output.scalar /\ OutputOf(Matching(n - 1))
  BY <1>0, <1>3 DEF RuleInv
<1>5. (AllOf(b.when, request.inputs) = "true") <=> Match(n)
  BY AllOfTrue DEF Match
<1>6. NoScalars => ~ b.scalar
  BY <1>0, <1>1 DEF NoScalars
<1>7. /\ NoScalars' <=> NoScalars
      /\ \A m : Open(m)' <=> Open(m)
      /\ \A i : Match(i)' <=> Match(i)
  BY <1>1 DEF NoScalars, Open, Match
<1>8. CASE result' = "failed" /\ at' = 0
  BY <1>1, <1>8 DEF RuleInv
<1>9. CASE ~ (result' = "failed" /\ at' = 0)
  <2>1. /\ ~ (Match(n) /\ ~ b.scalar /\ output.scalar)
        /\ AllOf(b.when, request.inputs) # "error"
        /\ output' = IF AllOf(b.when, request.inputs) = "false" THEN output
                     ELSE IF b.scalar THEN [scalar |-> TRUE, dict |-> << >>]
                     ELSE [scalar |-> FALSE, dict |-> Updated(output.dict, b.then)]
        /\ IF (AllOf(b.when, request.inputs) = "true" /\ b.stop) \/ n = Len(request.rule)
           THEN result' = "ok" /\ at' = 0 ELSE at' = n + 1 /\ result' = result
    BY <1>0, <1>5, <1>9 DEF Branch, Done
  <2>2. (AllOf(b.when, request.inputs) = "false") <=> ~ Match(n)
    BY <1>5, <2>1 DEF AllOf
  <2>3. NoScalars =>
           IF Match(n)
           THEN output' = [scalar |-> FALSE,
                           dict |-> Updated(output.dict, request.rule[n].then)]
           ELSE output' = output
    BY <1>6, <2>1, <2>2
  <2>4. NoScalars => OutputOf(Matching(n))' /\ ~ output'.scalar
    <3>1. ASSUME NoScalars
          PROVE  OutputOf(Matching(n))'
      <4>1. /\ OutputOf(Matching(n - 1)) /\ request' = request /\ n \in Nat /\ n # 0
            /\ IF Match(n)
               THEN output' = [scalar |-> FALSE,
                               dict |-> Updated(output.dict, request.rule[n].then)]
               ELSE output' = output
        BY <1>1, <1>3, <1>4, <2>3, <3>1
      <4> QED
        BY ONLY <4>1, OutputGrows
    <3> QED
      BY <1>4, <2>3, <3>1
  <2>5. CASE (Match(n) /\ b.stop) \/ n = Len(request.rule)
    <3>1. result' = "ok" /\ at' = 0
      BY <1>5, <2>1, <2>5
    <3>2. NoScalars' =>
             /\ n \in DOMAIN request'.rule /\ Open(n - 1)' /\ OutputOf(Matching(n))'
             /\ n = Len(request'.rule) \/ (Match(n)' /\ request'.rule[n].stop)
      BY <1>0, <1>1, <1>4, <1>7, <2>4, <2>5
    <3>3. request' \in Requests
      BY <1>1 DEF RuleInv
    <3> QED
      BY <3>1, <3>2, <3>3 DEF RuleInv
  <2>6. CASE ~ ((Match(n) /\ b.stop) \/ n = Len(request.rule))
    <3>1. at' = n + 1 /\ result' = "none"
      BY <1>3, <1>5, <2>1, <2>6
    <3>2. Open(n)
      BY <1>3, <1>4, <2>6 DEF Open
    <3>3. n + 1 \in DOMAIN request.rule /\ (n + 1) - 1 = n
      BY <1>2, <1>3, <2>6
    <3> QED
      BY <1>1, <1>7, <2>4, <3>1, <3>2, <3>3 DEF RuleInv
  <2> QED
    BY <2>5, <2>6
<1> QED
  BY <1>8, <1>9

\* Every step of an execution keeps the invariant.
THEOREM NextIsInductive == IInv /\ [Next]_vars => IInv'
<1> SUFFICES ASSUME IInv, [Next]_vars PROVE IInv'
  OBVIOUS
<1>1. CASE Unresolved
  BY <1>1, UnresolvedKeepsInv DEF Unresolved, IInv, OnList
<1>2. CASE Invoke
  BY <1>2, InvokeKeepsInv DEF Invoke, IInv, OnList
<1>3. CASE Branch
  <2>1. request.executor = "rule" /\ request.shape = "list" /\ request' = request
        /\ (OnList' <=> OnList)
    BY <1>3 DEF Branch, OnList
  <2> QED
    BY <1>3, <2>1, BranchKeepsInv DEF IInv
<1>4. CASE RuleOtherwise
  BY <1>4 DEF RuleOtherwise, IInv, OnList
<1>5. CASE Prepare
  BY <1>5 DEF Prepare, IInv, OnList
<1>6. CASE Respond
  BY <1>6 DEF Respond, IInv, OnList
<1>7. CASE AskModel
  BY <1>7 DEF AskModel, IInv, OnList
<1>8. CASE StandIn
  BY <1>8 DEF StandIn, IInv, OnList
<1>9. CASE UNCHANGED vars
  <2> USE <1>9 DEF vars
  <2>1. CodeInv => CodeInv'
    BY DEF CodeInv, Progress, Ended, Emitted, EmittedRuns, KeywordRuns, Signature, Shape
  <2>2. RuleInv => RuleInv'
    <3>1. /\ request' = request /\ at' = at /\ output' = output /\ result' = result
      OBVIOUS
    <3>2. \A i : Match(i)' <=> Match(i)
      BY ONLY <3>1 DEF Match
    <3>3. \A n : Matching(n)' = Matching(n)
      BY ONLY <3>2 DEF Matching
    <3>4. NoScalars' <=> NoScalars
      BY ONLY <3>1 DEF NoScalars
    <3>5. \A n : Open(n)' <=> Open(n)
      BY ONLY <3>1, <3>2 DEF Open
    <3>6. \A J : OutputOf(J)' <=> OutputOf(J)
      BY ONLY <3>1 DEF OutputOf
    <3> QED
      BY ONLY <3>1, <3>2, <3>3, <3>4, <3>5, <3>6 DEF RuleInv
  <2> QED
    BY <2>1, <2>2 DEF IInv, OnList
<1> QED
  BY <1>1, <1>2, <1>3, <1>4, <1>5, <1>6, <1>7, <1>8, <1>9 DEF Next

\* It holds of every execution.
LEMMA InductiveInvariant == Spec => []IInv
BY InitIsInductive, NextIsInductive, PTL DEF Spec

\* However a handler's body raises, it runs as often as HandlerRuns says, for any
\* signature and inputs (_invoke_callable).
THEOREM HandlersRunAsSaid == Spec => []HandlerRuns
<1>1. IInv => HandlerRuns
  BY DEF IInv, CodeInv, HandlerRuns, Progress, Ended, Emitted, EmittedRuns, KeywordRuns,
         Signature
<1> QED
  BY <1>1, InductiveInvariant, PTL

\* A handler that some call shape fits is not left out (_invoke_callable).
THEOREM FittingHandlersRun == Spec => []FittingHandlerRuns
<1>1. IInv => FittingHandlerRuns
  BY DEF IInv, CodeInv, FittingHandlerRuns, Ended, Signature, Shape
<1> QED
  BY <1>1, InductiveInvariant, PTL

\* The output of a rule list is that of the branches the scan reaches, the last one first
\* (RuleExecutor.execute).
THEOREM RuleOutputsAreReference == Spec => []RuleOutputIsReference
<1>1. IInv => RuleOutputIsReference
  <2> SUFFICES ASSUME IInv, OnList, result = "ok", NoScalars
               PROVE  RuleOutputIsReference
    BY DEF RuleOutputIsReference, OnList, NoScalars
  <2> DEFINE reached == {i \in DOMAIN request.rule :
                            Match(i) /\ \A h \in 1..(i - 1) :
                                           ~ (Match(h) /\ request.rule[h].stop)}
  <2>1. RuleInv
    BY DEF IInv
  <2>2. PICK n \in DOMAIN request.rule :
            /\ Open(n - 1) /\ OutputOf(Matching(n))
            /\ n = Len(request.rule) \/ (Match(n) /\ request.rule[n].stop)
    BY <2>1 DEF RuleInv
  <2>3. Len(request.rule) \in Nat /\ DOMAIN request.rule = 1..Len(request.rule)
    BY <2>1, RuleDomain DEF RuleInv
  <2>4. reached = Matching(n)
    <3>1. ASSUME NEW i \in Matching(n)
          PROVE  i \in reached
      <4>1. i \in 1..n /\ Match(i) /\ i \in DOMAIN request.rule
        BY <2>3, <3>1 DEF Matching
      <4>2. \A h \in 1..(i - 1) : h \in 1..(n - 1)
        BY <2>3, <4>1
      <4> QED
        BY <2>2, <4>1, <4>2 DEF Open
    <3>2. ASSUME NEW i \in reached
          PROVE  i \in Matching(n)
      <4>1. i \in DOMAIN request.rule /\ Match(i)
        OBVIOUS
      <4>2. ~ (n < i)
        <5> SUFFICES ASSUME n < i PROVE FALSE
          OBVIOUS
        <5>1. n \in 1..(i - 1) /\ n # Len(request.rule)
          BY <2>3, <4>1
        <5> QED
          BY <2>2, <5>1
      <4> QED
        BY <2>3, <4>1, <4>2 DEF Matching
    <3> QED
      BY <3>1, <3>2
  <2>5. OutputOf(reached)
    BY <2>2, <2>4
  <2> QED
    BY <2>5 DEF OutputOf, DictOf, RuleOutputIsReference, Match
<1> QED
  BY <1>1, InductiveInvariant, PTL
=============================================================================
