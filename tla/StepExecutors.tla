---------------------------- MODULE StepExecutors ----------------------------
(***************************************************************************)
(* One execution of a step by the executors of src/core/runtime/           *)
(* executors.py: CodeExecutor finds a handler and calls it in one shape    *)
(* after another until one takes, RuleExecutor evaluates its branches,     *)
(* HTTPExecutor checks and sends a request and follows redirects, and the  *)
(* model executors answer or stand in for a missing model.  HumanExecutor  *)
(* is modelled in WorkflowEngine.                                          *)
(***************************************************************************)
EXTENDS Integers, Sequences, FiniteSets, FiniteSetsExt

CONSTANTS CodeRequests, RuleRequests, HttpRequests, ModelRequests,
          MaxRedirects,   \* the redirects urllib follows before it gives up
          Absent          \* the value of an input that is not there

Requests == CodeRequests \cup RuleRequests \cup HttpRequests \cup ModelRequests

\* A rule that is not callable is evaluated when it is a list of branches.
ASSUME RuleAssumption ==
    \A r \in Requests : r.executor = "rule" /\ r.shape = "list" =>
        r.rule \in Seq({r.rule[i] : i \in DOMAIN r.rule})

VARIABLES request,   \* the step that is executed
          at,        \* the call shape, branch or hop that comes next, 0 when done
          effects,   \* how often the handler's or model's body has run, or a
                     \* request was sent
          raised,    \* the exceptions bodies have raised
          output,    \* a rule's output: no dictionary, or one
          result     \* the ActionResult: "none" yet, "ok", "failed" or "waiting";
                     \* "raised" when an exception leaves the executor

vars == <<request, at, effects, raised, output, result>>

Init == /\ request \in Requests
        /\ at = 1
        /\ effects = 0 /\ raised = {}
        /\ output = [scalar |-> FALSE, dict |-> << >>]
        /\ result = "none"

Done(r) == /\ at' = 0 /\ result' = r

(***************************************************************************)
(* CodeExecutor.  A request says how the handler is named, what the import *)
(* policy makes of the name, the handler's signature and the names of the  *)
(* inputs that are passed on (clean_inputs).                               *)
(***************************************************************************)

\* _import_callable: a callable, refused by the policy, or broken.
Imported(r) ==
    IF ~ r.path THEN "ValueError"
    ELSE IF ~ r.allowed THEN "PermissionError"
    ELSE IF r.importable THEN "handler" ELSE "ImportError"

\* _resolve_handler
Resolved(r) ==
    CASE r.ref = "registered" \/ r.ref = "callable" -> "handler"
      [] r.ref = "name" -> Imported(r)
      [] r.ref = "none" /\ r.action = "registered" -> "handler"
      [] r.ref = "none" /\ r.action = "dotted" ->
             IF Imported(r) \in {"handler", "PermissionError"}
             THEN Imported(r) ELSE "ValueError"
      [] OTHER -> "ValueError"

\* A signature without *args and keyword-only parameters: the required and
\* the optional parameters, whether it ends in **kwargs, whether all of them
\* are positional-only, and whether inspect can read it.
Params(s) == s.required \cup s.optional

Keywords(S) == [by |-> "keyword", names |-> S, count |-> 0]
Positional(n) == [by |-> "position", names |-> {}, count |-> n]
NoCall == [by |-> "none", names |-> {}, count |-> 0]

Binds(s, call) ==
    /\ call.by # "none"
    /\ IF call.by = "position" \/ call.names = {}
       THEN /\ Cardinality(s.required) <= call.count
            /\ call.count <= Cardinality(Params(s))
       ELSE /\ ~ s.positional
            /\ s.required \subseteq call.names
            /\ s.kwargs \/ call.names \subseteq Params(s)

\* The first call of _invoke_callable: arguments matched to the signature.
Matched(s, keys) ==
    IF s.opaque THEN NoCall
    ELSE IF Params(s) = {} /\ ~ s.kwargs THEN Positional(0)
    ELSE IF s.kwargs THEN Keywords(keys)
    ELSE IF /\ s.positional
            /\ IF Cardinality(Params(s)) = 1 THEN keys # {}
               ELSE Params(s) \subseteq keys
    THEN Positional(Cardinality(Params(s)))
    ELSE Keywords(keys \cap Params(s))

\* The calls in their order; the third is made for a single input only.
Calls(s, keys) ==
    <<Matched(s, keys), Keywords(keys),
      IF Cardinality(keys) = 1 THEN Positional(1) ELSE NoCall,
      Positional(1), Positional(2), Positional(0)>>

\* Mutant: every exception of every call leads on to a next one.
CaughtAll(n) == {"TypeError", "ValueError", "Exception"}

\* Mutant: the first call's TypeError is not caught.
CaughtValue(n) == CASE n = 1 -> {"ValueError"}
                    [] n \in 2..5 -> {"TypeError"}
                    [] OTHER -> {}

\* The exceptions that lead on to the next call.
Caught(n) == CASE n = 1 -> {"TypeError", "ValueError"}
               [] n \in 2..5 -> {"TypeError"}
               [] OTHER -> {}

Unresolved ==
    /\ request.executor = "code" /\ at = 1
    /\ Resolved(request) # "handler"
    /\ Done("failed")
    /\ UNCHANGED <<request, effects, raised, output>>

\* A handler that returns leaves a value, or an ActionResult of its own that is
\* the step's result: it may say that the step failed, or that it waits.
Returned == {"ok", "failed", "waiting"}

\* One call of the handler; a call that does not bind raises TypeError before
\* the body runs, and what a body does is the handler's affair.
Invoke ==
    LET s == request.signature
        call == Calls(s, request.keys)[at] IN
    /\ request.executor = "code" /\ at # 0
    /\ Resolved(request) = "handler"
    /\ \E outcome \in IF Binds(s, call)
                      THEN Returned \cup {"TypeError", "ValueError", "Exception"}
                      ELSE {"TypeError"} :
          /\ effects' = IF Binds(s, call) THEN effects + 1 ELSE effects
          /\ raised' = IF Binds(s, call) /\ outcome \notin Returned
                       THEN raised \cup {outcome} ELSE raised
          /\ IF outcome \in Returned THEN Done(outcome)
             ELSE IF outcome \in Caught(at)
             THEN at' = at + 1 /\ UNCHANGED result
             ELSE Done("failed")
    /\ UNCHANGED <<request, output>>

(***************************************************************************)
(* RuleExecutor.  A condition compares a field of the inputs, Absent when  *)
(* it is not there, with a value: a number, or a list of numbers.  Of a    *)
(* pattern it matters which values it is found in, and whether it is one.  *)
(***************************************************************************)
Number(n) == [kind |-> "number", items |-> {n}]
Container(S) == [kind |-> "container", items |-> S]

IsNumber(v) == v # Absent /\ v.kind = "number"
IsContainer(v) == v # Absent /\ v.kind = "container"

\* v in w, where w holds numbers.
Among(v, w) == IsNumber(v) /\ v.items \subseteq w.items

\* bool(v)
Truthy(v) == IF IsContainer(v) THEN v.items # {} ELSE v \notin {Absent, Number(0)}

Actual(c, inputs) == IF c.field \in DOMAIN inputs THEN inputs[c.field] ELSE Absent

\* _eval_condition: "true" or "false", "error" where Python raises.  Numbers are
\* ordered; two lists are not compared in the requests.
Truth(b) == IF b THEN "true" ELSE "false"
Order(op, x, y) ==
    IF ~ (IsNumber(x) /\ IsNumber(y)) THEN "error"
    ELSE Truth(\A m \in x.items, n \in y.items :
                  CASE op \in {">", "gt"}   -> m > n
                    [] op \in {">=", "gte"} -> m >= n
                    [] op \in {"<", "lt"}   -> m < n
                    [] op \in {"<=", "lte"} -> m <= n)

EvalCondition(c, inputs) ==
    LET x == Actual(c, inputs) IN
    CASE c.op \in {"==", "eq"}  -> Truth(x = c.value)
      [] c.op \in {"!=", "neq"} -> Truth(x # c.value)
      [] c.op \in {">", "gt", ">=", "gte", "<", "lt", "<=", "lte"} ->
             Order(c.op, x, c.value)
      [] c.op = "in"       -> Truth(IsContainer(c.value) /\ Among(x, c.value))
      [] c.op = "contains" -> Truth(IsContainer(x) /\ Among(c.value, x))
      [] c.op = "not_in" /\ IsContainer(c.value) -> Truth(~ Among(x, c.value))
      [] c.op \in {"matches", "regex"} /\ c.value.pattern -> Truth(x \in c.value.found)
      [] c.op \in {"exists", "not_null"} -> Truth(x # Absent)
      [] c.op = "truthy" -> Truth(Truthy(x))
      [] c.op = "falsy"  -> Truth(~ Truthy(x))
      [] OTHER -> "error"

\* all(...) over the conditions, which stops at the first that is not true.
AllOf(conditions, inputs) ==
    LET value(i) == EvalCondition(conditions[i], inputs) IN
    IF \A i \in DOMAIN conditions : value(i) = "true" THEN "true"
    ELSE IF \E i \in DOMAIN conditions :
               value(i) = "error" /\ \A j \in 1..(i - 1) : value(j) = "true"
    THEN "error" ELSE "false"

\* dict.update
Updated(old, new) ==
    [k \in DOMAIN old \cup DOMAIN new |-> IF k \in DOMAIN new THEN new[k] ELSE old[k]]

\* Mutant: a match does not end the scan, whatever the branch says.
BranchOn ==
    LET b == request.rule[at]
        m == AllOf(b.when, request.inputs) IN
    /\ request.executor = "rule" /\ request.shape = "list"
    /\ at \in DOMAIN request.rule
    /\ IF m = "error" \/ (m = "true" /\ ~ b.scalar /\ output.scalar)
       THEN Done("failed") /\ UNCHANGED output
       ELSE /\ output' = IF m = "false" THEN output
                         ELSE IF b.scalar
                         THEN [scalar |-> TRUE, dict |-> << >>]
                         ELSE [scalar |-> FALSE, dict |-> Updated(output.dict, b.then)]
            /\ IF at = Len(request.rule)
               THEN Done("ok") ELSE at' = at + 1 /\ UNCHANGED result
    /\ UNCHANGED <<request, effects, raised>>

\* One branch: a consequence that is a dictionary updates the output, another
\* replaces it, and then there is nothing left to update.
Branch ==
    LET b == request.rule[at]
        m == AllOf(b.when, request.inputs) IN
    /\ request.executor = "rule" /\ request.shape = "list"
    /\ at \in DOMAIN request.rule
    /\ IF m = "error" \/ (m = "true" /\ ~ b.scalar /\ output.scalar)
       THEN Done("failed") /\ UNCHANGED output
       ELSE /\ output' = IF m = "false" THEN output
                         ELSE IF b.scalar
                         THEN [scalar |-> TRUE, dict |-> << >>]
                         ELSE [scalar |-> FALSE, dict |-> Updated(output.dict, b.then)]
            /\ IF (m = "true" /\ b.stop) \/ at = Len(request.rule)
               THEN Done("ok") ELSE at' = at + 1 /\ UNCHANGED result
    /\ UNCHANGED <<request, effects, raised>>

\* A callable rule, or no usable rule: then the conditions among the inputs
\* decide, an empty rule list and a rule of another shape with them.
RuleOtherwise ==
    /\ request.executor = "rule" /\ at = 1
    /\ request.shape # "list" \/ request.rule = << >>
    /\ IF request.shape = "callable"
       THEN \E r \in {"ok", "failed"} : Done(r) /\ UNCHANGED output
       ELSE LET m == AllOf(request.conditions, request.inputs) IN
            IF m = "error" THEN Done("failed") /\ UNCHANGED output
            ELSE /\ Done("ok")
                 /\ output' = [scalar |-> FALSE, dict |-> [matched |-> m]]
    /\ UNCHANGED <<request, effects, raised>>

(***************************************************************************)
(* HTTPExecutor.  A request says what its url is, whether the placeholders *)
(* in it are filled, missing or malformed, whether the timeout is a number *)
(* and what the url names: a public or a private address, a host, or       *)
(* nothing (no scheme, no host name, or credentials).                      *)
(***************************************************************************)
Destinations == {"public", "private", "host", "malformed"}

\* The answers _validate_url may give, for a url and for the target of every
\* redirect.  A host is resolved for the check, and once more when urllib connects:
\* what it resolves to then is part of what Respond leaves open.
Valid(dest, private) ==
    CASE dest = "malformed" -> {FALSE}
      [] dest = "host" /\ ~ private -> BOOLEAN
      [] OTHER -> {private \/ dest # "private"}

Destination(r) == IF r.url # "absolute" /\ ~ r.base THEN "malformed" ELSE r.dest

\* Formatting a malformed template and reading a timeout happen outside the
\* try blocks: the exception leaves the executor.
Prepare ==
    /\ request.executor = "http" /\ at = 1 /\ effects = 0
    /\ \E valid \in Valid(Destination(request), request.private) :
          IF request.url = "empty" /\ ~ request.base
          THEN Done("failed") /\ UNCHANGED effects
          ELSE IF request.template = "malformed"
          THEN Done("raised") /\ UNCHANGED effects
          ELSE IF ~ valid
          THEN Done("failed") /\ UNCHANGED effects
          ELSE IF ~ request.timeout
          THEN Done("raised") /\ UNCHANGED effects
          ELSE effects' = 1 /\ UNCHANGED <<at, result>>
    /\ UNCHANGED <<request, raised, output>>

\* Mutant: the count of redirects starts again when it reaches its limit.
RespondAgain ==
    /\ request.executor = "http" /\ at # 0 /\ effects # 0
    /\ \/ \E r \in {"ok", "failed", "raised"} : Done(r)
       \/ \E dest \in Destinations :
             \E valid \in Valid(dest, request.private) :
                IF valid THEN at' = (at % MaxRedirects) + 1 /\ UNCHANGED result
                ELSE Done("failed")
    /\ UNCHANGED <<request, effects, raised, output>>

\* The server answers: a document, an HTTP error, a redirect, or nothing.  The body
\* of an HTTP error is read in the except clause, and may raise out of it.
Respond ==
    /\ request.executor = "http" /\ at # 0 /\ effects # 0
    /\ \/ \E r \in {"ok", "failed", "raised"} : Done(r) /\ UNCHANGED effects
       \/ /\ at <= MaxRedirects
          /\ \E dest \in Destinations :
                \E valid \in Valid(dest, request.private) :
                   IF valid
                   THEN /\ effects' = effects + 1
                        /\ at' = at + 1 /\ UNCHANGED result
                   ELSE Done("failed") /\ UNCHANGED effects
    /\ UNCHANGED <<request, raised, output>>

(***************************************************************************)
(* MLExecutor, SLMExecutor and LLMExecutor: with a model, client or        *)
(* inference handler it answers or raises; without one the executor        *)
(* answers itself.                                                         *)
(***************************************************************************)
AskModel ==
    /\ request.executor \in {"ml", "slm", "frontier_llm"} /\ at = 1
    /\ request.model # "missing"
    /\ IF request.template = "malformed" /\ request.executor # "ml"
       THEN Done("failed") /\ UNCHANGED <<effects, raised>>
       ELSE IF request.model = "unusable"
       THEN Done("failed") /\ UNCHANGED <<effects, raised>>
       ELSE \/ /\ effects' = effects + 1
               /\ Done("ok") /\ UNCHANGED raised
            \/ /\ effects' = effects + 1
               /\ raised' = {"Exception"} /\ Done("failed")
    /\ UNCHANGED <<request, output>>

\* A malformed prompt raises, and so do features without names when it is the
\* ML executor that answers (template "malformed" stands for both).
StandIn ==
    /\ request.executor \in {"ml", "slm", "frontier_llm"} /\ at = 1
    /\ request.model = "missing"
    /\ IF request.template = "malformed"
       THEN Done("failed") ELSE Done("ok")
    /\ UNCHANGED <<request, effects, raised, output>>

Next == \/ Unresolved \/ Invoke
        \/ Branch \/ RuleOtherwise
        \/ Prepare \/ Respond
        \/ AskModel \/ StandIn

Spec == Init /\ [][Next]_vars

\* One thread executes the step, and a handler, a model or a server it called
\* returns, raises or, after the request's timeout, breaks off.
FairSpec == Spec /\ WF_vars(Next)

-----------------------------------------------------------------------------
\* A body that never raises runs at most once however many call shapes are
\* tried before it binds, and once exactly when the step succeeds or waits, so a
\* failure it reports itself is not followed by another call.  One that
\* raises is run again in another call shape: the handlers a build emits,
\* run(**inputs), run up to three times in one execution of the step, up to
\* twice if they raise no TypeError, and once if they raise neither TypeError
\* nor ValueError (_invoke_callable).
HandlerRuns ==
    LET s == request.signature IN
    request.executor = "code" =>
        /\ raised = {} => effects <= 1 /\ (result \in {"ok", "waiting"} => effects = 1)
        /\ (Params(s) = {} /\ s.kwargs) =>
               /\ effects <= 3
               /\ "TypeError" \notin raised => effects <= 2
        /\ (s.kwargs /\ raised \subseteq {"Exception"}) => effects <= 1

\* A handler some call shape fits is run: a step fails without having run its
\* handler only when no shape fits (_invoke_callable).
FittingHandlerRuns ==
    request.executor = "code" /\ result = "failed" /\ effects = 0
        => \/ Resolved(request) # "handler"
           \/ \A i \in 1..6 : ~ Binds(request.signature,
                                      Calls(request.signature, request.keys)[i])

\* The output of a rule list that did not fail, without scalars: every key
\* has the value of the last reached branch that sets it, where a branch is
\* reached while no earlier one matched and stopped (RuleExecutor.execute).
RuleOutputIsReference ==
    LET rule == request.rule
        match(i) == \A j \in DOMAIN rule[i].when :
                        EvalCondition(rule[i].when[j], request.inputs) = "true"
        reached == {i \in DOMAIN rule :
                        match(i) /\ \A h \in 1..(i - 1) : ~ (match(h) /\ rule[h].stop)}
    IN (/\ request.executor = "rule" /\ request.shape = "list"
        /\ rule # << >> /\ result = "ok"
        /\ \A i \in DOMAIN rule : ~ rule[i].scalar)
       => /\ DOMAIN output.dict = UNION {DOMAIN rule[i].then : i \in reached}
          /\ \A k \in DOMAIN output.dict :
                output.dict[k] = rule[Max({i \in reached : k \in DOMAIN rule[i].then})].then[k]

\* Every execution comes to a result or to an exception the engine sees, whatever
\* call shapes fail, branches go on and redirects follow redirects: the engine,
\* which waits for it, is not held up for good (execute).
ExecutionEnds == <>(result # "none")
=============================================================================
