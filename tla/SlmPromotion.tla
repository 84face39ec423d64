---------------------------- MODULE SlmPromotion ----------------------------
(***************************************************************************)
(* `owc build promote` and `demote` (promote, evaluate and demote of       *)
(* src/core/build/slm.py) on one build directory.                          *)
(*                                                                         *)
(* A command is a process that writes work.yaml, the .work source,         *)
(* MANIFEST.json and the files under models/slm/<action> one after the     *)
(* other, one action per file here, and may die between two of them.       *)
(* Commands of one build run one at a time.                                *)
(***************************************************************************)
EXTENDS SlmGate

CONSTANTS
    Actions,       \* the actions of the work that have a model to promote
    Emitted,       \* the executor type of each in the emitted work.yaml
    Synthesized,   \* the code actions whose content an agent synthesized
    Models,        \* small models an operator may try
    Examples,      \* the recorded occurrences of each action, a sequence
    Answers(_),    \* what a model may answer for an example
    Rates,         \* the rates of the runtime: quality, recall, precision
    None,          \* no runtime file, no promotion file
    MaxCommands    \* bound: commands issued

Types == {"frontier_llm", "code", "slm", "human"}

ASSUME EmittedTypes == Emitted \in [Actions -> Types]
ASSUME SynthesizedAreCode == \A a \in Synthesized : Emitted[a] = "code"
ASSUME NoneIsNoValue == None \notin Models \cup Types
ASSUME RatesArePercent ==
    {Rates.quality, Rates.recall, Rates.precision} \subseteq 0..100
ASSUME BoundIsNatural == MaxCommands \in Nat

IsList(s) == s \in Seq({s[i] : i \in DOMAIN s})

\* The recorded occurrences, the files of a recorded patch and those of an answer
\* are in order; files and texts have finitely many facts.
ASSUME ExamplesAreRecorded ==
    \A a \in Actions :
        /\ IsList(Examples[a])
        /\ \A i \in DOMAIN Examples[a] :
              LET e == Examples[a][i] IN
              \/ /\ e.mode = "files" /\ IsList(e.recorded)
                 /\ \A j \in DOMAIN e.recorded : IsFiniteSet(e.recorded[j].facts)
                 /\ \A answer \in Answers(e) : answer.ok => IsList(answer.files)
              \/ /\ e.mode = "text" /\ IsFiniteSet(e.recorded \cup e.params)
                 /\ \A answer \in Answers(e) :
                       answer.ok => IsFiniteSet(Stated(answer.text))

VARIABLES spec,      \* executors[a].type in work.yaml
          source,    \* the tier and the escalation of a in the .work file
          runtime,   \* the model in runtime.json, None without the file
          info,      \* previous_executor in promotion.json, None without
          manifest,  \* the promotions listed in MANIFEST.json
          report,    \* the result PROMOTION.md shows
          cmd,       \* the command that runs
          issued,    \* commands issued so far
          judged,    \* quality_records.jsonl: the last batch of each pair
          torn,      \* observer: a command died half-way
          again      \* observer: actions promoted while they were on the slm tier

disk == <<spec, source, runtime, info, manifest, report>>
seen == <<issued, judged, torn, again>>
vars == <<disk, cmd, seen>>

Idle == [op |-> "none", at |-> "idle"]

\* The tier word of the .work file for an executor type.
Tier(type) == IF type = "frontier_llm" THEN "llm" ELSE type

Init == /\ spec = Emitted
        /\ source = [a \in Actions |->
                        [tier |-> Tier(Emitted[a]),
                         esc |-> IF a \in Synthesized THEN "agent"
                                 ELSE IF Emitted[a] = "code" THEN "none"
                                 ELSE IF Emitted[a] = "slm" THEN "slm_until_promoted"
                                 ELSE Emitted[a]]]
        /\ runtime = [a \in Actions |-> None]
        /\ info = [a \in Actions |-> None]
        /\ manifest = << >>
        /\ report = [a \in Actions |-> "none"]
        /\ cmd = Idle
        /\ issued = 0
        /\ judged = [p \in Actions \X Models |-> << >>]
        /\ torn = FALSE
        /\ again = {}

(***************************************************************************)
(* evaluate: the model answers every recorded occurrence of the action; an *)
(* example with a recorded patch is answered with files and judged by the  *)
(* exact file gate, another with a text.                                   *)
(***************************************************************************)
Passed(e, answer) ==
    IF e.mode = "files"
    THEN FileGate(e.recorded, answer.files, e.context, e.params, TRUE)
    ELSE Holds(TextGate(answer.text, e.context, e.recorded, e.params, Rates, 0))

RecordOf(a, e, answer) ==
    IF ~ answer.ok THEN SlmRecord(a, FALSE, {FALSE}, FALSE, e.mode = "text")
    ELSE IF e.mode = "files"
    THEN LET ok == Passed(e, answer) IN SlmRecord(a, TRUE, {ok}, ok, FALSE)
    ELSE LET checks == TextGate(answer.text, e.context, e.recorded, e.params,
                                Rates, 0) IN
         SlmRecord(a, TRUE, {checks[c] : c \in DOMAIN checks},
                   checks.grounded, TRUE)

Records(a, answers) ==
    [i \in DOMAIN answers |-> RecordOf(a, Examples[a][i], answers[i])]

Gate == [quality |-> Rates.quality, compliance |-> 100,
         latency |-> NoLimit, cost |-> NoLimit]

\* pass_rate, 0 without records, against min_quality: what a report of a dry
\* run goes by.
PassRateReached(records) ==
    /\ records # << >>
    /\ 100 * Cardinality(Folded(DOMAIN records, records, "PASS"))
           >= Rates.quality * Len(records)

Evaluate(a, m, dry, answers) ==
    /\ cmd = Idle /\ issued < MaxCommands
    /\ issued' = issued + 1
    /\ judged' = [judged EXCEPT ![<<a, m>>] = answers]
    /\ LET records == Records(a, answers)
           passed == EvaluatePromotion(a, records, Gate) IN
       cmd' = [op |-> "promote", action |-> a, model |-> m,
               previous |-> None,
               result |-> IF passed /\ ~ dry THEN "promoted"
                          ELSE IF dry /\ PassRateReached(records)
                          THEN "would promote" ELSE "refused",
               at |-> IF passed /\ ~ dry THEN "runtime" ELSE "report"]
    /\ UNCHANGED <<disk, torn, again>>

Goto(step) == cmd' = [cmd EXCEPT !.at = step]

At(op, step) == cmd.op = op /\ cmd.at = step

\* rt.save
SaveRuntime ==
    /\ At("promote", "runtime")
    /\ runtime' = [runtime EXCEPT ![cmd.action] = cmd.model]
    /\ Goto("spec")
    /\ UNCHANGED <<spec, source, info, manifest, report, seen>>

\* load_work_ir, and save_work_ir unless the executor is code: a synthesized
\* code step keeps its handler and gets the model in front of its agent.
SaveSpec ==
    /\ At("promote", "spec")
    /\ LET previous == spec[cmd.action] IN
       /\ spec' = [spec EXCEPT ![cmd.action] =
                      IF previous = "code" THEN "code" ELSE "slm"]
       /\ cmd' = [cmd EXCEPT !.previous = previous,
                             !.at = IF previous = "code" THEN "escalation"
                                    ELSE "tier"]
       /\ again' = IF previous = "slm" THEN again \cup {cmd.action} ELSE again
    /\ UNCHANGED <<source, runtime, info, manifest, report, issued, judged, torn>>

FlipTier ==
    /\ At("promote", "tier")
    /\ source' = [source EXCEPT ![cmd.action].tier = "slm"]
    /\ Goto("info")
    /\ UNCHANGED <<spec, runtime, info, manifest, report, seen>>

FlipEscalation ==
    /\ At("promote", "escalation")
    /\ source' = [source EXCEPT ![cmd.action].esc =
                      IF @ = "none" THEN @ ELSE "slm_then_agent"]
    /\ Goto("info")
    /\ UNCHANGED <<spec, runtime, info, manifest, report, seen>>

SaveInfo ==
    /\ At("promote", "info")
    /\ info' = [info EXCEPT ![cmd.action] = cmd.previous]
    /\ Goto("manifest")
    /\ UNCHANGED <<spec, source, runtime, manifest, report, seen>>

UpdateManifest ==
    /\ cmd.at = "manifest"
    /\ manifest' = Append(manifest,
           IF cmd.op = "promote"
           THEN [action |-> cmd.action, from |-> cmd.previous, to |-> "slm"]
           ELSE [action |-> cmd.action, from |-> "slm", to |-> cmd.previous])
    /\ IF cmd.op = "promote" THEN Goto("report") ELSE cmd' = Idle
    /\ UNCHANGED <<spec, source, runtime, info, report, seen>>

\* PROMOTION.md and promotion_eval.json
WriteReport ==
    /\ At("promote", "report")
    /\ report' = [report EXCEPT ![cmd.action] = cmd.result]
    /\ cmd' = Idle
    /\ UNCHANGED <<spec, source, runtime, info, manifest, seen>>

(***************************************************************************)
(* demote, refused without promotion.json.                                 *)
(***************************************************************************)
\* Mutant: work.yaml is loaded and not saved.
DemoteUnsaved(a) ==
    /\ cmd = Idle /\ issued < MaxCommands
    /\ info[a] # None
    /\ issued' = issued + 1
    /\ cmd' = [op |-> "demote", action |-> a, model |-> None,
               previous |-> info[a], result |-> "demoted", at |-> "tier"]
    /\ UNCHANGED <<disk, judged, torn, again>>

Demote(a) ==
    /\ cmd = Idle /\ issued < MaxCommands
    /\ info[a] # None
    /\ issued' = issued + 1
    /\ spec' = [spec EXCEPT ![a] = info[a]]
    /\ cmd' = [op |-> "demote", action |-> a, model |-> None,
               previous |-> info[a], result |-> "demoted", at |-> "tier"]
    /\ UNCHANGED <<source, runtime, info, manifest, report, judged, torn, again>>

RestoreTier ==
    /\ At("demote", "tier")
    /\ source' = [source EXCEPT ![cmd.action].tier = Tier(cmd.previous)]
    /\ Goto("runtime")
    /\ UNCHANGED <<spec, runtime, info, manifest, report, seen>>

\* Mutant: demote leaves the runtime where it is.
KeepRuntime ==
    /\ At("demote", "runtime")
    /\ Goto("info")
    /\ UNCHANGED <<disk, seen>>

UnlinkRuntime ==
    /\ At("demote", "runtime")
    /\ runtime' = [runtime EXCEPT ![cmd.action] = None]
    /\ Goto("info")
    /\ UNCHANGED <<spec, source, info, manifest, report, seen>>

UnlinkInfo ==
    /\ At("demote", "info")
    /\ info' = [info EXCEPT ![cmd.action] = None]
    /\ Goto("manifest")
    /\ UNCHANGED <<spec, source, runtime, manifest, report, seen>>

\* The process dies: what it wrote stays.
Die == /\ cmd # Idle
       /\ cmd' = Idle
       /\ torn' = TRUE
       /\ UNCHANGED <<disk, issued, judged, again>>

Step == \/ SaveRuntime \/ SaveSpec \/ FlipTier \/ FlipEscalation \/ SaveInfo
        \/ UpdateManifest \/ WriteReport
        \/ RestoreTier \/ UnlinkRuntime \/ UnlinkInfo

AnswerLists(a) ==
    {f \in [DOMAIN Examples[a] -> UNION {Answers(Examples[a][i]) :
                                         i \in DOMAIN Examples[a]}] :
        \A i \in DOMAIN Examples[a] : f[i] \in Answers(Examples[a][i])}

Next == \/ \E a \in Actions, m \in Models, dry \in BOOLEAN :
               \E answers \in AnswerLists(a) : Evaluate(a, m, dry, answers)
        \/ Step
        \/ \E a \in Actions : Demote(a)
        \/ Die

Spec == Init /\ [][Next]_vars

-----------------------------------------------------------------------------
\* Every file, the command and the observers are of their types.
Escalations == {"none", "agent", "slm_then_agent", "slm_until_promoted"} \cup Types
Results == {"promoted", "would promote", "refused"}
Commands ==
    [op : {"promote"}, action : Actions, model : Models,
     previous : Types \cup {None}, result : Results,
     at : {"runtime", "spec", "tier", "escalation", "info", "manifest", "report"}]
    \cup
    [op : {"demote"}, action : Actions, model : {None}, previous : Types,
     result : {"demoted"}, at : {"tier", "runtime", "info", "manifest"}]

TypeOK ==
    /\ spec \in [Actions -> Types]
    /\ source \in [Actions -> [tier : Types \cup {"llm"}, esc : Escalations]]
    /\ runtime \in [Actions -> Models \cup {None}]
    /\ info \in [Actions -> Types \cup {None}]
    /\ manifest \in Seq([action : Actions, from : Types, to : Types])
    /\ report \in [Actions -> Results \cup {"none"}]
    /\ cmd \in Commands \cup {Idle}
    /\ issued \in 0..MaxCommands
    /\ torn \in BOOLEAN /\ again \subseteq Actions

\* runtime.json is written before work.yaml names the tier and is removed
\* after work.yaml has the old executor back: at no moment, also of a command
\* that dies, is an action on the slm tier without a runtime to serve it,
\* unless it came so from the compiler or was promoted twice.
SlmTierIsBacked ==
    \A a \in Actions :
        spec[a] = "slm" /\ Emitted[a] # "slm" /\ a \notin again
        => runtime[a] # None

\* Between commands none of which died, the files of a build agree: the .work
\* source names the tier of work.yaml, and promotion.json is there exactly
\* when runtime.json is, so that what serves can also be demoted.
FilesAgree ==
    cmd = Idle /\ ~ torn =>
        \A a \in Actions : /\ source[a].tier = Tier(spec[a])
                           /\ (info[a] # None) <=> (runtime[a] # None)

\* A text as good as the recording, at the rates asked for: it asserts the asked
\* share of the grounded facts of the recording and of the parameters, denies
\* none of them without asserting it, and makes up no more than it may.
FaithfulText(e, t) ==
    LET wanted == (e.recorded \cap e.context) \cup e.params IN
    /\ AtLeast(Rates.recall, wanted, t.plain)
    /\ wanted \cap t.cued \subseteq t.plain
    /\ AtLeast(Rates.precision, t.plain \cup t.cued,
               e.context \cup e.recorded \cup e.params)
    /\ ~ t.blank /\ ~ t.placeholder

\* Every recorded file is there: a JSON file with the recorded values, another
\* with all but at most a fifth of the facts its recording took from the context.
Regenerates(e, r, f) ==
    /\ f.base = r.base
    /\ IF r.tag = "json" THEN f.like = Path(r) /\ f.content = "exact"
       ELSE LET wanted == r.facts \cap e.context IN
            /\ f.content # "garbage"
            /\ 5 * Cardinality(wanted \ f.facts) <= Cardinality(wanted)

FaithfulFiles(e, files) ==
    \A i \in DOMAIN e.recorded :
        \E j \in DOMAIN files : Regenerates(e, e.recorded[i], files[j])

Faithful(e, answer) ==
    /\ answer.ok
    /\ IF e.mode = "text" THEN FaithfulText(e, answer.text)
       ELSE FaithfulFiles(e, answer.files)

\* On the asked share of the recorded examples of a the answer was faithful.
Convinces(a, answers) ==
    LET n == Len(answers) IN
    /\ n > 0
    /\ 100 * Cardinality({i \in 1..n : Faithful(Examples[a][i], answers[i])})
           >= Rates.quality * n

\* The pairs of an action and a model whose last evaluation was convincing.
Convincing == {p \in Actions \X Models : Convinces(p[1], judged[p])}

\* The gate lets no unfaithful answer to e through.
Sharp(e) == \A answer \in Answers(e) :
                answer.ok /\ Passed(e, answer) => Faithful(e, answer)

SharpOn(a) == \A i \in DOMAIN Examples[a] : Sharp(Examples[a][i])

\* The abstract switch: a model serves an action only after it convinced.
Switch == INSTANCE TierSwitch
              WITH serving <- runtime, convincing <- Convincing

\* promote and demote implement it, crashes included.
Implements == Switch!Spec

\* "exact=True (promotion, same parameters): the regenerated values must
\* equal the recorded ones" (gate_files): a model that serves a file step
\* regenerated every recorded file, a JSON file with the recorded values.
PromotedFilesAreRegenerated ==
    [][\A a \in Actions :
          /\ runtime'[a] # runtime[a] /\ runtime'[a] # None
          /\ \A i \in DOMAIN Examples[a] : Examples[a][i].mode = "files"
          => <<a, runtime'[a]>> \in Convincing]_vars
=============================================================================
