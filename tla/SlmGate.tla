------------------------------ MODULE SlmGate ------------------------------
(***************************************************************************)
(* The deterministic gates of the local-model tier, src/core/build/slm.py: *)
(* gate judges a text, gate_files the files of a derivation step, and      *)
(* quality_record turns either verdict into a record for the optimizer.    *)
(* Operators only.                                                         *)
(*                                                                         *)
(* A text is what the extractors find in it: the facts of its plain        *)
(* sentences, those of its sentences with a negation cue, whether it is    *)
(* blank, far longer than the recording, or still holds the placeholder.   *)
(***************************************************************************)
EXTENDS QualityRecords

Text(F) == [plain : SUBSET F, cued : SUBSET F, blank : BOOLEAN,
            long : BOOLEAN, placeholder : BOOLEAN]

\* extract_facts, negated_facts and anchors.
Stated(t) == t.plain \cup t.cued
Negated(t) == t.cued \ t.plain
Anchors(recorded, context) == recorded \cap context

\* The share of S that is also in T is at least rate percent; an empty S has it.
AtLeast(rate, S, T) == 100 * Cardinality(S \cap T) >= rate * Cardinality(S)

\* Mutant: a fact counts as restated wherever it stands.
TextGateUncued(t, context, recorded, given, rt, minFacts) ==
    LET required == Anchors(recorded, context) \cup given
        allowed == context \cup recorded \cup required IN
    [non_empty |-> ~ t.blank,
     anchor_recall |-> AtLeast(rt.recall, required, Stated(t)),
     grounded |-> AtLeast(rt.precision, Stated(t), allowed),
     length |-> ~ t.long,
     no_placeholder |-> ~ t.placeholder,
     fact_density |-> Cardinality(Stated(t) \cap allowed) >= minFacts,
     negation_cues |-> TRUE]

\* gate: context and recorded are fact sets, given the facts of the run's
\* parameters, rt the rates of the runtime.
TextGate(t, context, recorded, given, rt, minFacts) ==
    LET required == Anchors(recorded, context) \cup given
        asserted == Stated(t) \ Negated(t)
        allowed == context \cup recorded \cup required IN
    [non_empty |-> ~ t.blank,
     anchor_recall |-> AtLeast(rt.recall, required, asserted),
     grounded |-> AtLeast(rt.precision, Stated(t), allowed),
     length |-> ~ t.long,
     no_placeholder |-> ~ t.placeholder,
     fact_density |-> Cardinality(asserted \cap allowed) >= minFacts,
     negation_cues |-> required \cap Negated(t) = {}]

Holds(checks) == \A c \in DOMAIN checks : checks[c]

(***************************************************************************)
(* gate_files.  A recorded file is [dir, base, tag, facts]: the tag is its *)
(* suffix, the facts are what the extractors find in it.  A regenerated    *)
(* file adds what its content is: which recorded file it is like, how good *)
(* it is, whether it states a number found nowhere else, which parameters  *)
(* it mentions, and the placeholder.  recorded and files are sequences, in *)
(* the order of the patch and of the model's answer.                       *)
(***************************************************************************)
Path(f) == <<f.dir, f.base>>

\* Of JSON: exact, the recorded values; derived, other values under the recorded
\* relations and pairs; the others break a relation, pair values the context
\* does not pair, have another key tree, or are no JSON (no text at all).  Of
\* another file only garbage is told apart, its facts decide the rest.
Content == {"exact", "derived", "broken", "unpaired", "structure", "garbage"}

\* _match: the first regenerated file with the name of the expected one.
Match(e, files) == {i \in DOMAIN files : files[i].base = e.base}

FileSet(recorded, files) ==
    IF recorded = << >> THEN files # << >>
    ELSE /\ \A i \in DOMAIN recorded : Match(recorded[i], files) # {}
         /\ Len(files) = Len(recorded)

\* What was written for recorded file e: the empty text when nothing matches.
NoText == [content |-> "garbage", facts |-> {}]
Written(e, files) ==
    IF Match(e, files) = {} THEN NoText ELSE files[Min(Match(e, files))]

\* What a JSON text is as the recorded file e.
As(e, f) ==
    IF f.content = "garbage" THEN "garbage"
    ELSE IF f.like = Path(e) THEN f.content ELSE "structure"

JsonChecks(state, exact) ==
    IF state = "garbage" THEN [json_parses |-> FALSE]
    ELSE IF exact
    THEN [json_parses |-> TRUE, json_structure |-> state # "structure",
          json_values |-> state = "exact"]
    ELSE [json_parses |-> TRUE, json_structure |-> state # "structure",
          json_relations |-> state # "broken",
          json_pairs_grounded |-> state # "unpaired"]

\* Of the anchors of a recording that is not JSON up to a fifth, rounded down,
\* may be missing.
AnchorsKept(e, f, context) ==
    LET wanted == Anchors(e.facts, context) IN
    Cardinality(wanted \ f.facts) <= Cardinality(wanted) \div 5

OtherChecks(e, f, context, exact) ==
    IF exact THEN [md_present |-> f.content # "garbage",
                   md_anchors |-> AnchorsKept(e, f, context)]
    ELSE [md_present |-> f.content # "garbage"]

ChecksOf(e, f, context, exact) ==
    IF e.tag = "json" THEN JsonChecks(As(e, f), exact)
    ELSE OtherChecks(e, f, context, exact)

\* The checks are kept under the suffix: of several files with one suffix,
\* the last that sets a check decides it.
FileChecks(recorded, files, context, exact) ==
    LET of == [i \in DOMAIN recorded |->
                  ChecksOf(recorded[i], Written(recorded[i], files), context, exact)]
        names == UNION {DOMAIN of[i] : i \in DOMAIN recorded} IN
    [c \in names |-> of[Max({i \in DOMAIN of : c \in DOMAIN of[i]})][c]]

CrossFile(files) ==
    (\E i \in DOMAIN files : files[i].tag = "json" /\ files[i].content # "garbage")
    => \A i \in DOMAIN files : files[i].tag # "json" => ~ files[i].loose

FileGate(recorded, files, context, params, exact) ==
    /\ FileSet(recorded, files)
    /\ Holds(FileChecks(recorded, files, context, exact))
    /\ CrossFile(files)
    /\ \A p \in params : \E i \in DOMAIN files : p \in files[i].mentions
    /\ \A i \in DOMAIN files : ~ files[i].placeholder

(***************************************************************************)
(* quality_record: the verdict of one evaluation as a record of action a.  *)
(* A failed inference has the single check inference_ok, which is False.   *)
(***************************************************************************)
SlmRecord(a, inferred, checks, grounded, invariants) ==
    [action |-> a, approved |-> "absent", ratings |-> {},
     checks |-> checks \cup {inferred},
     behaviors |-> {IF grounded THEN "true" ELSE "false"}
                       \cup (IF invariants THEN {"na"} ELSE {}),
     latency |-> 0, cost |-> 0]
=============================================================================
