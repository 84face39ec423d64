--------------------------- MODULE StepAnalyzers ---------------------------
(***************************************************************************)
(* The analyzers that decide which executor tier an action is compiled to: *)
(* behavior classification, the determinism analyzer, the prediction       *)
(* analyzer and the language-model analyzer, and the compiler's order of   *)
(* asking them.                                                            *)
(*                                                                         *)
(* A name is the set of keyword classes it falls in.  A step is what the   *)
(* detectors can see of it:                                                *)
(*   url     "absolute", "other" or "none"; status: an HTTP answer came    *)
(*   calc    "exact", "bound" (a fitting formula), "numbers" or "none"     *)
(*   text    "transform", "template", "one_variable", "strings" or "none"  *)
(*   table   "hit" (a table and its key are in the input), "id", "few"     *)
(*           or "many" input keys                                          *)
(*   decides the output holds a flag or a known verdict                    *)
(*   copied  "all" or "most" output leaves come from the input, or "none"  *)
(*   inputs  the input has structured features                             *)
(*   fields  the output: field -> [type, value, long]                      *)
(***************************************************************************)
EXTENDS Naturals, FiniteSets, Sequences, SequencesExt, FiniteSetsExt

-----------------------------------------------------------------------------
(* Behavior contracts.                                                     *)

(***************************************************************************)
(* An execution hint decides; otherwise orderings against rules by the     *)
(* number of phrases found, an explicit "a before b" counting three.       *)
(***************************************************************************)
Ordering(b) == b.transition + (IF b.phrase THEN 3 ELSE 0)

Category(b) ==
    CASE b.hint # "none" -> b.hint
      [] b.hint = "none" /\ Ordering(b) > b.rule -> "transition"
      [] b.hint = "none" /\ Ordering(b) <= b.rule /\ b.rule > 0 -> "rule"
      [] OTHER -> "judge"

(* The orderings that reach the graph and the rules that name an action.   *)
StatedBy(behaviors) ==
    UNION {b.orders : b \in {x \in behaviors : Category(x) = "transition"}}

GovernedBy(behaviors, action, words) ==
    \E b \in behaviors :
        /\ Category(b) = "rule"
        /\ \/ action \in b.names \cup b.within
           \/ "pricing" \in words /\ b.pricing

-----------------------------------------------------------------------------
(* Determinism: what one step shows, as a pair of tier and score.          *)

Shows(when, tier, score) == IF when THEN {[tier |-> tier, score |-> score]} ELSE {}

HttpCall(s, words) ==
    LET named == "http_name" \in words
    IN  Shows(\/ s.url = "absolute"
              \/ named /\ (s.url = "other" \/ s.status), "http",
              CASE s.url = "absolute" /\ named -> 98
                [] s.url = "absolute" /\ ~named -> 92
                [] OTHER -> 85)

Arithmetic(s, words) ==
    Shows(\/ s.calc \in {"exact", "bound"}
          \/ s.calc = "numbers" /\ "math" \in words,
          IF "policy_name" \in words THEN "rule" ELSE "code",
          CASE s.calc = "exact" -> 100 [] s.calc = "bound" -> 95 [] OTHER -> 88)

Formatting(s, words) ==
    LET named == "format" \in words
    IN  Shows(\/ s.text \in {"transform", "template"}
              \/ s.text \in {"one_variable", "strings"} /\ named, "code",
              CASE s.text = "transform" -> 100
                [] s.text = "template" -> 98
                [] s.text = "one_variable" -> 88
                [] OTHER -> 80)

(* The compiler hands the lookup detector no earlier steps, so only what   *)
(* one step holds counts.                                                  *)
Lookup(s, words) ==
    Shows(\/ s.table = "hit"
          \/ "lookup" \in words /\ s.table \in {"id", "few"}, "code",
          CASE s.table = "hit" -> 100 [] s.table = "id" -> 92 [] OTHER -> 82)

Decision(s, words) ==
    LET named == "rule_name" \in words
    IN  Shows("connector" \notin words /\ (named \/ s.decides), "rule",
              CASE named /\ s.decides -> 95 [] named /\ ~s.decides -> 90
                [] OTHER -> 78)

Projection(s, words) ==
    LET named == "transform" \in words
    IN  Shows(s.copied # "none" \/ named, "code",
              CASE s.copied = "all" -> 95
                [] s.copied = "most" -> IF named THEN 95 ELSE 85
                [] OTHER -> 80)

(* The detectors, most specific first.                                     *)
Detected(s, words) ==
    <<HttpCall(s, words), Arithmetic(s, words), Formatting(s, words),
      Lookup(s, words), Decision(s, words), Projection(s, words)>>

(* Mutant: a later detector wins a tie.                                    *)
BetterOrEqual(best, found) ==
    IF best = {} \/ \E d \in found, e \in best : d.score >= e.score
    THEN found ELSE best

Better(best, found) ==
    IF best = {} \/ \E d \in found, e \in best : d.score > e.score
    THEN found ELSE best

(***************************************************************************)
(* The detectors are tried in turn; one of at least 70 that beats the best *)
(* so far replaces it, and one of at least 99 ends the search.  A step     *)
(* without output is not looked at.                                        *)
(***************************************************************************)
Pattern(s, words) ==
    LET detected == Detected(s, words)
        best[n \in 0..Len(detected)] ==
            IF n = 0 THEN {}
            ELSE IF \E d \in best[n - 1] : d.score >= 99 THEN best[n - 1]
            ELSE Better(best[n - 1], {d \in detected[n] : d.score >= 70})
    IN  IF DOMAIN s.fields = {} THEN {} ELSE best[Len(detected)]

(* What it stands for: the highest score, the earliest detector on a tie.  *)
EarliestBest(s, words) ==
    LET found == Detected(s, words)
        best(i) == \A d \in found[i] : \A j \in DOMAIN found : \A e \in found[j] :
                      d.score >= e.score /\ (j < i => d.score > e.score)
    IN  UNION {found[i] : i \in {j \in DOMAIN found : best(j)}}

Replayable(s) == s.cmds # <<>> \/ s.patch # <<>>
AllReplayable(steps) == steps # <<>> /\ \A s \in ToSet(steps) : Replayable(s)

(* Keywords, in the order they are tried, and the tier each stands for.    *)
Keywords == <<<<"RULE", "rule">>, <<"CONSTANT", "code">>, <<"SQL", "code">>,
              <<"HTTP", "code">>, <<"CODE", "code">>>>

Keyword(words) == SelectInSeq(Keywords, LAMBDA k : k[1] \in words)

(* The first step that shows a pattern decides.                            *)
Deciding(steps, words) ==
    SelectInSeq(steps, LAMBDA s : Pattern(s, words) # {})

Deterministic(action, steps, words, governed) ==
    IF AllReplayable(steps) THEN "code"
    ELSE IF governed THEN "rule"
    ELSE IF Deciding(steps, words) # 0
         THEN LET d == CHOOSE d \in Pattern(steps[Deciding(steps, words)], words) : TRUE
              IN  IF d.tier = "rule" THEN "rule" ELSE "code"
    ELSE IF Keyword(words) # 0 THEN Keywords[Keyword(words)][2]
    ELSE "none"

-----------------------------------------------------------------------------
(* Prediction: a target field all steps share that a model could learn.    *)

Values(steps, f) == [i \in DOMAIN steps |-> steps[i].fields[f]]
Common(steps) == {f \in UNION {DOMAIN s.fields : s \in ToSet(steps)} :
                    \A s \in ToSet(steps) : f \in DOMAIN s.fields}

Categorical(f, values) ==
    LET keyword == f = "label"
        classes == {v.value : v \in ToSet(values)}
        typed(t) == \A v \in ToSet(values) : v.type = t
    IN  /\ Cardinality(classes) \in 2..50
        /\ \A v \in ToSet(values) : ~v.long
        /\ \/ typed("bool")
           \/ /\ typed("str")
              /\ \/ Cardinality(classes) < Len(values)
                 \/ Len(values) < 4
                 \/ keyword
           \/ typed("int") /\ (Cardinality(classes) <= 10 \/ keyword)

Score(f, values) ==
    /\ \A v \in ToSet(values) : v.type \in {"int", "float"}
    /\ \/ f = "score"
       \/ \E v \in ToSet(values) : v.type = "float"
       \/ Cardinality({v.value : v \in ToSet(values)}) > 5

Learnable(steps) ==
    /\ Len(steps) >= 2
    /\ \A s \in ToSet(steps) : s.inputs /\ DOMAIN s.fields # {}
    /\ \E f \in Common(steps) :
          \/ Categorical(f, Values(steps, f))
          \/ Score(f, Values(steps, f))

Predicted(steps, words) ==
    CASE "vector" \in words -> "code"
      [] "vector" \notin words /\ (Learnable(steps) \/ "predict" \in words) -> "ml"
      [] OTHER -> "none"

(* A narrow writing task: by a known pattern, or a general word in a name  *)
(* without a computing one.                                                *)
Generative(words) ==
    "writing" \in words \/ ("general" \in words /\ "computing" \notin words)

-----------------------------------------------------------------------------
Models == {"ml", "slm", "frontier_llm"}

(* The tier of an action: the first analyzer that claims it.               *)
Lowered(action, steps, words, governed) ==
    IF "gate" \in words THEN "human"
    ELSE IF Deterministic(action, steps, words, governed) # "none"
         THEN Deterministic(action, steps, words, governed)
    ELSE IF Predicted(steps, words) # "none" THEN Predicted(steps, words)
    ELSE IF Generative(words) THEN "slm" ELSE "frontier_llm"
=============================================================================
