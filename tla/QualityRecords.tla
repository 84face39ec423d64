--------------------------- MODULE QualityRecords ---------------------------
(***************************************************************************)
(* Quality records and the promotion decision taken on them:               *)
(* src/core/validation/quality_record.py and evaluate_promotion of         *)
(* src/core/optimizer/optimizer.py.  Operators only; ExecutorOptimizer and *)
(* SlmPromotion are the state machines that use them.                      *)
(*                                                                         *)
(* The code asks of a record's dictionaries only whether some or all of    *)
(* their values are of a kind, so each is the set of the kinds of values   *)
(* it holds.  Rates and thresholds are in percent, compared crosswise.     *)
(***************************************************************************)
EXTENDS Naturals, FiniteSets, Sequences, FiniteSetsExt

Verdicts == {"true", "false", "na", "other"}

\* "approved" is the rating the code reads by name; among the others it
\* tells positive numbers, numbers at most 0 or False, and texts.
Approvals == {"absent", "yes", "no"}
Ratings == {"positive", "nonpositive", "text"}

QualityRecord ==
    [action : STRING, approved : Approvals, ratings : SUBSET Ratings,
     checks : SUBSET BOOLEAN, behaviors : SUBSET Verdicts,
     latency : Nat, cost : Nat]

HasBehaviorFailures(r) == "false" \in r.behaviors

HasAutomatedFailures(r) == FALSE \in r.checks

Rejected(r) == r.approved = "no" \/ "nonpositive" \in r.ratings

OutcomePassed(r) == ~ HasAutomatedFailures(r) /\ ~ Rejected(r)

IsLuckyCorrect(r) == OutcomePassed(r) /\ HasBehaviorFailures(r)

\* What the docstring of evaluate_quality_fold calls positive evidence.
PositiveEvidence(r) ==
    \/ "true" \in r.behaviors
    \/ r.checks = {TRUE}
    \/ r.approved = "yes" \/ "positive" \in r.ratings

Unjudged(r) ==
    /\ r.behaviors = {"na"}
    /\ r.checks = {} /\ r.ratings = {} /\ r.approved = "absent"

\* Mutant: behaviour verdicts are read after the positive evidence.
FoldOutcomeFirst(r) ==
    IF HasAutomatedFailures(r) \/ Rejected(r) THEN "FAIL"
    ELSE IF PositiveEvidence(r) THEN "PASS"
    ELSE IF HasBehaviorFailures(r) THEN "FAIL" ELSE "NA"

\* evaluate_quality_fold.  Without evidence and not unjudged, the record
\* passes: no constraint was violated.
Fold(r) ==
    IF HasBehaviorFailures(r) \/ HasAutomatedFailures(r) \/ Rejected(r)
    THEN "FAIL"
    ELSE IF ~ PositiveEvidence(r) /\ Unjudged(r) THEN "NA" ELSE "PASS"

(***************************************************************************)
(* evaluate_promotion.  The thresholds are a record of percentages and of  *)
(* optional limits; NoLimit is None.                                       *)
(***************************************************************************)
NoLimit == 1000000

Relevant(a, recs) ==
    {i \in DOMAIN recs : recs[i].action \in {"", a}}

Folded(I, recs, verdict) == {i \in I : Fold(recs[i]) = verdict}
Complying(I, recs) == {i \in I : ~ HasBehaviorFailures(recs[i])}

Total(I, recs, field) == MapThenSumSet(LAMBDA i : recs[i][field], I)

Within(I, recs, field, limit) ==
    limit # NoLimit => Total(I, recs, field) <= limit * Cardinality(I)

\* Mutant: the gate asks for two records before it looks at their rate.
EvaluateEnough(a, recs, th) ==
    LET I == Relevant(a, recs)
        n == Cardinality(I) IN
    /\ n >= 2
    /\ 100 * Cardinality(Folded(I, recs, "PASS")) >= th.quality * n
    /\ 100 * Cardinality(Complying(I, recs)) >= th.compliance * n

EvaluatePromotion(a, recs, th) ==
    LET I == Relevant(a, recs)
        n == Cardinality(I) IN
    /\ I # {}
    /\ 100 * Cardinality(Folded(I, recs, "PASS")) >= th.quality * n
    /\ 100 * Cardinality(Complying(I, recs)) >= th.compliance * n
    /\ ~ (th.compliance >= 100 /\ \E i \in I : IsLuckyCorrect(recs[i]))
    /\ Within(I, recs, "latency", th.latency)
    /\ Within(I, recs, "cost", th.cost)
=============================================================================
