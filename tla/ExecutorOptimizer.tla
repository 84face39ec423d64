------------------------- MODULE ExecutorOptimizer -------------------------
(***************************************************************************)
(* The executor optimizer of src/core/optimizer/optimizer.py: quality      *)
(* records of evaluated runs accumulate, and an operator asks it to        *)
(* promote a candidate executor for an action on the records there are.    *)
(* The optimizer keeps the active executor of every action and the history *)
(* of its decisions; nothing demotes.                                      *)
(***************************************************************************)
EXTENDS QualityRecords

CONSTANTS Actions,     \* the actions of the work
          Candidates,  \* executors that may be promoted
          Kinds,       \* the quality records that can arrive
          Thresholds,  \* the gates an operator may ask for
          MaxRecords,  \* bound: records in an evaluation
          MaxHistory   \* bound: promotion requests

ASSUME CandidatesAreNew == "frontier_llm" \notin Candidates
ASSUME KindsAreRecords == Kinds \subseteq QualityRecord
ASSUME BoundsAreNaturals == MaxRecords \in Nat /\ MaxHistory \in Nat
ASSUME ThresholdsAreRates ==
    \A th \in Thresholds : {th.quality, th.compliance} \subseteq 0..100

VARIABLES records,   \* the records evaluated so far, in the order of the list
          active,    \* _active_executors, the default where there is no entry
          history    \* _promotion_history, the entries of all actions in order

vars == <<records, active, history>>

Init == /\ records = << >>
        /\ active = [a \in Actions |-> "frontier_llm"]
        /\ history = << >>

\* An evaluation adds its record to the list the operator passes on.
Observe(k) ==
    /\ Len(records) < MaxRecords
    /\ records' = Append(records, k)
    /\ UNCHANGED <<active, history>>

Promote(a, c, th) ==
    LET promoted == EvaluatePromotion(a, records, th) IN
    /\ Len(history) < MaxHistory
    /\ history' = Append(history, [action |-> a, candidate |-> c, gate |-> th,
                                   evaluated |-> Len(records),
                                   promoted |-> promoted])
    /\ active' = IF promoted THEN [active EXCEPT ![a] = c] ELSE active
    /\ UNCHANGED records

Next == \/ \E k \in Kinds : Observe(k)
        \/ \E a \in Actions, c \in Candidates, th \in Thresholds :
               Promote(a, c, th)

Spec == Init /\ [][Next]_vars

(***************************************************************************)
(* evaluate_batch: the metrics a report shows over a list of records.      *)
(***************************************************************************)
\* Mutant: the batch counts the lucky records as passes.
BatchOnOutcome(recs) ==
    LET I == DOMAIN recs IN
    [total |-> Cardinality(I),
     pass |-> Cardinality({i \in I : OutcomePassed(recs[i])}),
     fail |-> Cardinality(Folded(I, recs, "FAIL")),
     na |-> Cardinality(Folded(I, recs, "NA")),
     lucky |-> Cardinality({i \in I : IsLuckyCorrect(recs[i])}),
     compliant |-> Cardinality(Complying(I, recs)),
     latency |-> Total(I, recs, "latency"),
     cost |-> Total(I, recs, "cost")]

Batch(recs) ==
    LET I == DOMAIN recs IN
    [total |-> Cardinality(I),
     pass |-> Cardinality(Folded(I, recs, "PASS")),
     fail |-> Cardinality(Folded(I, recs, "FAIL")),
     na |-> Cardinality(Folded(I, recs, "NA")),
     lucky |-> Cardinality({i \in I : IsLuckyCorrect(recs[i])}),
     compliant |-> Cardinality(Complying(I, recs)),
     latency |-> Total(I, recs, "latency"),
     cost |-> Total(I, recs, "cost")]

-----------------------------------------------------------------------------
Entry == [action : Actions, candidate : Candidates, gate : Thresholds,
          evaluated : 0..MaxRecords, promoted : BOOLEAN]

\* The records, the active executors and the history are of their types
\* (ExecutorOptimizer.__init__ and promote).
TypeOK == /\ records \in Seq(Kinds) /\ Len(records) <= MaxRecords
          /\ active \in [Actions -> Candidates \cup {"frontier_llm"}]
          /\ history \in Seq(Entry) /\ Len(history) <= MaxHistory

\* The gate's share of the records of the action passes its own checks and
\* ratings with all its behaviours, and at the zero-tolerance gate none of
\* them skipped a required one.
PaidFor(a, recs, th) ==
    LET I == {i \in DOMAIN recs : recs[i].action \in {"", a}} IN
    /\ I # {}
    /\ 100 * Cardinality({i \in I : /\ FALSE \notin recs[i].checks
                                    /\ recs[i].approved # "no"
                                    /\ "false" \notin recs[i].behaviors})
           >= th.quality * Cardinality(I)
    /\ th.compliance = 100 => \A i \in I : "false" \notin recs[i].behaviors

\* An executor is replaced only on records that pay for it by their conduct: a
\* lucky record never does (evaluate_promotion, evaluate_quality_fold).
PromotedOnConduct ==
    [][\A a \in Actions : active'[a] # active[a] =>
          PaidFor(a, records, history'[Len(history')].gate)]_vars

\* Where neither latency nor cost is limited, no failed behaviour is tolerated
\* and some share must pass, one more failed record never turns a refusal into
\* a promotion (evaluate_promotion).
FailureNeverPromotes ==
    [][\A a \in Actions, th \in Thresholds :
          /\ Len(records') > Len(records)
          /\ Fold(records'[Len(records')]) = "FAIL"
          /\ th.compliance = 100 /\ th.latency = NoLimit /\ th.cost = NoLimit
          /\ th.quality > 0 /\ ~ EvaluatePromotion(a, records, th)
          => ~ EvaluatePromotion(a, records', th)]_vars

\* The report and the gate agree: over records that are all of one action,
\* evaluate_batch shows a promotable batch exactly when evaluate_promotion
\* promotes on it, for every unlimited gate with full compliance.
BatchAgrees ==
    \A a \in Actions, th \in Thresholds :
        (/\ Relevant(a, records) = DOMAIN records
         /\ th.compliance = 100 /\ th.latency = NoLimit /\ th.cost = NoLimit)
        => LET b == Batch(records) IN
           EvaluatePromotion(a, records, th)
           <=> /\ b.total > 0
               /\ b.lucky = 0 /\ b.compliant = b.total
               /\ 100 * b.pass >= th.quality * b.total

=============================================================================
