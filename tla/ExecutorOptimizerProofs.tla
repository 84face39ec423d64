---------------------- MODULE ExecutorOptimizerProofs ----------------------
(***************************************************************************)
(* The promotion gate for any records, thresholds and bounds.  The facts   *)
(* about the gate are arithmetic over the cardinalities of subsets of the  *)
(* relevant records; the state machine adds that records are well typed.   *)
(***************************************************************************)
EXTENDS ExecutorOptimizer, FiniteSetTheorems, SequenceTheorems, TLAPS

Records == Seq(QualityRecord)

\* The fold of a record is one of its three verdicts.
LEMMA FoldIsVerdict ==
    ASSUME NEW r
    PROVE  Fold(r) \in {"PASS", "FAIL", "NA"}
BY DEF Fold

\* A passing record is clean of failed behaviours and checks and of rejections.
LEMMA PassIsClean ==
    ASSUME NEW r, Fold(r) = "PASS"
    PROVE  /\ FALSE \notin r.checks /\ r.approved # "no"
           /\ "false" \notin r.behaviors
BY DEF Fold, HasBehaviorFailures, HasAutomatedFailures, Rejected

\* The relevant records are finitely many, and so is every selection of them.
LEMMA RelevantIsFinite ==
    ASSUME NEW recs \in Records, NEW a
    PROVE  /\ Relevant(a, recs) \subseteq DOMAIN recs
           /\ IsFiniteSet(DOMAIN recs)
           /\ IsFiniteSet(Relevant(a, recs))
           /\ Cardinality(Relevant(a, recs)) \in Nat
<1>1. Relevant(a, recs) \subseteq DOMAIN recs
  BY DEF Relevant
<1>3. DOMAIN recs = 1..Len(recs)
  BY DEF Records
<1>2. IsFiniteSet(1..Len(recs))
  <2>1. Len(recs) \in Int /\ 1 \in Int
    BY DEF Records
  <2> QED
    BY <2>1, FS_Interval
<1> QED
  BY <1>1, <1>2, <1>3, FS_Subset, FS_CardinalityType

\* Part of a finite set: its size, and when it is all of it.
LEMMA SelectionsAreFinite ==
    ASSUME NEW I, IsFiniteSet(I), NEW J \in SUBSET I
    PROVE  /\ IsFiniteSet(J)
           /\ Cardinality(I) \in Nat /\ Cardinality(J) \in Nat
           /\ Cardinality(J) <= Cardinality(I)
           /\ Cardinality(J) = Cardinality(I) => J = I
           /\ Cardinality(J) = 0 <=> J = {}
           /\ Cardinality(I) = 0 <=> I = {}
BY FS_Subset, FS_CardinalityType, FS_EmptySet

\* What the gate asks of records it promotes on, in terms of their conduct.
LEMMA GateIsKept ==
    ASSUME NEW recs \in Records, NEW a, NEW th \in Thresholds,
           EvaluatePromotion(a, recs, th)
    PROVE  PaidFor(a, recs, th)
<1> DEFINE I == Relevant(a, recs)
           Passing == Folded(I, recs, "PASS")
           Clean == {i \in I : /\ FALSE \notin recs[i].checks
                               /\ recs[i].approved # "no"
                               /\ "false" \notin recs[i].behaviors}
<1> HIDE DEF I, Passing, Clean
<1>1. IsFiniteSet(I)
  BY RelevantIsFinite DEF I
<1>2. /\ I # {}
      /\ 100 * Cardinality(Passing) >= th.quality * Cardinality(I)
      /\ 100 * Cardinality(Complying(I, recs)) >= th.compliance * Cardinality(I)
  BY DEF EvaluatePromotion, I, Passing
<1>3. Passing \subseteq Clean /\ Clean \subseteq I
  BY PassIsClean DEF Passing, Folded, Clean
<1>4. Cardinality(Passing) <= Cardinality(Clean)
      /\ Cardinality(Passing) \in Nat /\ Cardinality(Clean) \in Nat
  <2>1. IsFiniteSet(Clean)
    BY <1>1, <1>3, SelectionsAreFinite
  <2> QED
    BY <2>1, <1>3, SelectionsAreFinite
<1>5. th.quality \in 0..100 /\ th.compliance \in 0..100 /\ Cardinality(I) \in Nat
  BY ThresholdsAreRates, <1>1, FS_CardinalityType
<1>6. 100 * Cardinality(Clean) >= th.quality * Cardinality(I)
  <2>1. th.quality * Cardinality(I) \in Int
    BY <1>5
  <2> QED
    BY <2>1, <1>2, <1>4
<1>7. ASSUME th.compliance = 100, NEW i \in I
      PROVE  "false" \notin recs[i].behaviors
  <2>1. Complying(I, recs) \subseteq I
    BY DEF Complying
  <2>2. /\ Cardinality(Complying(I, recs)) \in Nat
        /\ Cardinality(Complying(I, recs)) <= Cardinality(I)
        /\ Cardinality(Complying(I, recs)) = Cardinality(I) => Complying(I, recs) = I
    BY <2>1, <1>1, SelectionsAreFinite
  <2>3. Complying(I, recs) = I
    BY <2>2, <1>2, <1>5, <1>7
  <2> QED
    BY <2>3, <1>7 DEF Complying, HasBehaviorFailures
<1> QED
  BY <1>2, <1>6, <1>7 DEF I, Clean, Relevant, PaidFor

\* Records, active executors and history keep their types (ExecutorOptimizer).
THEOREM TypeCorrect == Spec => []TypeOK
<1>1. Init => TypeOK
  BY BoundsAreNaturals DEF Init, TypeOK
<1>2. TypeOK /\ [Next]_vars => TypeOK'
  <2> SUFFICES ASSUME TypeOK, [Next]_vars PROVE TypeOK'
    OBVIOUS
  <2>1. ASSUME NEW k \in Kinds, Observe(k) PROVE TypeOK'
    BY <2>1, BoundsAreNaturals DEF Observe, TypeOK
  <2>2. ASSUME NEW a \in Actions, NEW c \in Candidates, NEW th \in Thresholds,
               Promote(a, c, th)
        PROVE  TypeOK'
    <3>1. UNCHANGED records /\ active' \in [Actions -> Candidates \cup {"frontier_llm"}]
      BY <2>2 DEF Promote, TypeOK
    <3>2. [action |-> a, candidate |-> c, gate |-> th, evaluated |-> Len(records),
           promoted |-> EvaluatePromotion(a, records, th)] \in Entry
      <4>1. EvaluatePromotion(a, records, th) \in BOOLEAN
        BY DEF EvaluatePromotion
      <4>2. Len(records) \in 0..MaxRecords
        BY BoundsAreNaturals DEF TypeOK
      <4> QED
        BY <4>1, <4>2 DEF Entry
    <3>3. history' \in Seq(Entry) /\ Len(history') <= MaxHistory
      BY <2>2, <3>2, BoundsAreNaturals DEF Promote, TypeOK
    <3> QED
      BY <3>1, <3>3 DEF TypeOK
  <2>3. CASE UNCHANGED vars
    BY <2>3 DEF vars, TypeOK
  <2> QED
    BY <2>1, <2>2, <2>3 DEF Next
<1> QED
  BY <1>1, <1>2, PTL DEF Spec

\* What the state machine holds are quality records.
LEMMA RecordsAreRecords == TypeOK => records \in Records
BY KindsAreRecords DEF TypeOK, Records

\* Whatever the records and the gate, an executor is replaced only on records
\* whose conduct pays for it (evaluate_promotion, evaluate_quality_fold).
THEOREM PromotionIsPaidFor == Spec => PromotedOnConduct
<1>1. TypeOK /\ [Next]_vars =>
      [\A a \in Actions : active'[a] # active[a] =>
          PaidFor(a, records, history'[Len(history')].gate)]_vars
  <2> SUFFICES ASSUME TypeOK, Next, NEW a \in Actions, active'[a] # active[a]
               PROVE  PaidFor(a, records, history'[Len(history')].gate)
    OBVIOUS
  <2>1. PICK b \in Actions, c \in Candidates, th \in Thresholds : Promote(b, c, th)
    BY DEF Next, Observe
  <2>2. b = a /\ EvaluatePromotion(a, records, th)
    BY <2>1 DEF Promote, TypeOK
  <2>3. history'[Len(history')].gate = th
    BY <2>1 DEF Promote, TypeOK
  <2> QED
    BY <2>2, <2>3, GateIsKept, RecordsAreRecords
<1> QED
  BY <1>1, TypeCorrect, PTL DEF Spec, PromotedOnConduct

\* The records a report is made of and those the gate reads are selected by the
\* same predicates, and rates over the same records compare as their counts do.
THEOREM BatchAndGateAgree == Spec => []BatchAgrees
<1>1. TypeOK => BatchAgrees
  <2> SUFFICES ASSUME TypeOK, NEW a \in Actions, NEW th \in Thresholds,
                      Relevant(a, records) = DOMAIN records, th.compliance = 100,
                      th.latency = NoLimit, th.cost = NoLimit
               PROVE  LET b == Batch(records) IN
                      EvaluatePromotion(a, records, th)
                      <=> /\ b.total > 0
                          /\ b.lucky = 0 /\ b.compliant = b.total
                          /\ 100 * b.pass >= th.quality * b.total
    BY DEF BatchAgrees
  <2> DEFINE I == DOMAIN records
             n == Cardinality(I)
             Passing == Folded(I, records, "PASS")
             Complies == Complying(I, records)
             Lucky == {i \in I : IsLuckyCorrect(records[i])}
             b == Batch(records)
  <2>1. IsFiniteSet(I) /\ Relevant(a, records) = I
    BY RecordsAreRecords, RelevantIsFinite
  <2>2. Complies \subseteq I /\ Lucky \subseteq I
    BY DEF Complying
  <2>3. b.total = n /\ b.lucky = Cardinality(Lucky) /\ b.compliant = Cardinality(Complies)
        /\ b.pass = Cardinality(Passing)
    BY DEF Batch
  <2>4. EvaluatePromotion(a, records, th)
        <=> /\ I # {}
            /\ 100 * Cardinality(Passing) >= th.quality * n
            /\ 100 * Cardinality(Complies) >= 100 * n
            /\ Lucky = {}
    BY <2>1 DEF EvaluatePromotion, Within
  <2> HIDE DEF I, n, Passing, Complies, Lucky, b
  <2>5. /\ n \in Nat /\ (n = 0 <=> I = {})
        /\ Cardinality(Complies) \in Nat /\ Cardinality(Complies) <= n
    BY <2>1, <2>2, SelectionsAreFinite DEF n
  <2>6. Cardinality(Lucky) = 0 <=> Lucky = {}
    BY <2>1, <2>2, SelectionsAreFinite
  <2>7. 100 * Cardinality(Complies) >= 100 * n <=> Cardinality(Complies) = n
    BY <2>5
  <2>8. I # {} <=> n > 0
    BY <2>5
  <2> QED
    BY <2>3, <2>4, <2>6, <2>7, <2>8 DEF b
<1> QED
  BY <1>1, TypeCorrect, PTL

\* A rate of more records asks for more of them.
LEMMA ProductIsMonotone ==
    ASSUME NEW q \in Nat, NEW m \in Nat, NEW n \in Nat, m <= n
    PROVE  q * m <= q * n /\ q * n \in Nat /\ (q > 0 /\ n > 0 => q * n > 0)
<1>1. q * (n - m) \in Nat /\ q * n = q * m + q * (n - m)
  BY SMT
<1> QED
  BY <1>1, SMT

\* The rates of a gate are numbers of percent.
LEMMA RatesAreNaturals ==
    ASSUME NEW th \in Thresholds
    PROVE  th.quality \in Nat /\ th.compliance \in Nat
<1>1. th.quality \in 0..100 /\ th.compliance \in 0..100
  BY ThresholdsAreRates
<1> DEFINE q == th.quality
           c == th.compliance
<1>2. q \in 0..100 /\ c \in 0..100
  BY <1>1
<1> HIDE DEF q, c
<1>3. q \in Nat /\ c \in Nat
  BY <1>2
<1> QED
  BY <1>3 DEF q, c

\* One more record that fails adds to the records but not to those that pass.
LEMMA FailureOnlyCounts ==
    ASSUME NEW recs \in Records, NEW r \in QualityRecord, Fold(r) = "FAIL",
           NEW a, NEW th \in Thresholds,
           th.compliance = 100, th.latency = NoLimit, th.cost = NoLimit,
           th.quality > 0,
           NEW more, more = Append(recs, r), EvaluatePromotion(a, more, th)
    PROVE  EvaluatePromotion(a, recs, th)
<1> DEFINE I == Relevant(a, recs)
           J == Relevant(a, more)
           P == Folded(I, recs, "PASS")
           C == Complying(I, recs)
<1>1. /\ more \in Records
      /\ DOMAIN more = DOMAIN recs \cup {Len(recs) + 1}
      /\ Len(recs) + 1 \notin DOMAIN recs
      /\ \A i \in DOMAIN recs : more[i] = recs[i]
      /\ more[Len(recs) + 1] = r
  BY DEF Records
<1>2. I \subseteq J /\ J \subseteq I \cup {Len(recs) + 1}
      /\ I \subseteq DOMAIN recs
  BY <1>1 DEF Relevant
<1>3. IsFiniteSet(I) /\ IsFiniteSet(J)
  BY <1>1, RelevantIsFinite
<1>4. /\ J # {}
      /\ 100 * Cardinality(Folded(J, more, "PASS")) >= th.quality * Cardinality(J)
      /\ 100 * Cardinality(Complying(J, more)) >= 100 * Cardinality(J)
      /\ \A i \in J : ~ IsLuckyCorrect(more[i])
  <2> HIDE DEF J
  <2>1. /\ J # {}
        /\ 100 * Cardinality(Folded(J, more, "PASS")) >= th.quality * Cardinality(J)
        /\ 100 * Cardinality(Complying(J, more)) >= th.compliance * Cardinality(J)
        /\ ~ (th.compliance >= 100 /\ \E i \in J : IsLuckyCorrect(more[i]))
    BY DEF EvaluatePromotion, J
  <2>2. th.compliance = 100 /\ th.compliance >= 100
    OBVIOUS
  <2>3. \A i \in J : ~ IsLuckyCorrect(more[i])
    BY <2>1, <2>2, Zenon
  <2> QED
    BY <2>1, <2>2, <2>3
<1>5. Folded(J, more, "PASS") = P
  BY <1>1, <1>2 DEF Folded
<1>6. th.quality \in Nat /\ th.quality > 0
  BY RatesAreNaturals, Zenon
<1> HIDE DEF I, J, P
<1>7. /\ Cardinality(I) \in Nat /\ Cardinality(J) \in Nat
      /\ Cardinality(I) <= Cardinality(J) /\ Cardinality(J) > 0
  BY <1>2, <1>3, <1>4, SelectionsAreFinite
<1>8. P \subseteq I
  BY DEF P, Folded
<1>9. /\ Cardinality(P) \in Nat /\ (Cardinality(P) = 0 <=> P = {})
  BY <1>3, <1>8, SelectionsAreFinite
<1>10. 100 * Cardinality(P) >= th.quality * Cardinality(I)
       /\ 100 * Cardinality(P) > 0
  <2> DEFINE cI == Cardinality(I)
             cJ == Cardinality(J)
             q == th.quality
             p == 100 * Cardinality(P)
  <2>1. q \in Nat /\ q > 0 /\ cI \in Nat /\ cJ \in Nat /\ cI <= cJ /\ cJ > 0
    <3>1. q \in Nat /\ q > 0
      BY <1>6, Zenon
    <3>2. cI \in Nat /\ cJ \in Nat /\ cI <= cJ /\ cJ > 0
      BY <1>7, Zenon
    <3> QED
      BY <3>1, <3>2, Zenon
  <2>2. p >= q * cJ /\ p \in Nat
    BY <1>4, <1>5, <1>9
  <2> HIDE DEF cI, cJ, q, p
  <2>3. q * cI <= q * cJ /\ q * cJ \in Nat /\ q * cJ > 0
    BY <2>1, ProductIsMonotone
  <2>4. q * cI \in Nat
    BY <2>1, ProductIsMonotone
  <2>5. p >= q * cI /\ p > 0
    <3> DEFINE x == q * cI
               y == q * cJ
    <3>1. x <= y /\ y > 0 /\ x \in Nat /\ y \in Nat /\ p >= y /\ p \in Nat
      BY <2>2, <2>3, <2>4
    <3> HIDE DEF x, y
    <3>2. p >= x /\ p > 0
      BY <3>1
    <3> QED
      BY <3>2 DEF x, y
  <2> QED
    BY <2>5 DEF cI, q, p
<1>11. I # {}
  BY <1>8, <1>9, <1>10
<1>12. Complying(J, more) = J
  <2>1. Complying(J, more) \subseteq J
    BY DEF Complying
  <2>2. /\ Cardinality(Complying(J, more)) \in Nat
        /\ Cardinality(Complying(J, more)) <= Cardinality(J)
        /\ Cardinality(Complying(J, more)) = Cardinality(J) => Complying(J, more) = J
    BY <2>1, <1>3, SelectionsAreFinite
  <2> QED
    BY <2>2, <1>4, <1>7
<1>13. C = I
  BY <1>12, <1>1, <1>2 DEF Complying
<1>14. \A i \in I : ~ IsLuckyCorrect(recs[i])
  BY <1>1, <1>2, <1>4
<1> QED
  BY <1>7, <1>11, <1>13, <1>14, <1>10 DEF EvaluatePromotion, Within, I, P

\* One more failure never causes a promotion (evaluate_promotion).
THEOREM FailuresNeverPromote == Spec => FailureNeverPromotes
<1>1. TypeOK /\ [Next]_vars =>
      [\A a \in Actions, th \in Thresholds :
          /\ Len(records') > Len(records)
          /\ Fold(records'[Len(records')]) = "FAIL"
          /\ th.compliance = 100 /\ th.latency = NoLimit /\ th.cost = NoLimit
          /\ th.quality > 0 /\ ~ EvaluatePromotion(a, records, th)
          => ~ EvaluatePromotion(a, records', th)]_vars
  <2> SUFFICES ASSUME TypeOK, Next, NEW a \in Actions, NEW th \in Thresholds,
                      Len(records') > Len(records),
                      Fold(records'[Len(records')]) = "FAIL",
                      th.compliance = 100, th.latency = NoLimit, th.cost = NoLimit,
                      th.quality > 0, EvaluatePromotion(a, records', th)
               PROVE  EvaluatePromotion(a, records, th)
    OBVIOUS
  <2>1. PICK k \in Kinds : Observe(k)
    <3>1. ASSUME NEW b \in Actions, NEW c \in Candidates, NEW g \in Thresholds,
                 Promote(b, c, g)
          PROVE  FALSE
      <4>1. records' = records
        BY <3>1 DEF Promote
      <4>2. Len(records) \in Int
        BY DEF TypeOK
      <4> QED
        BY <4>1, <4>2
    <3> QED
      BY <3>1 DEF Next
  <2>2. records \in Records /\ k \in QualityRecord
    BY RecordsAreRecords, KindsAreRecords
  <2>3. records' = Append(records, k) /\ records'[Len(records')] = k
    BY <2>1, <2>2 DEF Observe, Records
  <2> QED
    BY <2>2, <2>3, FailureOnlyCounts
<1> QED
  BY <1>1, TypeCorrect, PTL DEF Spec, FailureNeverPromotes
=============================================================================
