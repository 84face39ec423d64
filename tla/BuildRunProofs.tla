---------------------------- MODULE BuildRunProofs ----------------------------
(***************************************************************************)
(* What the escalation cache keeps and replays is computed from the right  *)
(* data, and is enough: for every build, data and parameter set, and       *)
(* whatever agents, crashes, deletions and clearings of the cache do.      *)
(*                                                                         *)
(* The argument for "escalate once" follows one run of a build: when all   *)
(* of it is done, the cache explains each of its steps from the outputs    *)
(* before it, and no later event takes that away without taking away       *)
(* `last` as well.  A later run whose code outputs are the same therefore  *)
(* walks through the same contexts, and hits.                              *)
(***************************************************************************)
EXTENDS BuildRun, TLAPS, WellFoundedInduction

Modes == {"code", "skipped", "cache", "slm", "needs_agent", "escalated"}
Step == [action : Actions, mode : Modes, ok : BOOLEAN, output : Texts]

TypeInv ==
    /\ build \in Builds /\ data \in Data
    /\ files \in [Patched \X Params -> File \cup {Absent}]
    /\ cache \in [ModelTier \X Params -> Entry \cup {Absent}]
    /\ running \in BOOLEAN
    /\ running => opts \in [params : Params, backend : BOOLEAN, useCache : BOOLEAN]
    /\ steps \in Seq(Step) /\ Len(steps) <= Len(Trace)
    /\ last \in [Params -> Seq(Texts) \cup {Absent}]

\* A report names the actions of the trace, in order; a code output is never empty,
\* and a step that is not replayed has none.
ReportFollowsTrace ==
    \A n \in DOMAIN steps :
        /\ steps[n].action = Trace[n]
        /\ steps[n].mode = "code" <=> Trace[n] \in Code \ SelfReferential
        /\ Trace[n] \in Code => (steps[n].output = Silent <=> Trace[n] \in SelfReferential)

\* A file in the cache is that of a step that wrote one, and was made from the code
\* outputs its fingerprint was taken of.
EntriesOK ==
    \A k \in DOMAIN cache : cache[k] # Absent =>
        /\ k[1] \in Patched <=> cache[k].file # Absent
        /\ k[1] \in Patched =>
              cache[k].file = [params |-> k[2], basis |-> BasisOf(cache[k].sha)]

\* What a replay reports of an entry.
Said(e) == IF e.output = Silent THEN "from cache" ELSE e.output

\* The context of place n of the trace T, for the parameters p, when the outputs are D
\* and the files those of the cache C.
Before(T, C, p, D, n) ==
    Kept([m \in 1..(n - 1) |->
             [action |-> T[m], output |-> D[m],
              file |-> IF T[m] \in Patched THEN C[<<T[m], p>>].file ELSE Absent]],
         {m \in 1..(n - 1) : D[m] # Silent})

\* The cache C replays place n with what the outputs D have there.
Replayed(T, C, p, D, n) ==
    T[n] \in ModelTier =>
        /\ C[<<T[n], p>>] # Absent
        /\ C[<<T[n], p>>].sha = Before(T, C, p, D, n)
        /\ T[n] \notin FileModel => D[n] = Said(C[<<T[n], p>>])

\* The file of a step is the one in its cache entry.
OnDisk(p, n) == Trace[n] \in Patched => files[<<Trace[n], p>>] = cache[<<Trace[n], p>>].file

\* A run all of whose steps so far are done could be replayed as far as it got.
RunIsKept ==
    running /\ AllDone =>
        \A n \in DOMAIN steps :
            Replayed(Trace, cache, opts.params, Outputs(steps), n) /\ OnDisk(opts.params, n)

\* The places whose outputs a basis is made of.
CodePlaces == {n \in DOMAIN Trace : Trace[n] \in Code \ SelfReferential}

\* The run in progress does not use the cache, or has shown other code outputs than D.
Departs(p, D) ==
    /\ running /\ opts.params = p
    /\ \/ ~opts.useCache
       \/ \E n \in DOMAIN steps : n \in CodePlaces /\ steps[n].output # D[n]

\* A run in progress for p has replayed what D has so far.  The text of a step whose
\* files an SLM writes is another when it is replayed.
Follows(p, D) ==
    running /\ opts.params = p =>
        \A n \in DOMAIN steps :
            /\ Trace[n] \in ModelTier => steps[n].mode = "cache"
            /\ Trace[n] \notin FileModel => steps[n].output = D[n]
            /\ OnDisk(p, n)

\* D are the outputs of the latest run for p: a run in progress departs from them, or
\* the cache replays them all and the run follows them.
Recalls(p, D) ==
    /\ last[p] = Kept(D, CodePlaces)
    /\ \A n \in DOMAIN Trace : Trace[n] \in SelfReferential => D[n] = Silent
    /\ \/ Departs(p, D)
       \/ /\ \A n \in DOMAIN Trace : Replayed(Trace, cache, p, D, n)
          /\ Follows(p, D)

\* The latest run of every parameter set, if all of it was done, can be replayed.
Remembered ==
    \A p \in Params : last[p] # Absent => \E D \in [DOMAIN Trace -> Texts] : Recalls(p, D)

-----------------------------------------------------------------------------
(* Walking through a sequence.                                               *)

\* A set of numbers has a least one.
LEMMA LeastNumber ==
    ASSUME NEW T \in SUBSET Nat, T # {}
    PROVE  \E x \in T : \A y \in T : x <= y
<1> DEFINE Less == {ss \in Nat \X Nat : ss[1] < ss[2]}
<1>1. IsWellFoundedOn(Less, Nat)
  BY NatLessThanWellFounded, Zenon DEF OpToRel
<1>2. PICK x \in T : \A y \in T : ~(<<y, x>> \in Less)
  <2> HIDE DEF Less
  <2> QED
    BY <1>1, WFMin
<1>3. \A y \in T : ~(y < x)
  BY <1>2
<1> QED
  BY <1>3

\* g goes through s and keeps what is at the places in I.
Walks(g, s, I, N) ==
    g = [n \in 0..N |->
            IF n = 0 THEN <<>>
            ELSE IF n \in I THEN Append(g[n - 1], s[n]) ELSE g[n - 1]]

\* There is such a walk through any sequence.
LEMMA WalkExists ==
    ASSUME NEW s, NEW I, NEW N \in Nat
    PROVE  \E g : Walks(g, s, I, N)
<1> DEFINE T == {m \in Nat : ~\E g : Walks(g, s, I, m)}
<1>1. SUFFICES ASSUME T # {}
               PROVE  FALSE
  OBVIOUS
<1>2. PICK m \in T : \A y \in T : m <= y
  <2> T \in SUBSET Nat
    OBVIOUS
  <2> HIDE DEF T
  <2> QED
    BY <1>1, LeastNumber
<1>3. m # 0
  <2> DEFINE g == [n \in 0..0 |-> <<>>]
  <2>1. Walks(g, s, I, 0)
    BY DEF Walks
  <2> QED
    BY <2>1
<1>4. PICK g : Walks(g, s, I, m - 1)
  <2>1. m - 1 \in Nat /\ m - 1 \notin T
    BY <1>2, <1>3
  <2> QED
    BY <2>1
<1> DEFINE h == [n \in 0..m |->
                    IF n = 0 THEN <<>>
                    ELSE IF n \in I THEN Append(g[n - 1], s[n]) ELSE g[n - 1]]
<1>5. m \in Nat /\ m - 1 \in Nat
  BY <1>3
<1>6. \A n \in 0..(m - 1) : n \in 0..m /\ (n # 0 => n - 1 \in 0..(m - 1))
  BY <1>5
<1>7. \A n \in 0..(m - 1) : h[n] = g[n]
  BY <1>4, <1>6 DEF Walks
<1>8. \A n \in 0..m : n # 0 => n - 1 \in 0..(m - 1)
  BY <1>5
<1>9. h = [n \in 0..m |->
              IF n = 0 THEN <<>>
              ELSE IF n \in I THEN Append(h[n - 1], s[n]) ELSE h[n - 1]]
  <2> DEFINE k == [n \in 0..m |->
              IF n = 0 THEN <<>>
              ELSE IF n \in I THEN Append(h[n - 1], s[n]) ELSE h[n - 1]]
  <2>1. \A n \in 0..m : h[n] = k[n]
    <3> SUFFICES ASSUME NEW n \in 0..m PROVE h[n] = k[n]
      OBVIOUS
    <3>1. CASE n = 0
      BY <3>1
    <3>2. CASE n # 0
      <4>1. h[n - 1] = g[n - 1]
        BY <1>7, <1>8, <3>2
      <4> QED
        BY <4>1, <3>2
    <3> QED
      BY <3>1, <3>2
  <2> QED
    BY <2>1
<1>10. Walks(h, s, I, m)
  BY <1>9 DEF Walks
<1> QED
  BY <1>10

\* What is kept is where such a walk ends.
LEMMA KeptWalks ==
    ASSUME NEW s, NEW I, Len(s) \in Nat
    PROVE  \E g : Walks(g, s, I, Len(s)) /\ Kept(s, I) = g[Len(s)]
<1> DEFINE k == CHOOSE g : Walks(g, s, I, Len(s))
<1>1. Walks(k, s, I, Len(s))
  BY WalkExists
<1>2. Kept(s, I) = k[Len(s)]
  BY DEF Kept, Walks
<1> QED
  BY <1>1, <1>2

\* Induction over the members of a set.
LEMMA Induction ==
    ASSUME NEW T, 0 \in T, \A n \in Nat : n \in T => n + 1 \in T
    PROVE  \A n \in Nat : n \in T
<1>1. SUFFICES ASSUME Nat \ T # {}
               PROVE  FALSE
  OBVIOUS
<1>2. PICK m \in Nat \ T : \A y \in Nat \ T : m <= y
  BY <1>1, LeastNumber
<1>3. m # 0 /\ m - 1 \in Nat
  BY <1>2
<1>4. m - 1 \in T
  BY <1>2, <1>3
<1> QED
  BY <1>3, <1>4

\* A walk step by step.
LEMMA WalkSteps ==
    \A s, I, g : \A N \in Nat : Walks(g, s, I, N) =>
        /\ g[0] = <<>>
        /\ \A n \in 0..(N - 1) :
              g[n + 1] = IF n + 1 \in I THEN Append(g[n], s[n + 1]) ELSE g[n]
<1> SUFFICES ASSUME NEW s, NEW I, NEW g, NEW N \in Nat, Walks(g, s, I, N)
             PROVE  /\ g[0] = <<>>
                    /\ \A n \in 0..(N - 1) :
                          g[n + 1] = IF n + 1 \in I THEN Append(g[n], s[n + 1]) ELSE g[n]
  OBVIOUS
<1>1. 0 \in 0..N
  OBVIOUS
<1>2. \A n \in 0..(N - 1) : n + 1 \in 0..N /\ n + 1 # 0 /\ (n + 1) - 1 = n
  OBVIOUS
<1> QED
  BY <1>1, <1>2 DEF Walks

\* A walk passes through sequences of members.
LEMMA WalkType ==
    ASSUME NEW s, NEW I, NEW N \in Nat, NEW g, Walks(g, s, I, N),
           NEW X, \A n \in 1..N : s[n] \in X
    PROVE  \A n \in 0..N : g[n] \in Seq(X)
<1>0. /\ g[0] = <<>>
      /\ \A n \in 0..(N - 1) :
            g[n + 1] = IF n + 1 \in I THEN Append(g[n], s[n + 1]) ELSE g[n]
  BY WalkSteps
<1> DEFINE T == {n \in Nat : n <= N => g[n] \in Seq(X)}
<1>1. 0 \in T
  <2>1. g[0] = <<>> /\ <<>> \in Seq(X)
    BY <1>0
  <2>2. g[0] \in Seq(X)
    BY <2>1, Zenon
  <2> QED
    BY <2>2
<1>2. ASSUME NEW n \in Nat, n \in T
      PROVE  n + 1 \in T
  <2> SUFFICES ASSUME n + 1 <= N
               PROVE  g[n + 1] \in Seq(X)
    OBVIOUS
  <2>1. n \in 0..(N - 1) /\ n + 1 \in 1..N /\ g[n] \in Seq(X)
    BY <1>2
  <2>2. g[n + 1] = IF n + 1 \in I THEN Append(g[n], s[n + 1]) ELSE g[n]
    BY <1>0, <2>1
  <2>3. s[n + 1] \in X
    BY <2>1
  <2> QED
    BY <2>1, <2>2, <2>3
<1>3. \A n \in Nat : n \in T
  <2> HIDE DEF T
  <2> QED
    BY <1>1, <1>2, Induction
<1> QED
  BY <1>3

\* The members of a sequence that are kept are members of it.
LEMMA KeptType ==
    ASSUME NEW s, NEW I, Len(s) \in Nat, NEW X, \A n \in 1..Len(s) : s[n] \in X
    PROVE  Kept(s, I) \in Seq(X)
<1>1. PICK g : Walks(g, s, I, Len(s)) /\ Kept(s, I) = g[Len(s)]
  BY KeptWalks
<1>2. Len(s) \in 0..Len(s)
  OBVIOUS
<1> QED
  BY <1>1, <1>2, WalkType

\* Two walks agree as long as what they walk over does.
LEMMA WalksAgree ==
    ASSUME NEW s, NEW I, NEW N \in Nat, NEW g, Walks(g, s, I, N),
           NEW t, NEW J, NEW M \in Nat, NEW h, Walks(h, t, J, M), N <= M,
           \A n \in 1..N : s[n] = t[n] /\ (n \in I <=> n \in J)
    PROVE  \A n \in 0..N : g[n] = h[n]
<1>0. /\ g[0] = <<>>
      /\ \A n \in 0..(N - 1) :
            g[n + 1] = IF n + 1 \in I THEN Append(g[n], s[n + 1]) ELSE g[n]
  BY WalkSteps
<1>00. /\ h[0] = <<>>
      /\ \A n \in 0..(M - 1) :
            h[n + 1] = IF n + 1 \in J THEN Append(h[n], t[n + 1]) ELSE h[n]
  BY WalkSteps
<1> DEFINE T == {n \in Nat : n <= N => g[n] = h[n]}
<1>1. 0 \in T
  BY <1>0, <1>00
<1>2. ASSUME NEW n \in Nat, n \in T
      PROVE  n + 1 \in T
  <2> SUFFICES ASSUME n + 1 <= N
               PROVE  g[n + 1] = h[n + 1]
    OBVIOUS
  <2>1. n \in 0..(N - 1) /\ n \in 0..(M - 1) /\ n + 1 \in 1..N /\ g[n] = h[n]
    BY <1>2
  <2>2. g[n + 1] = IF n + 1 \in I THEN Append(g[n], s[n + 1]) ELSE g[n]
    BY <1>0, <2>1
  <2>3. h[n + 1] = IF n + 1 \in J THEN Append(h[n], t[n + 1]) ELSE h[n]
    BY <1>00, <2>1
  <2>4. s[n + 1] = t[n + 1] /\ (n + 1 \in I <=> n + 1 \in J)
    BY <2>1
  <2> QED
    BY <2>1, <2>2, <2>3, <2>4
<1>3. \A n \in Nat : n \in T
  <2> HIDE DEF T
  <2> QED
    BY <1>1, <1>2, Induction
<1> QED
  BY <1>3

\* What is kept of a sequence with one more member.
LEMMA KeptOfAppend ==
    ASSUME NEW X, NEW x \in X, NEW I, NEW J, NEW s, s \in Seq(X),
           \A n \in 1..Len(s) : n \in I <=> n \in J
    PROVE  Kept(Append(s, x), I) =
               IF Len(s) + 1 \in I THEN Append(Kept(s, J), x) ELSE Kept(s, J)
<1>1. PICK N \in Nat : N = Len(s)
  OBVIOUS
<1>2. PICK t : t = Append(s, x)
  OBVIOUS
<1>3. Len(t) = N + 1 /\ t[N + 1] = x /\ \A n \in 1..N : t[n] = s[n]
  BY <1>1, <1>2
<1>4. PICK g : Walks(g, s, J, N) /\ Kept(s, J) = g[N]
  BY <1>1, KeptWalks
<1>5. PICK M \in Nat : M = N + 1
  BY <1>1
<1>6. PICK h : Walks(h, t, I, M) /\ Kept(t, I) = h[M]
  BY <1>3, <1>5, KeptWalks
<1>7. h[N] = g[N]
  <2>1. N \in 0..N /\ N <= M
    BY <1>5
  <2>2. \A n \in 1..N : s[n] = t[n] /\ (n \in J <=> n \in I)
    BY <1>1, <1>3
  <2>3. Walks(g, s, J, N)
    BY <1>4
  <2>4. Walks(h, t, I, M)
    BY <1>6
  <2>5. \A n \in 0..N : g[n] = h[n]
    BY ONLY N \in Nat, M \in Nat, <2>1, <2>2, <2>3, <2>4, WalksAgree, SMTT(60)
  <2> QED
    BY <2>1, <2>5
<1>8. h[M] = IF M \in I THEN Append(h[N], t[M]) ELSE h[N]
  <2>1. N \in 0..(M - 1)
    BY <1>5
  <2>2. \A n \in 0..(M - 1) :
            h[n + 1] = IF n + 1 \in I THEN Append(h[n], t[n + 1]) ELSE h[n]
    BY <1>6, WalkSteps
  <2> QED
    BY <1>5, <2>1, <2>2
<1> QED
  BY <1>1, <1>2, <1>3, <1>4, <1>5, <1>6, <1>7, <1>8

\* What is kept at the same places of two sequences of one length tells their members
\* at these places apart.
LEMMA KeptInjective ==
    ASSUME NEW s, NEW t, NEW I, NEW N \in Nat, Len(s) = N, Len(t) = N,
           Kept(s, I) = Kept(t, I)
    PROVE  \A n \in 1..N : n \in I => s[n] = t[n]
<1>0. PICK X : \A n \in 1..N : s[n] \in X /\ t[n] \in X
  <2> DEFINE Y == {s[n] : n \in 1..N} \cup {t[n] : n \in 1..N}
  <2>1. \A n \in 1..N : s[n] \in Y /\ t[n] \in Y
    OBVIOUS
  <2> QED
    BY <2>1
<1>1. PICK g : Walks(g, s, I, N) /\ Kept(s, I) = g[N]
  BY KeptWalks
<1>2. PICK h : Walks(h, t, I, N) /\ Kept(t, I) = h[N]
  BY KeptWalks
<1>3. \A n \in 0..N : g[n] \in Seq(X) /\ h[n] \in Seq(X)
  BY <1>0, <1>1, <1>2, WalkType
<1>8. /\ g[0] = <<>>
      /\ \A n \in 0..(N - 1) :
            g[n + 1] = IF n + 1 \in I THEN Append(g[n], s[n + 1]) ELSE g[n]
  BY <1>1, WalkSteps
<1>9. /\ h[0] = <<>>
      /\ \A n \in 0..(N - 1) :
            h[n + 1] = IF n + 1 \in I THEN Append(h[n], t[n + 1]) ELSE h[n]
  BY <1>2, WalkSteps
<1> DEFINE T == {n \in Nat : n <= N /\ g[n] = h[n] =>
                    \A m \in 1..n : m \in I => s[m] = t[m]}
<1>4. 0 \in T
  OBVIOUS
<1>5. ASSUME NEW n \in Nat, n \in T
      PROVE  n + 1 \in T
  <2> SUFFICES ASSUME n + 1 <= N, g[n + 1] = h[n + 1]
               PROVE  \A m \in 1..(n + 1) : m \in I => s[m] = t[m]
    OBVIOUS
  <2>1. n \in 0..(N - 1) /\ n \in 0..N /\ n <= N /\ n + 1 \in 1..N
    OBVIOUS
  <2>2. g[n + 1] = IF n + 1 \in I THEN Append(g[n], s[n + 1]) ELSE g[n]
    BY <1>8, <2>1
  <2>3. h[n + 1] = IF n + 1 \in I THEN Append(h[n], t[n + 1]) ELSE h[n]
    BY <1>9, <2>1
  <2>4. g[n] \in Seq(X) /\ h[n] \in Seq(X) /\ s[n + 1] \in X /\ t[n + 1] \in X
    BY <1>0, <1>3, <2>1
  <2>5. g[n] = h[n] /\ (n + 1 \in I => s[n + 1] = t[n + 1])
    <3>1. CASE n + 1 \notin I
      BY <2>2, <2>3, <3>1
    <3>2. CASE n + 1 \in I
      <4>1. Append(g[n], s[n + 1]) = Append(h[n], t[n + 1])
        BY <2>2, <2>3, <3>2
      <4> DEFINE a == g[n]
                 b == h[n]
                 x == s[n + 1]
                 y == t[n + 1]
      <4>2. a \in Seq(X) /\ b \in Seq(X) /\ x \in X /\ y \in X /\ Append(a, x) = Append(b, y)
        BY <2>4, <4>1
      <4> HIDE DEF a, b, x, y
      <4>3. Len(a) = Len(b) /\ x = y
        BY <4>2
      <4>4. \A i \in 1..Len(a) : a[i] = b[i]
        <5>1. \A i \in 1..Len(a) : Append(a, x)[i] = a[i] /\ Append(b, y)[i] = b[i]
          BY <4>2, <4>3
        <5> QED
          BY <4>2, <5>1
      <4>5. a = b
        BY <4>2, <4>3, <4>4
      <4> QED
        BY <4>3, <4>5 DEF a, b, x, y
    <3> QED
      BY <3>1, <3>2
  <2>6. \A m \in 1..n : m \in I => s[m] = t[m]
    BY <1>5, <2>1, <2>5
  <2>7. \A m \in 1..(n + 1) : m \in 1..n \/ m = n + 1
    OBVIOUS
  <2> QED
    BY <2>5, <2>6, <2>7
<1>6. \A n \in Nat : n <= N /\ g[n] = h[n] => \A m \in 1..n : m \in I => s[m] = t[m]
  <2>1. \A n \in Nat : n \in T
    <3> HIDE DEF T
    <3> QED
      BY <1>4, <1>5, Induction
  <2> QED
    BY <2>1
<1>7. g[N] = h[N]
  BY <1>1, <1>2, Zenon
<1> QED
  BY <1>6, <1>7

\* The outputs of a sequence of steps, place by place.
LEMMA OutputsType ==
    ASSUME NEW X, NEW s, s \in Seq(X)
    PROVE  /\ Outputs(s) \in Seq({x.output : x \in X})
           /\ Len(Outputs(s)) = Len(s)
           /\ \A n \in 1..Len(s) : Outputs(s)[n] = s[n].output
<1>1. DOMAIN s = 1..Len(s) /\ Len(s) \in Nat /\ \A n \in 1..Len(s) : s[n] \in X
  OBVIOUS
<1>2. Outputs(s) = [n \in 1..Len(s) |-> s[n].output]
  BY <1>1 DEF Outputs
<1>3. \A n \in 1..Len(s) : s[n].output \in {x.output : x \in X}
  BY <1>1
<1> QED
  BY <1>1, <1>2, <1>3

\* One entry more in a fingerprint adds its output when it is of a code step.
LEMMA BasisOfAppend ==
    ASSUME NEW X, NEW e, e \in X, NEW q, q \in Seq(X)
    PROVE  BasisOf(Append(q, e)) =
               IF e.action \in Code THEN Append(BasisOf(q), e.output) ELSE BasisOf(q)
<1> DEFINE Y == {x.output : x \in X}
<1>1. PICK r : r = Append(q, e)
  OBVIOUS
<1>2. /\ r \in Seq(X) /\ Len(r) = Len(q) + 1 /\ Len(q) \in Nat
      /\ r[Len(q) + 1] = e /\ \A n \in 1..Len(q) : r[n] = q[n]
      /\ DOMAIN r = 1..(Len(q) + 1) /\ DOMAIN q = 1..Len(q)
  BY <1>1
<1>3. Outputs(q) \in Seq(Y) /\ Len(Outputs(q)) = Len(q) /\ e.output \in Y
  BY OutputsType
<1>4. Outputs(r) = Append(Outputs(q), e.output)
  <2>1. /\ Outputs(r) \in Seq(Y) /\ Len(Outputs(r)) = Len(r)
        /\ \A n \in 1..Len(r) : Outputs(r)[n] = r[n].output
    <3>1. r \in Seq(X)
      BY <1>2
    <3> QED
      BY ONLY <3>1, OutputsType
  <2>2. \A n \in 1..Len(q) : Outputs(q)[n] = q[n].output
    BY OutputsType
  <2> HIDE DEF Y
  <2>3. \A n \in 1..Len(r) : Outputs(r)[n] = Append(Outputs(q), e.output)[n]
    <3> SUFFICES ASSUME NEW n \in 1..Len(r)
                 PROVE  Outputs(r)[n] = Append(Outputs(q), e.output)[n]
      OBVIOUS
    <3>1. CASE n = Len(q) + 1
      BY <1>2, <1>3, <2>1, <3>1
    <3>2. CASE n # Len(q) + 1
      <4>1. n \in 1..Len(q)
        BY <1>2, <3>2
      <4> QED
        BY <1>2, <1>3, <2>1, <2>2, <4>1
    <3> QED
      BY <3>1, <3>2
  <2> QED
    BY <1>2, <1>3, <2>1, <2>3
<1> DEFINE I == {n \in DOMAIN r : r[n].action \in Code}
           J == {n \in DOMAIN q : q[n].action \in Code}
<1>5. /\ \A n \in 1..Len(q) : n \in I <=> n \in J
      /\ Len(q) + 1 \in I <=> e.action \in Code
  BY <1>2
<1> HIDE DEF I, J, Y
<1>6. Kept(Append(Outputs(q), e.output), I) =
          IF Len(q) + 1 \in I THEN Append(Kept(Outputs(q), J), e.output)
          ELSE Kept(Outputs(q), J)
  <2>1. PICK t : t = Outputs(q)
    OBVIOUS
  <2>2. PICK x : x = e.output
    OBVIOUS
  <2>3. t \in Seq(Y) /\ x \in Y /\ \A n \in 1..Len(t) : n \in I <=> n \in J
    BY <1>3, <1>5, <2>1, <2>2
  <2>4. Kept(Append(t, x), I) =
            IF Len(t) + 1 \in I THEN Append(Kept(t, J), x) ELSE Kept(t, J)
    BY <2>3, KeptOfAppend
  <2> QED
    BY <1>3, <2>1, <2>2, <2>4
<1> QED
  BY <1>1, <1>4, <1>5, <1>6 DEF BasisOf, I, J

\* An empty fingerprint has no code outputs.
LEMMA BasisOfNothing == BasisOf(<<>>) = <<>>
<1>1. Len(Outputs(<<>>)) = 0
  BY OutputsType, <<>> \in Seq({})
<1>2. PICK g : Walks(g, Outputs(<<>>), {n \in DOMAIN <<>> : <<>>[n].action \in Code}, 0)
                /\ BasisOf(<<>>) = g[0]
  BY <1>1, KeptWalks DEF BasisOf
<1>3. g[0] = <<>>
  BY <1>2, WalkSteps
<1> QED
  BY <1>2, <1>3

\* The code outputs of a fingerprint are those of the entries it was taken of, when the
\* entries that are left out are not code outputs.
LEMMA BasisOfKept ==
    ASSUME NEW X, NEW N \in Nat, NEW E, NEW O, NEW I, NEW J,
           E \in Seq(X), Len(E) = N, Len(O) = N,
           \A n \in 1..N : O[n] = E[n].output,
           \A n \in 1..N : n \in J <=> n \in I /\ E[n].action \in Code
    PROVE  BasisOf(Kept(E, I)) = Kept(O, J)
<1>1. PICK c : Walks(c, E, I, N) /\ Kept(E, I) = c[N]
  BY KeptWalks
<1>2. PICK b : Walks(b, O, J, N) /\ Kept(O, J) = b[N]
  BY KeptWalks
<1>3. \A n \in 0..N : c[n] \in Seq(X)
  <2>1. \A n \in 1..N : E[n] \in X
    OBVIOUS
  <2> QED
    BY <1>1, <2>1, WalkType
<1>4. /\ c[0] = <<>>
      /\ \A n \in 0..(N - 1) :
            c[n + 1] = IF n + 1 \in I THEN Append(c[n], E[n + 1]) ELSE c[n]
  BY <1>1, WalkSteps
<1>5. /\ b[0] = <<>>
      /\ \A n \in 0..(N - 1) :
            b[n + 1] = IF n + 1 \in J THEN Append(b[n], O[n + 1]) ELSE b[n]
  <2>1. Walks(b, O, J, N)
    BY <1>2
  <2> QED
    BY ONLY N \in Nat, <2>1, WalkSteps
<1> DEFINE T == {n \in Nat : n <= N => BasisOf(c[n]) = b[n]}
<1>6. 0 \in T
  BY <1>4, <1>5, BasisOfNothing
<1>7. ASSUME NEW n \in Nat, n \in T
      PROVE  n + 1 \in T
  <2> SUFFICES ASSUME n + 1 <= N
               PROVE  BasisOf(c[n + 1]) = b[n + 1]
    OBVIOUS
  <2>1. n \in 0..(N - 1) /\ n \in 0..N /\ n + 1 \in 1..N /\ BasisOf(c[n]) = b[n]
    BY <1>7
  <2>2. c[n + 1] = IF n + 1 \in I THEN Append(c[n], E[n + 1]) ELSE c[n]
    BY <1>4, <2>1
  <2>3. b[n + 1] = IF n + 1 \in J THEN Append(b[n], O[n + 1]) ELSE b[n]
    BY <1>5, <2>1
  <2>4. c[n] \in Seq(X) /\ E[n + 1] \in X /\ O[n + 1] = E[n + 1].output
    BY <1>3, <2>1
  <2>5. n + 1 \in J <=> n + 1 \in I /\ E[n + 1].action \in Code
    BY <2>1
  <2>6. BasisOf(Append(c[n], E[n + 1])) =
            IF E[n + 1].action \in Code THEN Append(BasisOf(c[n]), E[n + 1].output)
            ELSE BasisOf(c[n])
    <3>1. PICK q : q = c[n]
      OBVIOUS
    <3>2. PICK e : e = E[n + 1]
      OBVIOUS
    <3>3. q \in Seq(X) /\ e \in X
      BY <2>4, <3>1, <3>2
    <3>4. BasisOf(Append(q, e)) =
              IF e.action \in Code THEN Append(BasisOf(q), e.output) ELSE BasisOf(q)
      BY ONLY <3>3, BasisOfAppend
    <3> QED
      BY <3>1, <3>2, <3>4
  <2> QED
    BY <2>1, <2>2, <2>3, <2>4, <2>5, <2>6
<1>8. \A n \in Nat : n <= N => BasisOf(c[n]) = b[n]
  <2>1. \A n \in Nat : n \in T
    <3> HIDE DEF T
    <3> QED
      BY <1>6, <1>7, Induction
  <2> QED
    BY <2>1
<1>9. BasisOf(c[N]) = b[N]
  BY <1>8
<1> QED
  BY <1>1, <1>2, <1>9, Zenon

-----------------------------------------------------------------------------
(* Types, reports and entries.                                               *)

\* The trace of a build is a sequence of actions.
LEMMA TraceType == TypeInv => Trace \in Seq(Actions)
BY BuildAssumption DEF TypeInv, Trace

\* What is true of the step the run is at.
LEMMA ActionFacts ==
    ASSUME TypeInv, NEW S, At(S)
    PROVE  /\ running /\ Len(steps) \in Nat /\ Trace \in Seq(Actions)
           /\ DOMAIN steps = 1..Len(steps) /\ DOMAIN Trace = 1..Len(Trace)
           /\ Len(Trace) \in Nat /\ Len(steps) + 1 \in 1..Len(Trace)
           /\ action = Trace[Len(steps) + 1] /\ action \in Actions /\ action \in S
           /\ opts \in [params : Params, backend : BOOLEAN, useCache : BOOLEAN]
           /\ opts.params \in Params /\ Here(action) = <<action, opts.params>>
<1>1. Trace \in Seq(Actions)
  BY TraceType
<1>2. /\ running /\ Len(steps) \in Nat /\ Len(steps) < Len(Trace) /\ Len(Trace) \in Nat
      /\ DOMAIN steps = 1..Len(steps) /\ DOMAIN Trace = 1..Len(Trace)
      /\ opts \in [params : Params, backend : BOOLEAN, useCache : BOOLEAN]
  BY <1>1 DEF TypeInv, At
<1>3. Len(steps) + 1 \in 1..Len(Trace)
  BY <1>2
<1>4. action = Trace[Len(steps) + 1] /\ action \in S
  BY DEF action, At
<1>5. action \in Actions
  BY <1>1, <1>3, <1>4
<1> QED
  BY <1>1, <1>2, <1>3, <1>4, <1>5 DEF Here

\* The report with one more step.
LEMMA ReportKeeps ==
    ASSUME TypeInv, ReportFollowsTrace, At(Actions), UNCHANGED build,
           NEW mode \in Modes, NEW ok \in BOOLEAN, NEW output \in Texts,
           Report(mode, ok, output),
           mode = "code" <=> action \in Code \ SelfReferential,
           action \in Code => (output = Silent <=> action \in SelfReferential)
    PROVE  /\ steps' \in Seq(Step) /\ Len(steps') = Len(steps) + 1
           /\ Len(steps') <= Len(Trace') /\ Trace' = Trace
           /\ \A n \in 1..Len(steps) : steps'[n] = steps[n]
           /\ steps'[Len(steps) + 1] =
                 [action |-> action, mode |-> mode, ok |-> ok, output |-> output]
           /\ ReportFollowsTrace'
<1> DEFINE r == [action |-> action, mode |-> mode, ok |-> ok, output |-> output]
<1>1. /\ Len(steps) \in Nat /\ Len(Trace) \in Nat /\ Len(steps) + 1 \in 1..Len(Trace)
      /\ action = Trace[Len(steps) + 1] /\ action \in Actions
      /\ DOMAIN steps = 1..Len(steps)
  BY ActionFacts
<1>2. r \in Step
  BY <1>1 DEF Step
<1>3. steps' = Append(steps, r) /\ steps \in Seq(Step)
  BY DEF Report, TypeInv
<1>4. r.action = action /\ r.mode = mode /\ r.output = output
  OBVIOUS
<1> HIDE DEF r
<1>5. /\ steps' \in Seq(Step) /\ Len(steps') = Len(steps) + 1
      /\ DOMAIN steps' = 1..(Len(steps) + 1)
      /\ \A n \in 1..Len(steps) : steps'[n] = steps[n]
      /\ steps'[Len(steps) + 1] = r
  BY <1>2, <1>3
<1>6. Trace' = Trace
  BY DEF Trace
<1>7. ReportFollowsTrace'
  <2> SUFFICES ASSUME NEW n \in 1..(Len(steps) + 1)
               PROVE  /\ steps'[n].action = Trace[n]
                      /\ steps'[n].mode = "code" <=> Trace[n] \in Code \ SelfReferential
                      /\ Trace[n] \in Code =>
                            (steps'[n].output = Silent <=> Trace[n] \in SelfReferential)
    BY <1>5, <1>6 DEF ReportFollowsTrace
  <2>1. CASE n = Len(steps) + 1
    BY <1>1, <1>4, <1>5, <2>1
  <2>2. CASE n # Len(steps) + 1
    <3>1. n \in 1..Len(steps)
      BY <1>1, <2>2
    <3> QED
      BY <1>1, <1>5, <3>1 DEF ReportFollowsTrace
  <2> QED
    BY <2>1, <2>2
<1> QED
  BY <1>1, <1>5, <1>6, <1>7 DEF r

\* The context of a run is well typed, and the code outputs its fingerprint stands for
\* are those of the run.
LEMMA ContextFacts ==
    ASSUME TypeInv, ReportFollowsTrace, running
    PROVE  /\ Context \in Seq(Expansion) /\ Basis \in Seq(Texts) /\ Computed \in File
           /\ BasisOf(Context) = Basis
<1>1. /\ steps \in Seq(Step) /\ Len(steps) \in Nat /\ DOMAIN steps = 1..Len(steps)
      /\ \A n \in 1..Len(steps) : steps[n] \in Step
      /\ opts.params \in Params /\ Trace \in Seq(Actions)
      /\ Len(steps) <= Len(Trace) /\ Len(Trace) \in Nat
  BY TraceType DEF TypeInv
<1> DEFINE E == [n \in DOMAIN steps |-> Expanded(steps[n])]
           O == Outputs(steps)
           I == {n \in DOMAIN steps : steps[n].output # Silent}
           J == {n \in DOMAIN steps : steps[n].mode = "code"}
           N == Len(steps)
<1>2. \A n \in 1..N : E[n] = Expanded(steps[n]) /\ O[n] = steps[n].output
  BY <1>1 DEF Outputs
<1>3. ASSUME NEW n \in 1..N
      PROVE  /\ E[n] \in Expansion /\ O[n] = E[n].output /\ O[n] \in Texts
             /\ E[n].action = steps[n].action
  <2>1. /\ steps[n].action \in Actions /\ steps[n].output \in Texts
    BY <1>1 DEF Step
  <2>2. steps[n].action \in Patched => files[Here(steps[n].action)] \in File \cup {Absent}
    BY <1>1 DEF TypeInv, Here
  <2>3. PICK s : s = steps[n]
    OBVIOUS
  <2>4. /\ Expanded(s) \in Expansion
        /\ Expanded(s).action = s.action /\ Expanded(s).output = s.output
    BY <2>1, <2>2, <2>3 DEF Expanded, Expansion
  <2> HIDE DEF E, O
  <2> QED
    BY <1>2, <2>1, <2>3, <2>4
<1>4. Len(E) = N /\ Len(O) = N
  BY <1>1 DEF Outputs
<1>5. ASSUME NEW n \in 1..N
      PROVE  n \in J <=> n \in I /\ E[n].action \in Code
  <2>1. n \in DOMAIN steps /\ E[n].action = steps[n].action
    BY <1>1, <1>3
  <2>2. /\ steps[n].action = Trace[n]
        /\ steps[n].mode = "code" <=> Trace[n] \in Code \ SelfReferential
        /\ Trace[n] \in Code => (steps[n].output = Silent <=> Trace[n] \in SelfReferential)
    BY <2>1 DEF ReportFollowsTrace
  <2> QED
    BY <2>1, <2>2
<1>6. Context = Kept(E, I) /\ Basis = Kept(O, J)
  BY DEF Context, Basis
<1> HIDE DEF E, O, I, J
<1>7. Kept(E, I) \in Seq(Expansion)
  BY <1>1, <1>3, <1>4, KeptType
<1>8. Kept(O, J) \in Seq(Texts)
  BY <1>1, <1>3, <1>4, KeptType
<1>9. BasisOf(Kept(E, I)) = Kept(O, J)
  <2>1. E \in Seq(Expansion)
    BY <1>1, <1>3, <1>4 DEF E
  <2>2. \A n \in 1..N : O[n] = E[n].output
    BY <1>3
  <2>3. \A n \in 1..N : n \in J <=> n \in I /\ E[n].action \in Code
    BY <1>5
  <2>4. PICK M \in Nat : M = N
    BY <1>1
  <2>5. /\ Len(E) = M /\ Len(O) = M
        /\ \A n \in 1..M : O[n] = E[n].output
        /\ \A n \in 1..M : n \in J <=> n \in I /\ E[n].action \in Code
    BY <1>4, <2>2, <2>3, <2>4
  <2> QED
    BY ONLY M \in Nat, <2>1, <2>5, BasisOfKept
<1>10. Computed \in File
  BY <1>1, <1>6, <1>8 DEF Computed, File
<1> QED
  BY <1>6, <1>7, <1>8, <1>9, <1>10

\* What a model-tier step does to the files, the cache and the report, whichever of its
\* branches it takes.
Taken(mode, ok, output) ==
    LET h == Here(action) IN
    /\ At(ModelTier) /\ Report(mode, ok, output)
    /\ UNCHANGED <<build, data, running, opts, last>>
    /\ mode \notin {"code", "skipped"}
    /\ files' \in [Patched \X Params -> File \cup {Absent}]
    /\ \A k \in Patched \X Params : k # h => files'[k] = files[k]
    /\ cache' \in [ModelTier \X Params -> Entry \cup {Absent}]
    /\ \A k \in ModelTier \X Params : k # h => cache'[k] = cache[k]
    /\ mode = "cache" <=> CacheStatus(action) = "hit"
    /\ mode = "cache" =>
          ok /\ cache' = cache /\ (action \in Patched => files'[h] = cache[h].file)
    /\ \/ cache'[h] = cache[h]
       \/ /\ cache'[h] # Absent /\ cache'[h].sha = Context
          /\ cache'[h].file = IF action \in Patched THEN Computed ELSE Absent
    /\ ok /\ mode # "needs_agent" /\ Silent \notin Replies =>
          /\ cache'[h] # Absent /\ cache'[h].sha = Context
          /\ action \notin FileModel => output = Said(cache'[h])
          /\ action \in Patched => files'[h] = cache'[h].file

\* What store does to the cache.
LEMMA StoreKeeps ==
    ASSUME TypeInv, ReportFollowsTrace, At(ModelTier),
           NEW o \in Texts, NEW f \in File \cup {Absent}, Store(action, o, f)
    PROVE  /\ cache' \in [ModelTier \X Params -> Entry \cup {Absent}]
           /\ \A k \in ModelTier \X Params : k # Here(action) => cache'[k] = cache[k]
           /\ o = Silent /\ f = Absent => cache' = cache
           /\ o # Silent \/ f # Absent =>
                 /\ cache'[Here(action)] # Absent /\ cache'[Here(action)].sha = Context
                 /\ cache'[Here(action)].output = o /\ cache'[Here(action)].file = f
<1>1. Here(action) \in ModelTier \X Params
  BY ActionFacts
<1>2. running
  BY DEF At
<1> DEFINE e == [sha |-> Context, output |-> o, file |-> f]
<1>3. e \in Entry /\ e # Absent
  <2>1. e \in Entry
    BY <1>2, ContextFacts DEF Entry
  <2> HIDE DEF e
  <2> QED
    BY <2>1, TextAssumption
<1>4. e.sha = Context /\ e.output = o /\ e.file = f
  OBVIOUS
<1>5. cache \in [ModelTier \X Params -> Entry \cup {Absent}]
  BY DEF TypeInv
<1>6. cache' = IF o = Silent /\ f = Absent THEN cache ELSE [cache EXCEPT ![Here(action)] = e]
  BY DEF Store
<1> HIDE DEF e
<1> QED
  BY <1>1, <1>3, <1>4, <1>5, <1>6

\* What an agent does to the files.
LEMMA AgentKeeps ==
    ASSUME TypeInv, ReportFollowsTrace, At(ModelTier),
           NEW wrote \in BOOLEAN, AgentWrites(wrote)
    PROVE  /\ files' \in [Patched \X Params -> File \cup {Absent}]
           /\ \A k \in Patched \X Params : k # Here(action) => files'[k] = files[k]
           /\ action \in Patched /\ wrote => files'[Here(action)] = Computed
<1>1. action \in Patched => Here(action) \in Patched \X Params
  BY ActionFacts
<1>2. Computed \in File
  BY ContextFacts DEF At
<1>3. files \in [Patched \X Params -> File \cup {Absent}]
  BY DEF TypeInv
<1> QED
  BY <1>1, <1>2, <1>3 DEF AgentWrites

\* Every model-tier step is of this kind when agents that exit with 0 have written
\* their files.
LEMMA ModelStepIsTaken ==
    ASSUME TypeInv, ReportFollowsTrace, EntriesOK, ~LazyAgent,
           \/ Replay \/ SlmFiles \/ SlmText \/ SlmRejected \/ NeedsAgent
           \/ \E reply \in Replies, wrote \in BOOLEAN : Escalated(reply, wrote)
           \/ \E reply \in Replies \cup {Silent}, wrote \in BOOLEAN :
                  EscalationFails(reply, wrote)
    PROVE  \E mode \in Modes, ok \in BOOLEAN, output \in Texts : Taken(mode, ok, output)
<1> DEFINE h == Here(action)
<1>1. At(ModelTier)
  BY BuildAssumption DEF At, Replay, SlmFiles, SlmText, SlmRejected, NeedsAgent, Escalated,
         EscalationFails
<1>2. /\ running /\ action \in ModelTier /\ h \in ModelTier \X Params
      /\ action \in Patched => h \in Patched \X Params
  BY <1>1, ActionFacts
<1>3. /\ files \in [Patched \X Params -> File \cup {Absent}]
      /\ cache \in [ModelTier \X Params -> Entry \cup {Absent}]
  BY DEF TypeInv
<1>4. /\ Computed \in File /\ Computed # Absent /\ Context \in Seq(Expansion)
  BY <1>2, ContextFacts, TextAssumption
<1>5. /\ FileModel \subseteq Patched /\ TextModel \cap Patched = {}
      /\ {"answer", "written", "from cache", Silent} \subseteq Texts /\ Replies \subseteq Texts
      /\ Silent \notin {"answer", "written", "from cache"}
  BY BuildAssumption, TextAssumption DEF Texts
<1>6. CASE Replay
  <2> DEFINE e == cache[h]
  <2>1. /\ CacheStatus(action) = "hit" /\ cache' = cache
        /\ UNCHANGED <<build, data, running, opts, last>>
        /\ files' = IF e.file = Absent THEN files ELSE [files EXCEPT ![h] = e.file]
        /\ Report("cache", TRUE, Said(e))
    BY <1>6 DEF Replay, Said
  <2>2. e # Absent /\ e.sha = Context /\ e \in Entry
    BY <1>2, <1>3, <2>1 DEF CacheStatus
  <2>3. e.file \in File \cup {Absent} /\ Said(e) \in Texts
    BY <1>5, <2>2 DEF Entry, Said
  <2>4. action \in Patched <=> e.file # Absent
    <3>1. h[1] = action
      BY <1>1, ActionFacts
    <3> QED
      BY <1>2, <1>3, <2>2, <3>1 DEF EntriesOK
  <2> HIDE DEF e, h
  <2>5. /\ files' \in [Patched \X Params -> File \cup {Absent}]
        /\ \A k \in Patched \X Params : k # h => files'[k] = files[k]
        /\ action \in Patched => files'[h] = e.file
    BY <1>2, <1>3, <2>1, <2>3, <2>4
  <2>6. Taken("cache", TRUE, Said(e))
    BY <1>1, <1>3, <2>1, <2>2, <2>5 DEF Taken, h, e
  <2> QED
    BY <2>3, <2>6 DEF Modes
<1>7. CASE SlmFiles
  <2>1. /\ CacheStatus(action) # "hit" /\ action \in FileModel
        /\ UNCHANGED <<build, data, running, opts, last>>
        /\ files' = [files EXCEPT ![h] = Computed]
        /\ Store(action, Silent, Computed)
        /\ Report("slm", TRUE, "written")
    BY <1>7 DEF SlmFiles, At
  <2>2. /\ cache' \in [ModelTier \X Params -> Entry \cup {Absent}]
        /\ \A k \in ModelTier \X Params : k # h => cache'[k] = cache[k]
        /\ cache'[h] # Absent /\ cache'[h].sha = Context /\ cache'[h].file = Computed
    <3>1. Silent \in Texts /\ Computed \in File \cup {Absent} /\ Computed # Absent
      BY <1>4, <1>5
    <3>2. PICK o, f : o = Silent /\ f = Computed
      OBVIOUS
    <3> QED
      BY <1>1, <2>1, <3>1, <3>2, StoreKeeps
  <2> HIDE DEF h
  <2>3. /\ files' \in [Patched \X Params -> File \cup {Absent}]
        /\ \A k \in Patched \X Params : k # h => files'[k] = files[k]
        /\ files'[h] = Computed
    BY <1>2, <1>3, <1>4, <1>5, <2>1
  <2>4. Taken("slm", TRUE, "written")
    BY <1>1, <1>5, <2>1, <2>2, <2>3 DEF Taken, h
  <2> QED
    BY <1>5, <2>4 DEF Modes
<1>8. CASE SlmText
  <2>1. /\ CacheStatus(action) # "hit" /\ action \in TextModel
        /\ UNCHANGED <<build, data, files, running, opts, last>>
        /\ Store(action, "answer", Absent)
        /\ Report("slm", TRUE, "answer")
    BY <1>8 DEF SlmText, At
  <2>2. /\ cache' \in [ModelTier \X Params -> Entry \cup {Absent}]
        /\ \A k \in ModelTier \X Params : k # h => cache'[k] = cache[k]
        /\ cache'[h] # Absent /\ cache'[h].sha = Context /\ cache'[h].file = Absent
        /\ cache'[h].output = "answer"
    BY <1>1, <1>5, <2>1, StoreKeeps
  <2>3. action \notin Patched /\ Said(cache'[h]) = "answer"
    BY <1>5, <2>1, <2>2 DEF Said
  <2>4. Taken("slm", TRUE, "answer")
    BY <1>1, <1>3, <2>1, <2>2, <2>3 DEF Taken
  <2> QED
    BY <1>5, <2>4 DEF Modes
<1>9. CASE SlmRejected
  <2>1. /\ CacheStatus(action) # "hit"
        /\ UNCHANGED <<build, data, files, cache, running, opts, last>>
        /\ Report("slm", FALSE, IF action \in FileModel THEN Silent ELSE "answer")
    BY <1>9 DEF SlmRejected
  <2>2. Taken("slm", FALSE, IF action \in FileModel THEN Silent ELSE "answer")
    BY <1>1, <1>3, <2>1 DEF Taken
  <2> QED
    BY <1>5, <2>2 DEF Modes
<1>10. CASE NeedsAgent
  <2>1. /\ CacheStatus(action) # "hit"
        /\ UNCHANGED <<build, data, files, cache, running, opts, last>>
        /\ Report("needs_agent", TRUE, Silent)
    BY <1>10 DEF NeedsAgent
  <2>2. Taken("needs_agent", TRUE, Silent)
    BY <1>1, <1>3, <2>1 DEF Taken
  <2> QED
    BY <1>5, <2>2 DEF Modes
<1>11. ASSUME NEW reply \in Replies, NEW wrote \in BOOLEAN, Escalated(reply, wrote)
       PROVE  Taken("escalated", TRUE, reply)
  <2> DEFINE f == IF action \in Patched THEN files'[h] ELSE Absent
  <2>1. /\ CacheStatus(action) # "hit" /\ AgentWrites(wrote)
        /\ action \in Patched => wrote
        /\ UNCHANGED <<build, data, running, opts, last>>
        /\ Store(action, reply, f)
        /\ Report("escalated", TRUE, reply)
    BY <1>11 DEF Escalated
  <2>2. /\ files' \in [Patched \X Params -> File \cup {Absent}]
        /\ \A k \in Patched \X Params : k # h => files'[k] = files[k]
        /\ action \in Patched => files'[h] = Computed
    BY <1>1, <2>1, AgentKeeps
  <2>3. f \in File \cup {Absent} /\ f = IF action \in Patched THEN Computed ELSE Absent
    BY <1>4, <2>2
  <2> HIDE DEF f
  <2>4. /\ cache' \in [ModelTier \X Params -> Entry \cup {Absent}]
        /\ \A k \in ModelTier \X Params : k # h => cache'[k] = cache[k]
        /\ reply = Silent /\ f = Absent => cache' = cache
        /\ reply # Silent \/ f # Absent =>
                 /\ cache'[h] # Absent /\ cache'[h].sha = Context
                 /\ cache'[h].output = reply /\ cache'[h].file = f
    BY <1>1, <1>5, <2>1, <2>3, StoreKeeps
  <2>5. Silent \notin Replies => reply # Silent
    OBVIOUS
  <2> QED
    BY <1>1, <2>1, <2>2, <2>3, <2>4, <2>5 DEF Taken, Said
<1>12. ASSUME NEW reply \in Replies \cup {Silent}, NEW wrote \in BOOLEAN,
              EscalationFails(reply, wrote)
       PROVE  Taken("escalated", FALSE, reply)
  <2>1. /\ CacheStatus(action) # "hit" /\ AgentWrites(wrote)
        /\ UNCHANGED <<build, data, cache, running, opts, last>>
        /\ Report("escalated", FALSE, reply)
    BY <1>12 DEF EscalationFails
  <2>2. /\ files' \in [Patched \X Params -> File \cup {Absent}]
        /\ \A k \in Patched \X Params : k # h => files'[k] = files[k]
    BY <1>1, <2>1, AgentKeeps
  <2> QED
    BY <1>1, <1>3, <2>1, <2>2 DEF Taken
<1>13. "escalated" \in Modes
  BY DEF Modes
<1>14. CASE \E reply \in Replies, wrote \in BOOLEAN : Escalated(reply, wrote)
  BY <1>5, <1>11, <1>13, <1>14
<1>15. CASE \E reply \in Replies \cup {Silent}, wrote \in BOOLEAN :
                EscalationFails(reply, wrote)
  BY <1>5, <1>12, <1>13, <1>15
<1> QED
  BY <1>6, <1>7, <1>8, <1>9, <1>10, <1>14, <1>15

\* A function with one value changed.
LEMMA ExceptType ==
    ASSUME NEW A, NEW S, NEW f \in [A -> S], NEW a, NEW v \in S
    PROVE  [f EXCEPT ![a] = v] \in [A -> S]
OBVIOUS

\* The inductive invariant of the first two theorems.
BaseInv == TypeInv /\ ReportFollowsTrace /\ EntriesOK

\* Nothing has been run yet.
LEMMA InitBase == Init => BaseInv
<1> SUFFICES ASSUME Init
             PROVE  BaseInv
  OBVIOUS
<1>1. Trace \in Seq(Actions)
  BY BuildAssumption DEF Init, Trace
<1>2. steps = <<>> /\ Len(steps) = 0 /\ DOMAIN steps = {} /\ Len(Trace) \in Nat
  BY <1>1 DEF Init
<1>3. TypeInv
  <2>1. files \in [Patched \X Params -> File \cup {Absent}]
    BY DEF Init
  <2>2. cache \in [ModelTier \X Params -> Entry \cup {Absent}]
    BY DEF Init
  <2>3. last \in [Params -> Seq(Texts) \cup {Absent}]
    BY DEF Init
  <2>4. steps \in Seq(Step) /\ Len(steps) <= Len(Trace)
    BY <1>2
  <2> QED
    BY <2>1, <2>2, <2>3, <2>4 DEF Init, TypeInv
<1>4. EntriesOK
  BY DEF Init, EntriesOK
<1>5. ReportFollowsTrace
  BY <1>2 DEF ReportFollowsTrace
<1> QED
  BY <1>3, <1>4, <1>5 DEF BaseInv

\* A model-tier step keeps the entries those of their upstream.
LEMMA TakenKeepsBase ==
    ASSUME BaseInv, NEW mode \in Modes, NEW ok \in BOOLEAN, NEW output \in Texts,
           Taken(mode, ok, output)
    PROVE  BaseInv'
<1> DEFINE h == Here(action)
<1>1. /\ At(ModelTier) /\ Report(mode, ok, output)
      /\ UNCHANGED <<build, data, running, opts, last>>
      /\ mode \notin {"code", "skipped"}
      /\ files' \in [Patched \X Params -> File \cup {Absent}]
      /\ cache' \in [ModelTier \X Params -> Entry \cup {Absent}]
      /\ \A k \in ModelTier \X Params : k # h => cache'[k] = cache[k]
      /\ \/ cache'[h] = cache[h]
         \/ /\ cache'[h] # Absent /\ cache'[h].sha = Context
            /\ cache'[h].file = IF action \in Patched THEN Computed ELSE Absent
  BY DEF Taken
<1>2. TypeInv /\ ReportFollowsTrace /\ EntriesOK
  BY DEF BaseInv
<1>3. At(Actions)
  BY <1>1 DEF At, ModelTier
<1>4. /\ running /\ action \notin Code /\ opts.params \in Params
      /\ h = <<action, opts.params>> /\ h \in ModelTier \X Params
      /\ h[1] = action /\ h[2] = opts.params
  BY <1>1, <1>2, ActionFacts DEF ModelTier
<1>5. /\ steps' \in Seq(Step) /\ Len(steps') <= Len(Trace') /\ ReportFollowsTrace'
  BY <1>1, <1>2, <1>3, <1>4, ReportKeeps
<1>6. TypeInv'
  BY <1>1, <1>2, <1>5 DEF TypeInv
<1>7. BasisOf(Context) = Basis /\ Computed = [params |-> opts.params, basis |-> Basis]
      /\ Computed # Absent
  BY <1>2, <1>4, ContextFacts, TextAssumption DEF Computed
<1>8. DOMAIN cache = ModelTier \X Params /\ DOMAIN cache' = ModelTier \X Params
  BY <1>1, <1>2 DEF TypeInv
<1>9. ASSUME NEW k \in ModelTier \X Params, cache'[k] # Absent
      PROVE  /\ k[1] \in Patched <=> cache'[k].file # Absent
             /\ k[1] \in Patched =>
                   cache'[k].file = [params |-> k[2], basis |-> BasisOf(cache'[k].sha)]
  <2>1. CASE cache'[k] = cache[k]
    BY <1>2, <1>8, <1>9, <2>1 DEF EntriesOK
  <2>2. CASE cache'[k] # cache[k]
    <3>1. k = h
      BY <1>1, <2>2
    <3>2. /\ cache'[h].sha = Context
          /\ cache'[h].file = IF action \in Patched THEN Computed ELSE Absent
      BY <1>1, <2>2, <3>1
    <3> QED
      BY <1>4, <1>7, <3>1, <3>2
  <2> QED
    BY <2>1, <2>2
<1>10. EntriesOK'
  BY <1>8, <1>9 DEF EntriesOK
<1> QED
  BY <1>5, <1>6, <1>10 DEF BaseInv

\* Which step it is that the run takes.
LEMMA RunStepCases ==
    ASSUME BaseInv, ~LazyAgent, RunStep
    PROVE  \/ \E ok \in BOOLEAN : CodeStep(ok)
           \/ SkipStep
           \/ \E mode \in Modes, ok \in BOOLEAN, output \in Texts : Taken(mode, ok, output)
           \/ Finish
BY ModelStepIsTaken DEF RunStep, BaseInv

\* A step of the code tiers reports its output.
LEMMA CodeStepReports ==
    ASSUME TypeInv, NEW ok \in BOOLEAN, CodeStep(ok)
    PROVE  /\ At(Actions) /\ action \in Code \ SelfReferential
           /\ \E output \in Texts \ {Silent} : Report("code", ok, output)
           /\ UNCHANGED <<build, data, files, cache, running, opts, last>>
<1>1. /\ At(Code \ SelfReferential) /\ Report("code", ok, IF ok THEN data ELSE Error)
      /\ UNCHANGED <<build, data, files, cache, running, opts, last>>
  BY DEF CodeStep
<1>2. data \in Texts \ {Silent} /\ Error \in Texts \ {Silent}
  BY TextAssumption DEF TypeInv, Texts
<1>3. action \in Actions /\ action \in Code \ SelfReferential
  BY <1>1, ActionFacts
<1> QED
  BY <1>1, <1>2, <1>3 DEF At

\* What a step of the code tiers, replayed or skipped, does.
Told(mode, ok, output) ==
    /\ At(Actions) /\ action \in Code /\ Report(mode, ok, output)
    /\ UNCHANGED <<build, data, files, cache, running, opts, last>>
    /\ mode = "code" <=> action \in Code \ SelfReferential
    /\ output = Silent <=> action \in SelfReferential

\* A step of the code tiers is of that kind.
LEMMA CodeStepIsTold ==
    ASSUME TypeInv, (\E ok \in BOOLEAN : CodeStep(ok)) \/ SkipStep
    PROVE  \E mode \in Modes, ok \in BOOLEAN, output \in Texts : Told(mode, ok, output)
<1>1. CASE \E ok \in BOOLEAN : CodeStep(ok)
  <2>1. PICK ok \in BOOLEAN : CodeStep(ok)
    BY <1>1
  <2> QED
    BY <2>1, CodeStepReports DEF Modes, Told
<1>2. CASE SkipStep
  <2>1. /\ At(SelfReferential) /\ Report("skipped", TRUE, Silent)
        /\ UNCHANGED <<build, data, files, cache, running, opts, last>>
    BY <1>2 DEF SkipStep
  <2>2. action \in Actions /\ action \in SelfReferential /\ action \in Code
    BY <2>1, ActionFacts, BuildAssumption
  <2>3. At(Actions) /\ Silent \in Texts /\ "skipped" \in Modes /\ "skipped" # "code"
    BY <2>1, <2>2 DEF At, Texts, Modes
  <2> QED
    BY <2>1, <2>2, <2>3 DEF Told
<1> QED
  BY <1>1, <1>2

\* A step of the code tiers only adds to the report.
LEMMA CodeStepKeepsBase ==
    ASSUME BaseInv, (\E ok \in BOOLEAN : CodeStep(ok)) \/ SkipStep
    PROVE  BaseInv'
<1>1. TypeInv /\ ReportFollowsTrace /\ EntriesOK
  BY DEF BaseInv
<1>2. PICK mode \in Modes, ok \in BOOLEAN, output \in Texts :
          /\ At(Actions) /\ Report(mode, ok, output)
          /\ UNCHANGED <<build, data, files, cache, running, opts, last>>
          /\ mode = "code" <=> action \in Code \ SelfReferential
          /\ action \in Code => (output = Silent <=> action \in SelfReferential)
  BY <1>1, CodeStepIsTold DEF Told
<1>3. /\ steps' \in Seq(Step) /\ Len(steps') <= Len(Trace') /\ ReportFollowsTrace'
  BY <1>1, <1>2, ReportKeeps
<1>4. TypeInv'
  BY <1>1, <1>2, <1>3 DEF TypeInv
<1>5. EntriesOK'
  BY <1>1, <1>2 DEF EntriesOK
<1> QED
  BY <1>3, <1>4, <1>5 DEF BaseInv

\* Each of the remaining actions leaves no run in the middle of its steps, or leaves the
\* run alone.
LEMMA OtherStepsKeepBase ==
    ASSUME BaseInv,
           \/ \E p \in Params, backend, useCache \in BOOLEAN : Start(p, backend, useCache)
           \/ Finish
           \/ \E wrote, torn \in BOOLEAN : Die(wrote, torn)
           \/ \E d \in Data : ChangeData(d)
           \/ \E k \in Patched \X Params : DeleteFile(k)
           \/ \E a \in ModelTier : ClearCache(a)
           \/ UNCHANGED vars
    PROVE  BaseInv'
<1>1. TypeInv /\ ReportFollowsTrace /\ EntriesOK
  BY DEF BaseInv
<1>2. /\ files \in [Patched \X Params -> File \cup {Absent}]
      /\ cache \in [ModelTier \X Params -> Entry \cup {Absent}]
      /\ last \in [Params -> Seq(Texts) \cup {Absent}]
      /\ Len(<<>>) = 0 /\ <<>> \in Seq(Step) /\ Len(Trace) \in Nat
      /\ build \in Builds /\ data \in Data /\ running \in BOOLEAN
  BY <1>1, TraceType DEF TypeInv
<1>3. steps' = <<>> => ReportFollowsTrace'
  BY DEF ReportFollowsTrace
<1>4. ASSUME build' = build
      PROVE  Trace' = Trace
  BY <1>4 DEF Trace
<1>5. CASE \E p \in Params, backend, useCache \in BOOLEAN : Start(p, backend, useCache)
  <2>1. PICK p \in Params, backend \in BOOLEAN, useCache \in BOOLEAN :
            Start(p, backend, useCache)
    BY <1>5
  <2>2. TypeInv'
    BY <1>1, <1>2, <1>4, <2>1 DEF TypeInv, Start
  <2>3. EntriesOK'
    BY <1>1, <2>1 DEF EntriesOK, Start
  <2> QED
    BY <1>3, <2>1, <2>2, <2>3 DEF BaseInv, Start
<1>6. CASE Finish
  <2>1. running /\ Basis \in Seq(Texts) /\ opts.params \in Params
    BY <1>1, <1>6, ContextFacts DEF Finish, TypeInv
  <2>2. last' \in [Params -> Seq(Texts) \cup {Absent}]
    <3>1. PICK v \in Seq(Texts) \cup {Absent} : last' = [last EXCEPT ![opts.params] = v]
      BY <1>6, <2>1 DEF Finish
    <3>2. [last EXCEPT ![opts.params] = v] \in [Params -> Seq(Texts) \cup {Absent}]
      BY <1>2, ExceptType, Zenon
    <3> QED
      BY <3>1, <3>2, Zenon
  <2>3. TypeInv'
    <3>1. /\ build' \in Builds /\ data' \in Data /\ running' = FALSE
          /\ steps' \in Seq(Step) /\ Len(steps') <= Len(Trace')
          /\ files' \in [Patched \X Params -> File \cup {Absent}]
          /\ cache' \in [ModelTier \X Params -> Entry \cup {Absent}]
      BY <1>2, <1>4, <1>6 DEF Finish
    <3> QED
      BY ONLY <3>1, <2>2 DEF TypeInv
  <2>4. EntriesOK'
    BY <1>1, <1>6 DEF EntriesOK, Finish
  <2> QED
    BY <1>3, <1>6, <2>3, <2>4 DEF BaseInv, Finish
<1>7. CASE \E wrote, torn \in BOOLEAN : Die(wrote, torn)
  <2>1. PICK wrote \in BOOLEAN, torn \in BOOLEAN : Die(wrote, torn)
    BY <1>7
  <2>2. /\ At(ModelTier) /\ running' = FALSE /\ steps' = <<>> /\ AgentWrites(wrote)
        /\ UNCHANGED <<build, data>>
        /\ cache' = IF torn THEN [cache EXCEPT ![Here(action)] = Absent] ELSE cache
        /\ last' = [last EXCEPT ![opts.params] = Absent]
    BY <2>1 DEF Die
  <2>3. files' \in [Patched \X Params -> File \cup {Absent}]
    BY <1>1, <2>2, AgentKeeps
  <2>4. /\ cache' \in [ModelTier \X Params -> Entry \cup {Absent}]
        /\ \A k \in ModelTier \X Params : cache'[k] # Absent => cache'[k] = cache[k]
    BY <1>2, <2>2
  <2>5. last' \in [Params -> Seq(Texts) \cup {Absent}]
    <3>1. last' = [last EXCEPT ![opts.params] = Absent]
      BY <2>2
    <3>2. last \in [Params -> Seq(Texts) \cup {Absent}] /\ Absent \in Seq(Texts) \cup {Absent}
      BY <1>2
    <3>3. [last EXCEPT ![opts.params] = Absent] \in [Params -> Seq(Texts) \cup {Absent}]
      BY <3>2, ExceptType, Zenon
    <3> QED
      BY <3>1, <3>3, Zenon
  <2>6. TypeInv'
    <3>1. /\ build' \in Builds /\ data' \in Data /\ running' = FALSE
          /\ steps' \in Seq(Step) /\ Len(steps') <= Len(Trace')
      BY <1>2, <1>4, <2>2
    <3>2. cache' \in [ModelTier \X Params -> Entry \cup {Absent}]
      BY <2>4
    <3> QED
      BY ONLY <3>1, <3>2, <2>3, <2>5 DEF TypeInv
  <2>7. EntriesOK'
    BY <1>1, <1>2, <2>4 DEF EntriesOK
  <2> QED
    BY <1>3, <2>2, <2>6, <2>7 DEF BaseInv
<1>8. CASE \E d \in Data : ChangeData(d)
  <2>1. /\ data' \in Data
        /\ UNCHANGED <<build, files, cache, running, opts, steps, last>>
    BY <1>8 DEF ChangeData
  <2> QED
    BY <1>1, <1>4, <2>1 DEF BaseInv, TypeInv, EntriesOK, ReportFollowsTrace
<1>9. CASE \E k \in Patched \X Params : DeleteFile(k)
  <2>1. /\ files' \in [Patched \X Params -> File \cup {Absent}]
        /\ UNCHANGED <<build, data, cache, running, opts, steps, last>>
    BY <1>2, <1>9 DEF DeleteFile
  <2> QED
    BY <1>1, <1>4, <2>1 DEF BaseInv, TypeInv, EntriesOK, ReportFollowsTrace
<1>10. CASE \E a \in ModelTier : ClearCache(a)
  <2>1. /\ cache' \in [ModelTier \X Params -> Entry \cup {Absent}]
        /\ \A k \in ModelTier \X Params : cache'[k] # Absent => cache'[k] = cache[k]
        /\ last' \in [Params -> Seq(Texts) \cup {Absent}]
        /\ UNCHANGED <<build, data, files, running, opts, steps>>
    BY <1>2, <1>10 DEF ClearCache
  <2>2. TypeInv'
    BY <1>1, <1>4, <2>1 DEF TypeInv
  <2>3. EntriesOK'
    BY <1>1, <1>2, <2>1 DEF EntriesOK
  <2>4. ReportFollowsTrace'
    BY <1>1, <1>4, <2>1 DEF ReportFollowsTrace
  <2> QED
    BY <2>2, <2>3, <2>4 DEF BaseInv
<1>11. CASE UNCHANGED vars
  BY <1>1, <1>4, <1>11 DEF vars, BaseInv, TypeInv, EntriesOK, ReportFollowsTrace
<1> QED
  BY <1>5, <1>6, <1>7, <1>8, <1>9, <1>10, <1>11

\* Every step keeps the entries those of their upstream.
LEMMA BaseIsInductive == ASSUME BaseInv, ~LazyAgent, [Next]_vars PROVE BaseInv'
<1>1. CASE RunStep
  BY <1>1, RunStepCases, TakenKeepsBase, CodeStepKeepsBase, OtherStepsKeepBase
<1>2. CASE ~RunStep
  BY <1>2, OtherStepsKeepBase DEF Next
<1> QED
  BY <1>1, <1>2

\* Without agents that exit with 0 and write nothing, the file of a cache entry was made
\* for the entry's parameters from the code outputs its fingerprint was taken of (store).
THEOREM EntriesAreOfTheirUpstream ==
    ASSUME ~LazyAgent
    PROVE  Spec => []EntryIsOfItsUpstream
<1>1. BaseInv => EntryIsOfItsUpstream
  <2> SUFFICES ASSUME BaseInv, NEW k \in DOMAIN cache,
                      cache[k] # Absent, cache[k].file # Absent
               PROVE  cache[k].file = [params |-> k[2], basis |-> BasisOf(cache[k].sha)]
    BY DEF EntryIsOfItsUpstream
  <2> QED
    BY DEF BaseInv, EntriesOK
<1>2. BaseInv /\ [Next]_vars => BaseInv'
  BY BaseIsInductive
<1> QED
  BY <1>1, <1>2, InitBase, PTL DEF Spec

\* What a replay writes is what this run would have computed.
LEMMA StepReplaysThisData ==
    ASSUME BaseInv, ~LazyAgent, Next
    PROVE  \A k \in DOMAIN files :
               /\ Len(steps') = Len(steps) + 1 /\ steps'[Len(steps')].mode = "cache"
               /\ k = Here(steps'[Len(steps')].action)
               => files'[k] = Computed
<1> SUFFICES ASSUME NEW k \in DOMAIN files,
                    Len(steps') = Len(steps) + 1, steps'[Len(steps')].mode = "cache",
                    k = Here(steps'[Len(steps')].action)
             PROVE  files'[k] = Computed
  OBVIOUS
<1>1. TypeInv /\ ReportFollowsTrace /\ EntriesOK
  BY DEF BaseInv
<1>2. Len(steps) \in Nat /\ Len(<<>>) = 0 /\ steps \in Seq(Step)
  BY <1>1 DEF TypeInv
<1>3. steps' # steps /\ steps' # <<>>
  BY <1>2
<1>4. RunStep /\ ~Finish
  BY <1>3 DEF Next, Start, Die, ChangeData, DeleteFile, ClearCache, Finish
<1>5. ASSUME NEW mode, NEW ok, NEW output, Report(mode, ok, output)
      PROVE  mode = "cache" /\ k = Here(action)
  <2> DEFINE r == [action |-> action, mode |-> mode, ok |-> ok, output |-> output]
  <2>1. steps' = Append(steps, r)
    BY <1>5 DEF Report
  <2>2. r.mode = mode /\ r.action = action
    OBVIOUS
  <2> HIDE DEF r
  <2>3. steps'[Len(steps')] = r
    BY <1>2, <2>1
  <2>4. steps'[Len(steps')].mode = mode /\ steps'[Len(steps')].action = action
    BY <2>2, <2>3, Zenon
  <2> QED
    BY <2>4 DEF Here
<1>6. ~SkipStep /\ \A ok \in BOOLEAN : ~CodeStep(ok)
  <2>1. \A mode, ok, output : Report(mode, ok, output) => mode = "cache"
    BY <1>5
  <2>2. SkipStep => Report("skipped", TRUE, Silent)
    BY DEF SkipStep
  <2>3. \A ok \in BOOLEAN : CodeStep(ok) => \E output : Report("code", ok, output)
    BY DEF CodeStep
  <2>4. "skipped" # "cache" /\ "code" # "cache"
    OBVIOUS
  <2> QED
    BY ONLY <2>1, <2>2, <2>3, <2>4
<1>7. PICK mode \in Modes, ok \in BOOLEAN, output \in Texts : Taken(mode, ok, output)
  BY <1>4, <1>6, RunStepCases
<1>8. Report(mode, ok, output) /\ At(ModelTier)
  BY <1>7 DEF Taken
<1>9. mode = "cache" /\ k = Here(action)
  BY <1>5, <1>8
<1>10. /\ running /\ Here(action) = <<action, opts.params>> /\ action \in ModelTier
       /\ Here(action) \in ModelTier \X Params
  BY <1>1, <1>8, ActionFacts
<1>11. action \in Patched
  BY <1>1, <1>9, <1>10 DEF TypeInv
<1>12. CacheStatus(action) = "hit" /\ files'[k] = cache[k].file
  BY <1>7, <1>9, <1>11 DEF Taken
<1>13. cache[k] # Absent /\ cache[k].sha = Context
  BY <1>9, <1>12 DEF CacheStatus
<1>14. cache[k].file = [params |-> k[2], basis |-> BasisOf(cache[k].sha)]
  BY <1>1, <1>9, <1>10, <1>11, <1>13 DEF EntriesOK, TypeInv
<1>15. BasisOf(Context) = Basis
  BY <1>1, <1>10, ContextFacts
<1> QED
  BY <1>9, <1>10, <1>12, <1>13, <1>14, <1>15 DEF Computed

\* When every agent that exits with 0 has written its file, a file replayed from the cache
\* is the one for this run's parameters and code outputs (lookup_any, run_build), over
\* dead runs, changed data and deleted files.  Without that assumption it fails: store
\* takes an older file under the name for the answer, and nothing there notices.
THEOREM ReplaysAreOfThisData ==
    ASSUME ~LazyAgent
    PROVE  Spec => ReplayIsOfThisData
<1>1. BaseInv /\ [Next]_vars => BaseInv'
  BY BaseIsInductive
<1>2. BaseInv /\ [Next]_vars =>
         [\A k \in DOMAIN files :
             /\ Len(steps') = Len(steps) + 1 /\ steps'[Len(steps')].mode = "cache"
             /\ k = Here(steps'[Len(steps')].action)
             => files'[k] = Computed]_vars
  BY StepReplaysThisData
<1> QED
  BY <1>1, <1>2, InitBase, PTL DEF Spec, ReplayIsOfThisData

-----------------------------------------------------------------------------
(* Escalate once.                                                            *)

\* The build of a run satisfies what escalating once rests on.
LEMMA TraceIsReplayable ==
    ASSUME TypeInv, Replayable
    PROVE  \A m, n \in DOMAIN Trace :
              /\ Trace[m] \in ModelTier /\ Trace[n] = Trace[m] => m = n
              /\ Trace[m] \in FileModel /\ Trace[n] \in ModelTier => n <= m
BY DEF TypeInv, Replayable, Trace

\* What comes before a step depends on the earlier outputs and files only.
LEMMA BeforeSame ==
    ASSUME NEW T, NEW C, NEW F, NEW p, NEW D, NEW E, NEW n \in Nat,
           \A m \in 1..(n - 1) :
              /\ D[m] = E[m]
              /\ T[m] \in Patched => C[<<T[m], p>>] = F[<<T[m], p>>]
    PROVE  Before(T, C, p, D, n) = Before(T, F, p, E, n)
<1> DEFINE s == [m \in 1..(n - 1) |->
                   [action |-> T[m], output |-> D[m],
                    file |-> IF T[m] \in Patched THEN C[<<T[m], p>>].file ELSE Absent]]
           t == [m \in 1..(n - 1) |->
                   [action |-> T[m], output |-> E[m],
                    file |-> IF T[m] \in Patched THEN F[<<T[m], p>>].file ELSE Absent]]
           I == {m \in 1..(n - 1) : D[m] # Silent}
           J == {m \in 1..(n - 1) : E[m] # Silent}
<1>1. I = J
  OBVIOUS
<1>2. s = t
  OBVIOUS
<1>3. Before(T, C, p, D, n) = Kept(s, I) /\ Before(T, F, p, E, n) = Kept(t, J)
  BY DEF Before
<1> HIDE DEF s, t, I, J
<1> QED
  BY <1>1, <1>2, <1>3

\* Whether a place is replayed depends on the outputs and entries up to it only.
LEMMA ReplayedSame ==
    ASSUME NEW T, NEW C, NEW F, NEW p, NEW D, NEW E, NEW n \in Nat, n # 0,
           \A m \in 1..n :
              /\ D[m] = E[m]
              /\ T[m] \in ModelTier => C[<<T[m], p>>] = F[<<T[m], p>>],
           Replayed(T, C, p, D, n)
    PROVE  Replayed(T, F, p, E, n)
<1>1. n \in 1..n /\ \A m \in 1..(n - 1) : m \in 1..n
  OBVIOUS
<1>2. Patched \subseteq ModelTier
  BY BuildAssumption
<1>3. \A m \in 1..(n - 1) :
         /\ D[m] = E[m]
         /\ T[m] \in Patched => C[<<T[m], p>>] = F[<<T[m], p>>]
  BY <1>1, <1>2
<1>4. Before(T, C, p, D, n) = Before(T, F, p, E, n)
  BY <1>3, BeforeSame
<1>5. T[n] \in ModelTier => D[n] = E[n] /\ C[<<T[n], p>>] = F[<<T[n], p>>]
  BY <1>1
<1> QED
  BY <1>4, <1>5 DEF Replayed

\* The context of a step is what came before it when the earlier files are on disk.
LEMMA ContextIsBefore ==
    ASSUME TypeInv, ReportFollowsTrace, running,
           \A m \in DOMAIN steps : OnDisk(opts.params, m)
    PROVE  Context = Before(Trace, cache, opts.params, Outputs(steps), Len(steps) + 1)
<1>1. Len(steps) \in Nat /\ DOMAIN steps = 1..Len(steps) /\ (Len(steps) + 1) - 1 = Len(steps)
  BY DEF TypeInv
<1> DEFINE p == opts.params
           D == Outputs(steps)
           s == [m \in DOMAIN steps |-> Expanded(steps[m])]
           t == [m \in 1..((Len(steps) + 1) - 1) |->
                   [action |-> Trace[m], output |-> D[m],
                    file |-> IF Trace[m] \in Patched THEN cache[<<Trace[m], p>>].file
                             ELSE Absent]]
           I == {m \in DOMAIN steps : steps[m].output # Silent}
           J == {m \in 1..((Len(steps) + 1) - 1) : D[m] # Silent}
<1>2. \A m \in DOMAIN steps : D[m] = steps[m].output
  BY DEF Outputs
<1>3. I = J
  BY <1>1, <1>2
<1>4. \A m \in DOMAIN steps : steps[m].action = Trace[m]
  BY DEF ReportFollowsTrace
<1>5. ASSUME NEW m \in DOMAIN steps
      PROVE  Expanded(steps[m]) =
                [action |-> Trace[m], output |-> D[m],
                 file |-> IF Trace[m] \in Patched THEN cache[<<Trace[m], p>>].file
                          ELSE Absent]
  <2>1. Trace[m] \in Patched => files[<<Trace[m], p>>] = cache[<<Trace[m], p>>].file
    BY DEF OnDisk
  <2> QED
    BY <1>2, <1>4, <2>1 DEF Expanded, Here
<1>6. s = t
  <2> HIDE DEF D, p
  <2> QED
    BY <1>1, <1>5
<1>7. Context = Kept(s, I)
  BY DEF Context
<1>8. Before(Trace, cache, p, D, Len(steps) + 1) = Kept(t, J)
  BY DEF Before
<1> HIDE DEF s, t, I, J
<1> QED
  BY <1>3, <1>6, <1>7, <1>8

\* One more step of a run: what every case below needs.
LEMMA StepFacts ==
    ASSUME BaseInv, UNCHANGED build,
           NEW mode \in Modes, NEW ok \in BOOLEAN, NEW output \in Texts,
           Taken(mode, ok, output) \/ Told(mode, ok, output)
    PROVE  /\ running /\ Len(steps) \in Nat /\ DOMAIN steps = 1..Len(steps)
           /\ Trace \in Seq(Actions) /\ DOMAIN Trace = 1..Len(Trace) /\ Trace' = Trace
           /\ Len(steps) + 1 \in DOMAIN Trace /\ \A n \in DOMAIN steps : n \in DOMAIN Trace
           /\ action = Trace[Len(steps) + 1] /\ Here(action) = <<action, opts.params>>
           /\ opts.params \in Params
           /\ DOMAIN steps' = 1..(Len(steps) + 1) /\ Len(steps') = Len(steps) + 1
           /\ \A n \in DOMAIN steps : steps'[n] = steps[n]
           /\ steps'[Len(steps) + 1].mode = mode /\ steps'[Len(steps) + 1].ok = ok
           /\ steps'[Len(steps) + 1].output = output
           /\ \A n \in DOMAIN steps : Outputs(steps')[n] = Outputs(steps)[n]
           /\ \A n \in DOMAIN steps : Outputs(steps)[n] = steps[n].output
           /\ Outputs(steps')[Len(steps) + 1] = output
<1>1. TypeInv /\ ReportFollowsTrace
  BY DEF BaseInv
<1>2. /\ At(Actions) /\ Report(mode, ok, output)
      /\ mode = "code" <=> action \in Code \ SelfReferential
      /\ action \in Code => (output = Silent <=> action \in SelfReferential)
  <2>1. CASE Taken(mode, ok, output)
    BY <2>1 DEF Taken, At, ModelTier
  <2>2. CASE Told(mode, ok, output)
    BY <2>2 DEF Told
  <2> QED
    BY <2>1, <2>2
<1>3. /\ running /\ Len(steps) \in Nat /\ DOMAIN steps = 1..Len(steps)
      /\ Trace \in Seq(Actions) /\ DOMAIN Trace = 1..Len(Trace) /\ Len(Trace) \in Nat
      /\ Len(steps) + 1 \in 1..Len(Trace)
      /\ action = Trace[Len(steps) + 1] /\ Here(action) = <<action, opts.params>>
      /\ opts.params \in Params
  BY <1>1, <1>2, ActionFacts
<1> DEFINE r == [action |-> action, mode |-> mode, ok |-> ok, output |-> output]
<1>4. /\ steps' \in Seq(Step) /\ Len(steps') = Len(steps) + 1 /\ Trace' = Trace
      /\ \A n \in 1..Len(steps) : steps'[n] = steps[n]
      /\ steps'[Len(steps) + 1] = r
  BY <1>1, <1>2, ReportKeeps
<1>5. r.mode = mode /\ r.ok = ok /\ r.output = output
  OBVIOUS
<1> HIDE DEF r
<1>6. DOMAIN steps' = 1..(Len(steps) + 1) /\ \A n \in DOMAIN steps : n \in DOMAIN Trace
  BY <1>3, <1>4
<1>7. /\ \A n \in DOMAIN steps : Outputs(steps)[n] = steps[n].output
      /\ \A n \in DOMAIN steps' : Outputs(steps')[n] = steps'[n].output
  BY DEF Outputs
<1>8. Len(steps) + 1 \in DOMAIN steps' /\ \A n \in DOMAIN steps : n \in DOMAIN steps'
  BY <1>3, <1>6
<1>9. /\ steps'[Len(steps) + 1].mode = mode /\ steps'[Len(steps) + 1].ok = ok
      /\ steps'[Len(steps) + 1].output = output
  BY <1>4, <1>5, Zenon
<1> QED
  BY <1>3, <1>4, <1>6, <1>7, <1>8, <1>9

\* A model-tier step leaves the files and entries of other steps and parameters alone.
LEMMA TakenLeavesOthers ==
    ASSUME BaseInv, Replayable,
           NEW mode \in Modes, NEW ok \in BOOLEAN, NEW output \in Texts,
           Taken(mode, ok, output)
    PROVE  /\ \A p \in Params, n \in DOMAIN Trace :
                 p # opts.params /\ Trace[n] \in ModelTier =>
                     cache'[<<Trace[n], p>>] = cache[<<Trace[n], p>>]
           /\ \A n \in DOMAIN steps :
                 /\ Trace[n] \in ModelTier =>
                       cache'[<<Trace[n], opts.params>>] = cache[<<Trace[n], opts.params>>]
                 /\ Trace[n] \in Patched =>
                       files'[<<Trace[n], opts.params>>] = files[<<Trace[n], opts.params>>]
<1> DEFINE h == Here(action)
<1>1. /\ \A k \in Patched \X Params : k # h => files'[k] = files[k]
      /\ \A k \in ModelTier \X Params : k # h => cache'[k] = cache[k]
      /\ UNCHANGED build /\ At(ModelTier)
  BY DEF Taken
<1>2. /\ Len(steps) \in Nat /\ DOMAIN steps = 1..Len(steps)
      /\ Len(steps) + 1 \in DOMAIN Trace /\ \A n \in DOMAIN steps : n \in DOMAIN Trace
      /\ action = Trace[Len(steps) + 1] /\ h = <<action, opts.params>>
      /\ opts.params \in Params
  BY <1>1, StepFacts
<1>3. action \in ModelTier
  BY <1>1 DEF At
<1>4. ASSUME NEW p \in Params, NEW n \in DOMAIN Trace,
             p # opts.params, Trace[n] \in ModelTier
      PROVE  cache'[<<Trace[n], p>>] = cache[<<Trace[n], p>>]
  <2>1. <<Trace[n], p>> # h /\ <<Trace[n], p>> \in ModelTier \X Params
    BY <1>2, <1>4
  <2> QED
    BY <1>1, <2>1
<1>5. ASSUME NEW n \in DOMAIN steps
      PROVE  Trace[n] # action
  <2>1. n # Len(steps) + 1 /\ n \in DOMAIN Trace
    BY <1>2
  <2> QED
    BY <1>2, <1>3, <2>1, TraceIsReplayable DEF BaseInv
<1>6. ASSUME NEW n \in DOMAIN steps
      PROVE  <<Trace[n], opts.params>> # h
  BY <1>2, <1>5
<1>7. ASSUME NEW n \in DOMAIN steps, Trace[n] \in ModelTier
      PROVE  cache'[<<Trace[n], opts.params>>] = cache[<<Trace[n], opts.params>>]
  BY <1>1, <1>2, <1>6, <1>7
<1>8. ASSUME NEW n \in DOMAIN steps, Trace[n] \in Patched
      PROVE  files'[<<Trace[n], opts.params>>] = files[<<Trace[n], opts.params>>]
  BY <1>1, <1>2, <1>6, <1>8
<1> QED
  BY <1>4, <1>7, <1>8

\* A model-tier step that is done is in the cache under the context it had.
LEMMA TakenKeepsRun ==
    ASSUME BaseInv, RunIsKept, Replayable,
           NEW mode \in Modes, NEW ok \in BOOLEAN, NEW output \in Texts,
           Taken(mode, ok, output)
    PROVE  RunIsKept'
<1> DEFINE h == Here(action)
           N == Len(steps)
           p == opts.params
<1>1. /\ At(ModelTier) /\ UNCHANGED <<build, opts>>
      /\ ok /\ mode # "needs_agent" =>
          /\ cache'[h] # Absent /\ cache'[h].sha = Context
          /\ action \notin FileModel => output = Said(cache'[h])
          /\ action \in Patched => files'[h] = cache'[h].file
  BY DEF Taken, Replayable
<1>2. action \in ModelTier
  BY <1>1 DEF At
<1>3. /\ running /\ N \in Nat /\ DOMAIN steps = 1..N
      /\ Trace' = Trace
      /\ N + 1 \in DOMAIN Trace /\ \A n \in DOMAIN steps : n \in DOMAIN Trace
      /\ action = Trace[N + 1] /\ h = <<action, p>>
      /\ DOMAIN steps' = 1..(N + 1)
      /\ \A n \in DOMAIN steps : steps'[n] = steps[n]
      /\ steps'[N + 1].mode = mode /\ steps'[N + 1].ok = ok
      /\ \A n \in DOMAIN steps : Outputs(steps')[n] = Outputs(steps)[n]
      /\ Outputs(steps')[N + 1] = output
  BY <1>1, StepFacts
<1>4. \A n \in DOMAIN steps :
         /\ Trace[n] \in ModelTier => cache'[<<Trace[n], p>>] = cache[<<Trace[n], p>>]
         /\ Trace[n] \in Patched => files'[<<Trace[n], p>>] = files[<<Trace[n], p>>]
  BY TakenLeavesOthers
<1>5. Patched \subseteq ModelTier
  BY BuildAssumption
<1> SUFFICES ASSUME running', AllDone', NEW n \in DOMAIN steps'
             PROVE  /\ Replayed(Trace', cache', opts'.params, Outputs(steps'), n)
                    /\ OnDisk(opts.params, n)'
  BY DEF RunIsKept
<1>6. AllDone /\ ok /\ mode # "needs_agent"
  <2>1. \A m \in 1..(N + 1) : steps'[m].ok /\ steps'[m].mode # "needs_agent"
    BY <1>3 DEF AllDone
  <2>2. N + 1 \in 1..(N + 1) /\ \A m \in 1..N : m \in 1..(N + 1)
    BY <1>3
  <2> QED
    BY <1>3, <2>1, <2>2 DEF AllDone
<1>7. \A m \in DOMAIN steps : Replayed(Trace, cache, p, Outputs(steps), m) /\ OnDisk(p, m)
  BY <1>3, <1>6 DEF RunIsKept
<1>8. opts' = opts
  BY <1>1
<1> HIDE DEF h, N, p
<1>9. CASE n \in DOMAIN steps
  <2>1. n \in Nat /\ n # 0 /\ \A m \in 1..n : m \in DOMAIN steps
    BY <1>3, <1>9
  <2>2. \A m \in 1..n :
           /\ Outputs(steps)[m] = Outputs(steps')[m]
           /\ Trace[m] \in ModelTier => cache[<<Trace[m], p>>] = cache'[<<Trace[m], p>>]
    BY <1>3, <1>4, <2>1
  <2>3. Replayed(Trace, cache', p, Outputs(steps'), n)
    <3>1. Replayed(Trace, cache, p, Outputs(steps), n)
      BY <1>7, <1>9
    <3> QED
      BY <2>1, <2>2, <3>1, ReplayedSame
  <2>4. OnDisk(p, n)
    BY <1>7, <1>9
  <2>5. Trace[n] \in Patched => files'[<<Trace[n], p>>] = cache'[<<Trace[n], p>>].file
    BY <1>4, <1>5, <1>9, <2>4 DEF OnDisk
  <2> QED
    BY <1>3, <1>8, <2>3, <2>5 DEF OnDisk, p
<1>10. CASE n \notin DOMAIN steps
  <2>1. n = N + 1
    BY <1>3, <1>10
  <2>2. Context = Before(Trace, cache, p, Outputs(steps), N + 1)
    BY <1>3, <1>7, ContextIsBefore DEF BaseInv, p, N
  <2>3. Before(Trace, cache, p, Outputs(steps), N + 1)
          = Before(Trace, cache', p, Outputs(steps'), N + 1)
    <3>1. N + 1 \in Nat /\ \A m \in 1..((N + 1) - 1) : m \in DOMAIN steps
      BY <1>3
    <3>2. \A m \in 1..((N + 1) - 1) :
             /\ Outputs(steps)[m] = Outputs(steps')[m]
             /\ Trace[m] \in Patched => cache[<<Trace[m], p>>] = cache'[<<Trace[m], p>>]
      BY <1>3, <1>4, <1>5, <3>1
    <3> QED
      BY <3>1, <3>2, BeforeSame
  <2>4. /\ cache'[h] # Absent /\ cache'[h].sha = Context
        /\ action \notin FileModel => output = Said(cache'[h])
        /\ action \in Patched => files'[h] = cache'[h].file
    BY <1>1, <1>6 DEF h
  <2>5. h = <<Trace[n], p>> /\ action = Trace[n] /\ Outputs(steps')[n] = output
    BY <1>3, <2>1
  <2>6. Replayed(Trace, cache', p, Outputs(steps'), n)
    BY <2>1, <2>2, <2>3, <2>4, <2>5 DEF Replayed
  <2>7. Trace[n] \in Patched => files'[<<Trace[n], p>>] = cache'[<<Trace[n], p>>].file
    BY <2>4, <2>5
  <2> QED
    BY <1>3, <1>8, <2>6, <2>7 DEF OnDisk, p
<1> QED
  BY <1>9, <1>10

\* A step of the code tiers leaves cache and files as they are.
LEMMA ToldKeepsRun ==
    ASSUME BaseInv, RunIsKept,
           NEW mode \in Modes, NEW ok \in BOOLEAN, NEW output \in Texts,
           Told(mode, ok, output)
    PROVE  RunIsKept'
<1> DEFINE N == Len(steps)
           p == opts.params
<1>1. UNCHANGED <<build, data, files, cache, running, opts, last>> /\ action \in Code
  BY DEF Told
<1>2. /\ running /\ N \in Nat /\ DOMAIN steps = 1..N
      /\ Trace' = Trace
      /\ N + 1 \in DOMAIN Trace /\ \A n \in DOMAIN steps : n \in DOMAIN Trace
      /\ action = Trace[N + 1]
      /\ DOMAIN steps' = 1..(N + 1)
      /\ \A n \in DOMAIN steps : steps'[n] = steps[n]
      /\ \A n \in DOMAIN steps : Outputs(steps')[n] = Outputs(steps)[n]
  BY <1>1, StepFacts
<1>3. Patched \subseteq ModelTier /\ action \notin ModelTier
  BY <1>1, BuildAssumption DEF ModelTier
<1> SUFFICES ASSUME AllDone', NEW n \in DOMAIN steps'
             PROVE  /\ Replayed(Trace', cache', opts'.params, Outputs(steps'), n)
                    /\ OnDisk(opts.params, n)'
  BY DEF RunIsKept
<1>4. AllDone
  BY <1>2 DEF AllDone
<1>5. \A m \in DOMAIN steps : Replayed(Trace, cache, p, Outputs(steps), m) /\ OnDisk(p, m)
  BY <1>2, <1>4 DEF RunIsKept
<1>6. CASE n \in DOMAIN steps
  <2>1. n \in Nat /\ n # 0 /\ \A m \in 1..n : m \in DOMAIN steps
    BY <1>2, <1>6
  <2>2. \A m \in 1..n : Outputs(steps)[m] = Outputs(steps')[m]
    BY <1>2, <2>1
  <2>3. Replayed(Trace, cache, p, Outputs(steps), n) /\ OnDisk(p, n)
    BY <1>5, <1>6
  <2> HIDE DEF p, N
  <2>4. Replayed(Trace, cache, p, Outputs(steps'), n)
    BY <2>1, <2>2, <2>3, ReplayedSame
  <2> QED
    BY <1>1, <1>2, <2>3, <2>4 DEF OnDisk, p
<1>7. CASE n \notin DOMAIN steps
  <2>1. n = N + 1
    BY <1>2, <1>7
  <2>2. Trace[n] \notin ModelTier
    BY <1>2, <1>3, <2>1
  <2> QED
    BY <1>2, <1>3, <2>2 DEF Replayed, OnDisk
<1> QED
  BY <1>6, <1>7

\* A run in progress whose steps are all done can be replayed from the cache so far.
LEMMA RunIsKeptStep ==
    ASSUME BaseInv, RunIsKept, Replayable, [Next]_vars
    PROVE  RunIsKept'
<1>0. TypeInv /\ ~LazyAgent
  BY DEF BaseInv, Replayable
<1>1. CASE (\E ok \in BOOLEAN : CodeStep(ok)) \/ SkipStep
  BY <1>0, <1>1, CodeStepIsTold, ToldKeepsRun
<1>2. CASE \E mode \in Modes, ok \in BOOLEAN, output \in Texts : Taken(mode, ok, output)
  BY <1>2, TakenKeepsRun
<1>3. CASE \/ \E p \in Params, backend, useCache \in BOOLEAN : Start(p, backend, useCache)
           \/ Finish \/ \E wrote, torn \in BOOLEAN : Die(wrote, torn)
           \/ \E k \in Patched \X Params : DeleteFile(k)
           \/ \E a \in ModelTier : ClearCache(a)
  <2>1. steps' = <<>> \/ ~running'
    BY <1>3 DEF Start, Finish, Die, DeleteFile, ClearCache
  <2>2. steps' = <<>> => DOMAIN steps' = {}
    OBVIOUS
  <2> QED
    BY <2>1, <2>2 DEF RunIsKept
<1>4. CASE (\E d \in Data : ChangeData(d)) \/ UNCHANGED vars
  <2>1. UNCHANGED <<build, files, cache, running, opts, steps>>
    BY <1>4 DEF ChangeData, vars
  <2>2. Trace' = Trace /\ (AllDone' <=> AllDone)
    BY <2>1 DEF Trace, AllDone
  <2> QED
    BY <2>1, <2>2 DEF RunIsKept, OnDisk
<1> QED
  BY <1>0, <1>1, <1>2, <1>3, <1>4, RunStepCases DEF Next

\* What a run of other parameters, or none, does not touch: whether the latest done run
\* can be replayed.
LEMMA OthersRecall ==
    ASSUME NEW p \in Params, NEW D, TypeInv, Recalls(p, D),
           ~(running /\ opts.params = p), ~(running' /\ opts'.params = p),
           UNCHANGED <<build, last>>,
           \A n \in DOMAIN Trace : Trace[n] \in ModelTier =>
               cache'[<<Trace[n], p>>] = cache[<<Trace[n], p>>]
    PROVE  Recalls(p, D)'
<1>1. Trace' = Trace /\ CodePlaces' = CodePlaces
  BY DEF Trace, CodePlaces
<1>2. Trace \in Seq(Actions) /\ DOMAIN Trace = 1..Len(Trace) /\ Len(Trace) \in Nat
  BY TraceType
<1>3. ~Departs(p, D)
  BY DEF Departs
<1>4. ASSUME NEW n \in DOMAIN Trace
      PROVE  Replayed(Trace, cache', p, D, n)
  <2>1. Replayed(Trace, cache, p, D, n)
    BY <1>3 DEF Recalls
  <2>2. n \in Nat /\ n # 0 /\ \A m \in 1..n : m \in DOMAIN Trace
    BY <1>2
  <2> QED
    BY <2>1, <2>2, ReplayedSame
<1>5. Follows(p, D)'
  BY DEF Follows
<1> QED
  BY <1>1, <1>4, <1>5 DEF Recalls

\* While its code outputs are those of the latest done run, a run hits the cache.
LEMMA TakenRecalls ==
    ASSUME BaseInv, Replayable, NEW p, p = opts.params, NEW D, Recalls(p, D),
           NEW mode \in Modes, NEW ok \in BOOLEAN, NEW output \in Texts,
           Taken(mode, ok, output)
    PROVE  Recalls(p, D)'
<1> DEFINE h == Here(action)
           N == Len(steps)
<1>1. /\ At(ModelTier) /\ UNCHANGED <<build, data, running, opts, last>>
      /\ mode = "cache" <=> CacheStatus(action) = "hit"
      /\ mode = "cache" =>
            ok /\ cache' = cache /\ (action \in Patched => files'[h] = cache[h].file)
      /\ ok /\ mode # "needs_agent" =>
          /\ action \notin FileModel => output = Said(cache'[h])
  BY DEF Taken, Replayable
<1>2. action \in ModelTier
  BY <1>1 DEF At
<1>3. /\ running /\ N \in Nat /\ DOMAIN steps = 1..N
      /\ Trace' = Trace
      /\ N + 1 \in DOMAIN Trace /\ \A n \in DOMAIN steps : n \in DOMAIN Trace
      /\ action = Trace[N + 1] /\ h = <<action, p>>
      /\ DOMAIN steps' = 1..(N + 1)
      /\ \A n \in DOMAIN steps : steps'[n] = steps[n]
      /\ steps'[N + 1].mode = mode /\ steps'[N + 1].output = output
      /\ \A n \in DOMAIN steps : Outputs(steps)[n] = steps[n].output
  BY <1>1, StepFacts
<1>4. \A n \in DOMAIN steps :
         Trace[n] \in Patched => files'[<<Trace[n], p>>] = files[<<Trace[n], p>>]
  BY TakenLeavesOthers
<1>5. CodePlaces' = CodePlaces /\ opts' = opts /\ running' = running /\ last' = last
  BY <1>1, <1>3 DEF CodePlaces
<1>6. /\ last[p] = Kept(D, CodePlaces)
      /\ \A n \in DOMAIN Trace : Trace[n] \in SelfReferential => D[n] = Silent
  BY DEF Recalls
<1> HIDE DEF h, N
<1>7. CASE Departs(p, D)
  <2>1. \A n \in DOMAIN steps : n \in DOMAIN steps'
    BY <1>3
  <2>2. Departs(p, D)'
    BY <1>3, <1>5, <1>7, <2>1 DEF Departs
  <2> QED
    BY <1>3, <1>5, <1>6, <2>2 DEF Recalls
<1>8. CASE ~Departs(p, D)
  <2>1. /\ \A n \in DOMAIN Trace : Replayed(Trace, cache, p, D, n)
        /\ \A n \in DOMAIN steps :
            /\ Trace[n] \in ModelTier => steps[n].mode = "cache"
            /\ Trace[n] \notin FileModel => steps[n].output = D[n]
            /\ OnDisk(p, n)
        /\ opts.useCache
    BY <1>3, <1>8 DEF Recalls, Follows, Departs
  <2>2. ASSUME NEW n \in DOMAIN steps
        PROVE  Outputs(steps)[n] = D[n]
    <3>1. n \in DOMAIN Trace /\ ~(N + 1 <= n)
      BY <1>3
    <3>2. Trace[n] \notin FileModel
      BY <1>2, <1>3, <3>1, TraceIsReplayable DEF BaseInv
    <3> QED
      BY <1>3, <2>1, <3>2
  <2>3. Context = Before(Trace, cache, p, Outputs(steps), N + 1)
    BY <1>3, <2>1, ContextIsBefore DEF BaseInv, N
  <2>4. Before(Trace, cache, p, Outputs(steps), N + 1) = Before(Trace, cache, p, D, N + 1)
    <3>1. N + 1 \in Nat /\ \A m \in 1..((N + 1) - 1) : m \in DOMAIN steps
      BY <1>3
    <3>2. \A m \in 1..((N + 1) - 1) :
             /\ Outputs(steps)[m] = D[m]
             /\ Trace[m] \in Patched => cache[<<Trace[m], p>>] = cache[<<Trace[m], p>>]
      BY <2>2, <3>1
    <3> QED
      BY <3>1, <3>2, BeforeSame
  <2>5. /\ cache[h] # Absent /\ cache[h].sha = Context
        /\ action \notin FileModel => D[N + 1] = Said(cache[h])
    <3>1. Replayed(Trace, cache, p, D, N + 1)
      BY <1>3, <2>1
    <3> QED
      BY <1>2, <1>3, <2>3, <2>4, <3>1 DEF Replayed
  <2>6. mode = "cache"
    BY <1>1, <2>1, <2>5 DEF CacheStatus, h
  <2>7. cache' = cache /\ (action \in Patched => files'[h] = cache[h].file)
    BY <1>1, <2>6
  <2>8. action \notin FileModel => output = D[N + 1]
    <3>1. action \notin FileModel => output = Said(cache'[h])
      <4>1. mode # "needs_agent" /\ ok
        BY <1>1, <2>6
      <4> QED
        BY <1>1, <4>1, Zenon
    <3> QED
      BY <2>5, <2>7, <3>1
  <2>9. Follows(p, D)'
    <3> SUFFICES ASSUME NEW n \in 1..(N + 1)
                 PROVE  /\ Trace[n] \in ModelTier => steps'[n].mode = "cache"
                        /\ Trace[n] \notin FileModel => steps'[n].output = D[n]
                        /\ Trace[n] \in Patched =>
                              files'[<<Trace[n], p>>] = cache'[<<Trace[n], p>>].file
      BY <1>3, <1>5 DEF Follows, OnDisk
    <3>1. CASE n \in DOMAIN steps
      BY <1>3, <1>4, <2>1, <2>7, <3>1 DEF OnDisk
    <3>2. CASE n \notin DOMAIN steps
      <4>1. n = N + 1
        BY <1>3, <3>2
      <4> QED
        BY <1>3, <2>6, <2>7, <2>8, <4>1
    <3> QED
      BY <3>1, <3>2
  <2> QED
    BY <1>3, <1>5, <1>6, <2>1, <2>7, <2>9 DEF Recalls
<1> QED
  BY <1>7, <1>8

\* A code step shows the output of the latest done run, or departs from it.
LEMMA ToldRecalls ==
    ASSUME BaseInv, NEW p, p = opts.params, NEW D, Recalls(p, D),
           NEW mode \in Modes, NEW ok \in BOOLEAN, NEW output \in Texts,
           Told(mode, ok, output)
    PROVE  Recalls(p, D)'
<1> DEFINE N == Len(steps)
<1>1. /\ UNCHANGED <<build, data, files, cache, running, opts, last>>
      /\ action \in Code
      /\ output = Silent <=> action \in SelfReferential
  BY DEF Told
<1>2. /\ running /\ N \in Nat /\ DOMAIN steps = 1..N
      /\ Trace' = Trace
      /\ N + 1 \in DOMAIN Trace /\ \A n \in DOMAIN steps : n \in DOMAIN Trace
      /\ action = Trace[N + 1]
      /\ DOMAIN steps' = 1..(N + 1)
      /\ \A n \in DOMAIN steps : steps'[n] = steps[n]
      /\ steps'[N + 1].output = output
  BY <1>1, StepFacts
<1>3. action \notin ModelTier /\ action \notin Patched
  BY <1>1, BuildAssumption DEF ModelTier
<1>4. CodePlaces' = CodePlaces
  BY <1>2 DEF CodePlaces
<1>5. /\ last[p] = Kept(D, CodePlaces)
      /\ \A n \in DOMAIN Trace : Trace[n] \in SelfReferential => D[n] = Silent
  BY DEF Recalls
<1> HIDE DEF N
<1>6. \A n \in DOMAIN steps : n \in DOMAIN steps'
  BY <1>2
<1>7. CASE Departs(p, D)
  <2>1. Departs(p, D)'
    BY <1>1, <1>2, <1>4, <1>6, <1>7 DEF Departs
  <2> QED
    BY <1>1, <1>2, <1>4, <1>5, <2>1 DEF Recalls
<1>8. CASE ~Departs(p, D) /\ output # D[N + 1]
  <2>1. action \in Code \ SelfReferential
    BY <1>1, <1>2, <1>5, <1>8
  <2>2. N + 1 \in CodePlaces /\ N + 1 \in DOMAIN steps'
    BY <1>2, <2>1 DEF CodePlaces
  <2>3. Departs(p, D)'
    BY <1>1, <1>2, <1>4, <1>8, <2>2 DEF Departs
  <2> QED
    BY <1>1, <1>2, <1>4, <1>5, <2>3 DEF Recalls
<1>9. CASE ~Departs(p, D) /\ output = D[N + 1]
  <2>1. /\ \A n \in DOMAIN Trace : Replayed(Trace, cache, p, D, n)
        /\ \A n \in DOMAIN steps :
            /\ Trace[n] \in ModelTier => steps[n].mode = "cache"
            /\ Trace[n] \notin FileModel => steps[n].output = D[n]
            /\ OnDisk(p, n)
    BY <1>2, <1>9 DEF Recalls, Follows
  <2>2. Follows(p, D)'
    <3> SUFFICES ASSUME NEW n \in 1..(N + 1)
                 PROVE  /\ Trace[n] \in ModelTier => steps'[n].mode = "cache"
                        /\ Trace[n] \notin FileModel => steps'[n].output = D[n]
                        /\ Trace[n] \in Patched =>
                              files[<<Trace[n], p>>] = cache[<<Trace[n], p>>].file
      BY <1>1, <1>2 DEF Follows, OnDisk
    <3>1. CASE n \in DOMAIN steps
      BY <1>2, <2>1, <3>1 DEF OnDisk
    <3>2. CASE n \notin DOMAIN steps
      <4>1. n = N + 1
        BY <1>2, <3>2
      <4> QED
        BY <1>2, <1>3, <1>9, <4>1
    <3> QED
      BY <3>1, <3>2
  <2> QED
    BY <1>1, <1>2, <1>4, <1>5, <2>1, <2>2 DEF Recalls
<1> QED
  BY <1>7, <1>8, <1>9

\* A run whose steps are all done leaves what its next run with the same code outputs
\* replays.
LEMMA FinishRemembers ==
    ASSUME BaseInv, RunIsKept, Finish, AllDone,
           NEW p, p = opts.params, NEW D, D = Outputs(steps)
    PROVE  D \in [DOMAIN Trace -> Texts] /\ Recalls(p, D)'
<1>1. TypeInv /\ ReportFollowsTrace
  BY DEF BaseInv
<1>2. /\ running /\ Len(steps) = Len(Trace) /\ running' = FALSE
      /\ last' = [last EXCEPT ![p] = Basis]
      /\ UNCHANGED <<build, data, files, cache>>
  BY DEF Finish
<1>3. /\ p \in Params /\ steps \in Seq(Step) /\ DOMAIN steps = DOMAIN Trace
      /\ last \in [Params -> Seq(Texts) \cup {Absent}]
  BY <1>1, <1>2, TraceType DEF TypeInv
<1>4. Trace' = Trace /\ CodePlaces' = CodePlaces
  BY <1>2 DEF Trace, CodePlaces
<1>5. ASSUME NEW n \in DOMAIN Trace
      PROVE  /\ D[n] = steps[n].output /\ D[n] \in Texts
             /\ steps[n].mode = "code" <=> Trace[n] \in Code \ SelfReferential
             /\ Trace[n] \in SelfReferential => D[n] = Silent
             /\ Replayed(Trace, cache, p, D, n)
  <2>1. n \in DOMAIN steps /\ steps[n] \in Step
    BY <1>3
  <2>2. D[n] = steps[n].output /\ steps[n].output \in Texts
    BY <2>1 DEF Outputs, Step
  <2>3. /\ steps[n].mode = "code" <=> Trace[n] \in Code \ SelfReferential
        /\ Trace[n] \in Code => (steps[n].output = Silent <=> Trace[n] \in SelfReferential)
    BY <1>1, <2>1 DEF ReportFollowsTrace
  <2>4. Replayed(Trace, cache, p, D, n)
    BY <1>2, <2>1 DEF RunIsKept
  <2>5. SelfReferential \subseteq Code
    BY BuildAssumption
  <2> QED
    BY <2>2, <2>3, <2>4, <2>5
<1>6. D \in [DOMAIN Trace -> Texts]
  <2>1. D = [n \in DOMAIN Trace |-> steps[n].output]
    BY <1>3 DEF Outputs
  <2> QED
    BY <1>5, <2>1
<1>7. Basis = Kept(D, CodePlaces)
  <2>1. {n \in DOMAIN steps : steps[n].mode = "code"} = CodePlaces
    BY <1>3, <1>5 DEF CodePlaces
  <2> QED
    BY <2>1 DEF Basis
<1>8. last'[p] = Kept(D, CodePlaces)
  BY <1>2, <1>3, <1>7
<1>9. Recalls(p, D)'
  <2>1. Follows(p, D)'
    BY <1>2 DEF Follows
  <2>2. /\ last'[p] = Kept(D, CodePlaces')
        /\ \A n \in DOMAIN Trace' : Trace'[n] \in SelfReferential => D[n] = Silent
        /\ \A n \in DOMAIN Trace' : Replayed(Trace', cache', p, D, n)
    BY <1>2, <1>4, <1>5, <1>8
  <2> QED
    BY <2>1, <2>2 DEF Recalls
<1> QED
  BY <1>6, <1>9

\* The latest done run of every parameter set stays replayable.
LEMMA RememberedStep ==
    ASSUME BaseInv, RunIsKept, Remembered, Replayable, [Next]_vars
    PROVE  Remembered'
<1>1. TypeInv /\ ~LazyAgent
  BY DEF BaseInv, Replayable
<1>2. build' = build /\ Trace' = Trace
  <2>1. build' = build
    <3>1. ASSUME NEW mode \in Modes, NEW ok \in BOOLEAN, NEW output \in Texts,
                 Taken(mode, ok, output)
          PROVE  build' = build
      BY <3>1 DEF Taken
    <3>2. ASSUME (\E ok \in BOOLEAN : CodeStep(ok)) \/ SkipStep \/ Finish
          PROVE  build' = build
      BY <3>2 DEF CodeStep, SkipStep, Finish
    <3>3. RunStep => build' = build
      BY <1>1, <3>1, <3>2, RunStepCases
    <3> QED
      BY <3>3 DEF Next, Start, Die, ChangeData, DeleteFile, ClearCache, vars
  <2> QED
    BY <2>1 DEF Trace
<1> SUFFICES ASSUME NEW p \in Params, last'[p] # Absent
             PROVE  \E D \in [DOMAIN Trace -> Texts] : Recalls(p, D)'
  BY <1>2 DEF Remembered
<1>3. ASSUME last'[p] = last[p]
      PROVE  \E D \in [DOMAIN Trace -> Texts] : Recalls(p, D)
  BY <1>3 DEF Remembered
<1>4. /\ DOMAIN Trace = 1..Len(Trace) /\ Len(Trace) \in Nat
      /\ last \in [Params -> Seq(Texts) \cup {Absent}]
  BY <1>1, TraceType DEF TypeInv
<1>5. CASE (\E ok \in BOOLEAN : CodeStep(ok)) \/ SkipStep
  <2>1. PICK mode \in Modes, ok \in BOOLEAN, output \in Texts : Told(mode, ok, output)
    BY <1>1, <1>5, CodeStepIsTold
  <2>2. UNCHANGED <<build, cache, running, opts, last>>
    BY <2>1 DEF Told
  <2>3. PICK D \in [DOMAIN Trace -> Texts] : Recalls(p, D)
    BY <1>3, <2>2
  <2>4. Recalls(p, D)'
    <3>1. CASE p = opts.params
      BY <2>1, <2>3, <3>1, ToldRecalls
    <3>2. CASE p # opts.params
      BY <1>1, <2>2, <2>3, <3>2, OthersRecall
    <3> QED
      BY <3>1, <3>2
  <2> QED
    BY <2>4
<1>6. CASE \E mode \in Modes, ok \in BOOLEAN, output \in Texts : Taken(mode, ok, output)
  <2>1. PICK mode \in Modes, ok \in BOOLEAN, output \in Texts : Taken(mode, ok, output)
    BY <1>6
  <2>2. UNCHANGED <<build, running, opts, last>>
    BY <2>1 DEF Taken
  <2>3. PICK D \in [DOMAIN Trace -> Texts] : Recalls(p, D)
    BY <1>3, <2>2
  <2>4. Recalls(p, D)'
    <3>1. CASE p = opts.params
      BY <2>1, <2>3, <3>1, TakenRecalls
    <3>2. CASE p # opts.params
      <4>1. \A n \in DOMAIN Trace : Trace[n] \in ModelTier =>
                cache'[<<Trace[n], p>>] = cache[<<Trace[n], p>>]
        BY <2>1, <3>2, TakenLeavesOthers
      <4> QED
        BY <1>1, <2>2, <2>3, <3>2, <4>1, OthersRecall
    <3> QED
      BY <3>1, <3>2
  <2> QED
    BY <2>4
<1>7. CASE Finish
  <2>1. /\ running /\ running' = FALSE /\ UNCHANGED <<build, data, files, cache>>
        /\ last' = [last EXCEPT ![opts.params] = IF AllDone THEN Basis ELSE Absent]
    BY <1>7 DEF Finish
  <2>2. CASE p = opts.params
    <3>1. AllDone
      BY <1>4, <2>1, <2>2
    <3> QED
      BY <1>7, <2>2, <3>1, FinishRemembers
  <2>3. CASE p # opts.params
    <3>1. last'[p] = last[p]
      BY <1>4, <2>1, <2>3
    <3>2. PICK D \in [DOMAIN Trace -> Texts] : Recalls(p, D)
      BY <1>3, <3>1
    <3>3. /\ \A n \in DOMAIN Trace : Replayed(Trace, cache, p, D, n)
          /\ last[p] = Kept(D, CodePlaces)
          /\ \A n \in DOMAIN Trace : Trace[n] \in SelfReferential => D[n] = Silent
      BY <2>3, <3>2 DEF Recalls, Departs
    <3>4. CodePlaces' = CodePlaces /\ Follows(p, D)'
      BY <1>2, <2>1 DEF CodePlaces, Follows
    <3>5. Recalls(p, D)'
      BY <1>2, <2>1, <3>1, <3>3, <3>4 DEF Recalls
    <3> QED
      BY <3>5
  <2> QED
    BY <2>2, <2>3
<1>8. CASE \E wrote, torn \in BOOLEAN : Die(wrote, torn)
  <2>1. PICK torn \in BOOLEAN :
            /\ At(ModelTier) /\ running' = FALSE
            /\ cache' = IF torn THEN [cache EXCEPT ![Here(action)] = Absent] ELSE cache
            /\ last' = [last EXCEPT ![opts.params] = Absent]
    BY <1>8 DEF Die
  <2>2. p # opts.params /\ last'[p] = last[p]
    BY <1>4, <2>1
  <2>3. Here(action) = <<action, opts.params>>
    BY <1>1, <2>1, ActionFacts
  <2>4. \A n \in DOMAIN Trace : cache'[<<Trace[n], p>>] = cache[<<Trace[n], p>>]
                                \/ <<Trace[n], p>> \notin ModelTier \X Params
    BY <1>1, <2>1, <2>2, <2>3 DEF TypeInv
  <2>5. PICK D \in [DOMAIN Trace -> Texts] : Recalls(p, D)
    BY <1>3, <2>2
  <2>6. /\ \A n \in DOMAIN Trace : Replayed(Trace, cache, p, D, n)
        /\ last[p] = Kept(D, CodePlaces)
        /\ \A n \in DOMAIN Trace : Trace[n] \in SelfReferential => D[n] = Silent
    BY <2>2, <2>5 DEF Recalls, Departs
  <2>7. ASSUME NEW n \in DOMAIN Trace
        PROVE  Replayed(Trace, cache', p, D, n)
    <3>1. n \in Nat /\ n # 0 /\ \A m \in 1..n : m \in DOMAIN Trace
      BY <1>4
    <3>2. \A m \in 1..n : Trace[m] \in ModelTier =>
              cache[<<Trace[m], p>>] = cache'[<<Trace[m], p>>]
      BY <2>4, <3>1
    <3> QED
      BY <2>6, <3>1, <3>2, ReplayedSame
  <2>8. CodePlaces' = CodePlaces /\ Follows(p, D)'
    BY <1>2, <2>1 DEF CodePlaces, Follows
  <2>9. Recalls(p, D)'
    BY <1>2, <2>2, <2>6, <2>7, <2>8 DEF Recalls
  <2> QED
    BY <2>9
<1>9. CASE \E q \in Params, backend, useCache \in BOOLEAN : Start(q, backend, useCache)
  <2>1. /\ ~running /\ steps' = <<>> /\ UNCHANGED <<build, data, files, cache, last>>
    BY <1>9 DEF Start
  <2>2. PICK D \in [DOMAIN Trace -> Texts] : Recalls(p, D)
    BY <1>3, <2>1
  <2>3. /\ \A n \in DOMAIN Trace : Replayed(Trace, cache, p, D, n)
        /\ last[p] = Kept(D, CodePlaces)
        /\ \A n \in DOMAIN Trace : Trace[n] \in SelfReferential => D[n] = Silent
    BY <2>1, <2>2 DEF Recalls, Departs
  <2>4. CodePlaces' = CodePlaces /\ Follows(p, D)'
    <3>1. DOMAIN steps' = {}
      BY <2>1
    <3> QED
      BY <1>2, <3>1 DEF CodePlaces, Follows
  <2>5. Recalls(p, D)'
    BY <1>2, <2>1, <2>3, <2>4 DEF Recalls
  <2> QED
    BY <2>5
<1>10. CASE \E k \in Patched \X Params : DeleteFile(k)
  <2>1. ~running /\ UNCHANGED <<build, data, cache, running, opts, steps, last>>
    BY <1>10 DEF DeleteFile
  <2>2. PICK D \in [DOMAIN Trace -> Texts] : Recalls(p, D)
    BY <1>3, <2>1
  <2>3. Recalls(p, D)'
    BY <1>1, <2>1, <2>2, OthersRecall
  <2> QED
    BY <2>3
<1>11. CASE \E a \in ModelTier : ClearCache(a)
  BY <1>11 DEF ClearCache
<1>12. CASE (\E d \in Data : ChangeData(d)) \/ UNCHANGED vars
  <2>1. UNCHANGED <<build, files, cache, running, opts, steps, last>>
    BY <1>12 DEF ChangeData, vars
  <2>2. PICK D \in [DOMAIN Trace -> Texts] : Recalls(p, D)
    BY <1>3, <2>1
  <2>3. CodePlaces' = CodePlaces
    BY <1>2 DEF CodePlaces
  <2>4. Departs(p, D)' <=> Departs(p, D)
    BY <2>1, <2>3 DEF Departs
  <2>5. Follows(p, D)' <=> Follows(p, D)
    BY <1>2, <2>1 DEF Follows, OnDisk
  <2>6. Recalls(p, D)'
    BY <1>2, <2>1, <2>2, <2>3, <2>4, <2>5 DEF Recalls
  <2> QED
    BY <2>6
<1> QED
  BY <1>1, <1>5, <1>6, <1>7, <1>8, <1>9, <1>10, <1>11, <1>12, RunStepCases DEF Next

\* The inductive invariant of the third.
EscalationInv == BaseInv /\ RunIsKept /\ Remembered

\* No run is on and none was done.
LEMMA InitEscalation == Init => RunIsKept /\ Remembered
BY DEF Init, RunIsKept, Remembered

\* A run with the code outputs of the latest done run did not depart from it.
LEMMA EscalationFollows ==
    ASSUME EscalationInv
    PROVE  EscalateOnce
<1>1. TypeInv /\ ReportFollowsTrace /\ Remembered
  BY DEF EscalationInv, BaseInv
<1> SUFFICES ASSUME running, Len(steps) = Len(Trace), opts.useCache,
                    last[opts.params] = Basis
             PROVE  \A n \in DOMAIN steps : steps[n].action \in ModelTier =>
                        steps[n].mode = "cache"
  BY DEF EscalateOnce
<1>2. PICK p : p = opts.params
  OBVIOUS
<1>3. /\ p \in Params /\ steps \in Seq(Step) /\ Trace \in Seq(Actions)
      /\ DOMAIN steps = 1..Len(Trace) /\ DOMAIN Trace = 1..Len(Trace) /\ Len(Trace) \in Nat
  BY <1>1, <1>2, TraceType DEF TypeInv
<1>4. last[p] = Basis /\ Basis # Absent
  BY <1>1, <1>2, ContextFacts, TextAssumption
<1>5. PICK D \in [DOMAIN Trace -> Texts] : Recalls(p, D)
  BY <1>1, <1>3, <1>4 DEF Remembered
<1>6. Kept(Outputs(steps), CodePlaces) = Kept(D, CodePlaces)
  <2>1. {n \in DOMAIN steps : steps[n].mode = "code"} = CodePlaces
    BY <1>1, <1>3 DEF CodePlaces, ReportFollowsTrace
  <2> QED
    BY <1>4, <1>5, <2>1 DEF Basis, Recalls
<1>7. \A n \in 1..Len(Trace) : n \in CodePlaces => Outputs(steps)[n] = D[n]
  <2>1. PICK s : s = Outputs(steps)
    OBVIOUS
  <2>2. PICK I : I = CodePlaces
    OBVIOUS
  <2>3. PICK N \in Nat : N = Len(Trace)
    BY <1>3
  <2>4. Len(s) = N
    BY <1>3, <2>1, <2>3 DEF Outputs
  <2>5. Len(D) = N
    BY <1>3, <2>3
  <2>6. Kept(s, I) = Kept(D, I)
    BY <1>6, <2>1, <2>2
  <2>7. \A n \in 1..N : n \in I => s[n] = D[n]
    BY ONLY N \in Nat, <2>4, <2>5, <2>6, KeptInjective
  <2> QED
    BY <2>1, <2>2, <2>3, <2>7
<1>8. ~Departs(p, D)
  <2>1. \A n \in DOMAIN steps : n \in CodePlaces => steps[n].output = D[n]
    BY <1>3, <1>7 DEF Outputs
  <2> QED
    BY <2>1 DEF Departs
<1>9. Follows(p, D)
  BY <1>5, <1>8 DEF Recalls
<1>10. \A n \in DOMAIN steps : steps[n].action = Trace[n]
  BY <1>1 DEF ReportFollowsTrace
<1> QED
  BY <1>2, <1>9, <1>10 DEF Follows

\* Once all of a run was done, a later run with the same parameters and the same code
\* outputs replays every model-tier step from the cache, whatever happens in between
\* (the promise of cache.py:4-6).
THEOREM EscalatedOnlyOnce ==
    ASSUME Replayable
    PROVE  Spec => []EscalateOnce
<1>1. EscalationInv => EscalateOnce
  BY EscalationFollows
<1>2. Init => EscalationInv
  BY InitBase, InitEscalation DEF EscalationInv
<1>3. EscalationInv /\ [Next]_vars => EscalationInv'
  <2>1. ~LazyAgent
    BY DEF Replayable
  <2> QED
    BY <2>1, BaseIsInductive, RunIsKeptStep, RememberedStep DEF EscalationInv
<1> QED
  BY <1>1, <1>2, <1>3, PTL DEF Spec
=============================================================================
