------------------------- MODULE WorkCompilerProofs -------------------------
(***************************************************************************)
(* What the work compiler derives from recorded runs, for any runs and     *)
(* contracts: the two topological sorts accept exactly the graphs that     *)
(* have an order, recordings alone always have one, more evidence keeps    *)
(* every dependency, the detector that decides is the earliest best, and   *)
(* turns that use one kind of tool can be replayed from the steps recorded *)
(* for them, so that a straight session rebuilds the agent's workspace and *)
(* the benchmark counts it as a match.                                     *)
(***************************************************************************)
EXTENDS WorkCompiler, FiniteSetTheorems, SequenceTheorems, WellFoundedInduction, TLAPS

(***************************************************************************)
(* Recursive functions over numbers.                                       *)
(***************************************************************************)

\* A set of numbers has a least one.
LEMMA LeastNumber ==
    ASSUME NEW T \in SUBSET Nat, T # {}
    PROVE  \E x \in T : \A y \in T : x <= y
<1> DEFINE Less == {ss \in Nat \X Nat : ss[1] < ss[2]}
<1>1. IsWellFoundedOn(Less, Nat)
  BY NatLessThanWellFounded, Zenon DEF OpToRel
<1>2. PICK x \in T : \A y \in T : ~(<<y, x>> \in Less)
  <2> HIDE DEF Less
  <2> QED
    BY <1>1, WFMin
<1>3. \A y \in T : ~(y < x)
  BY <1>2
<1> QED
  BY <1>3

\* Induction up to N, over the members of a set.
LEMMA InductionTo ==
    ASSUME NEW N \in Nat, NEW T, 0 \in T,
           \A n \in 1..N : n - 1 \in T => n \in T
    PROVE  \A n \in 0..N : n \in T
<1> SUFFICES ASSUME (0..N) \ T # {}
             PROVE  FALSE
  OBVIOUS
<1>1. PICK m \in (0..N) \ T : \A y \in (0..N) \ T : m <= y
  <2>1. (0..N) \ T \in SUBSET Nat
    OBVIOUS
  <2> QED
    BY <2>1, LeastNumber
<1>2. m \in 1..N /\ m - 1 \in 0..N /\ ~(m <= m - 1)
  BY <1>1
<1> QED
  BY <1>1, <1>2

\* f is what init becomes, step by step.
Unrolls(f, init, step, N) ==
    f = [n \in 0..N |-> IF n = 0 THEN init ELSE step[<<n, f[n - 1]>>]]

\* A function can be defined by what it is at 0 and how it goes on.
LEMMA UnrollingExists ==
    ASSUME NEW S, NEW init \in S, NEW N \in Nat,
           NEW step \in [(1..N) \X S -> S]
    PROVE  \E f \in [0..N -> S] : Unrolls(f, init, step, N)
<1> DEFINE T == {m \in 0..N : \E f \in [0..m -> S] : Unrolls(f, init, step, m)}
<1>1. 0 \in T
  <2> DEFINE f == [n \in 0..0 |-> init]
  <2>1. f \in [0..0 -> S] /\ Unrolls(f, init, step, 0)
    BY DEF Unrolls
  <2> QED
    BY <2>1
<1>2. ASSUME NEW m \in 1..N, m - 1 \in T
      PROVE  m \in T
  <2>1. PICK g \in [0..(m - 1) -> S] : Unrolls(g, init, step, m - 1)
    BY <1>2
  <2> DEFINE f == [n \in 0..m |->
                      IF n = 0 THEN init ELSE step[<<n, g[n - 1]>>]]
  <2>2. \A n \in 0..m : n # 0 => n \in 1..N /\ n - 1 \in 0..(m - 1)
    OBVIOUS
  <2>3. \A n \in 0..m : f[n] \in S
    BY <2>2
  <2>4. \A n \in 0..(m - 1) : f[n] = g[n]
    <3>1. \A n \in 0..(m - 1) : n \in 0..m
      OBVIOUS
    <3> QED
      BY <2>1, <3>1 DEF Unrolls
  <2>5. \A n \in 0..m : n # 0 => f[n - 1] = g[n - 1]
    BY <2>2, <2>4
  <2>6. f = [n \in 0..m |-> IF n = 0 THEN init ELSE step[<<n, f[n - 1]>>]]
    <3>1. \A n \in 0..m : f[n] = IF n = 0 THEN init ELSE step[<<n, f[n - 1]>>]
      BY <2>5
    <3>2. PICK h : h = f
      OBVIOUS
    <3>3. /\ h = [n \in 0..m |-> h[n]]
          /\ \A n \in 0..m : h[n] = IF n = 0 THEN init ELSE step[<<n, h[n - 1]>>]
      BY <3>1, <3>2
    <3>4. h = [n \in 0..m |-> IF n = 0 THEN init ELSE step[<<n, h[n - 1]>>]]
      BY <3>3
    <3> QED
      BY <3>2, <3>4
  <2>7. f \in [0..m -> S] /\ Unrolls(f, init, step, m)
    <3>1. f \in [0..m -> S]
      BY <2>3
    <3> QED
      BY <2>6, <3>1 DEF Unrolls
  <2>8. \E h \in [0..m -> S] : Unrolls(h, init, step, m)
    <3> HIDE DEF f
    <3> QED
      BY <2>7
  <2> QED
    BY <2>8
<1>3. \A n \in 0..N : n \in T
  <2> HIDE DEF T
  <2> QED
    BY <1>1, <1>2, InductionTo
<1> QED
  BY <1>3

-----------------------------------------------------------------------------
(***************************************************************************)
(* Sequences.                                                              *)
(***************************************************************************)

\* No member twice.
Distinct(s) == \A i, j \in DOMAIN s : s[i] = s[j] => i = j

\* t goes on where s ends.
Extends(s, t) == Len(s) <= Len(t) /\ \A i \in 1..Len(s) : t[i] = s[i]

\* A new last element.
LEMMA AppendToSet ==
    ASSUME NEW A, NEW s \in Seq(A), NEW a \in A
    PROVE  /\ Append(s, a) \in Seq(A)
           /\ ToSet(Append(s, a)) = ToSet(s) \cup {a}
           /\ Distinct(s) /\ a \notin ToSet(s) => Distinct(Append(s, a))
<1>1. PICK n \in Nat : n = Len(s)
  OBVIOUS
<1>2. PICK t : t = Append(s, a)
  OBVIOUS
<1>3. /\ t \in Seq(A) /\ DOMAIN t = 1..(n + 1) /\ DOMAIN s = 1..n
      /\ t[n + 1] = a /\ \A i \in 1..n : t[i] = s[i]
  BY <1>1, <1>2
<1>4. \A i \in 1..(n + 1) : i \in 1..n \/ i = n + 1
  BY <1>1
<1>5. n + 1 \in 1..(n + 1) /\ \A i \in 1..n : i \in 1..(n + 1)
  BY <1>1
<1>6. ToSet(t) = ToSet(s) \cup {a}
  BY ONLY <1>3, <1>4, <1>5 DEF ToSet
<1>7. Distinct(s) /\ a \notin ToSet(s) => Distinct(t)
  BY ONLY <1>3, <1>4, <1>5 DEF ToSet, Distinct
<1> QED
  BY <1>2, <1>3, <1>6, <1>7

\* Two sequences one after the other.
LEMMA ConcatToSet ==
    ASSUME NEW A, NEW s \in Seq(A), NEW t \in Seq(A)
    PROVE  /\ s \o t \in Seq(A)
           /\ ToSet(s \o t) = ToSet(s) \cup ToSet(t)
           /\ Distinct(s) /\ Distinct(t) /\ ToSet(s) \cap ToSet(t) = {}
                 => Distinct(s \o t)
<1>1. PICK n \in Nat : n = Len(s)
  OBVIOUS
<1>2. PICK m \in Nat : m = Len(t)
  OBVIOUS
<1>3. PICK u : u = s \o t
  OBVIOUS
<1>4. /\ u \in Seq(A) /\ DOMAIN u = 1..(n + m) /\ DOMAIN s = 1..n /\ DOMAIN t = 1..m
      /\ \A i \in 1..(n + m) : u[i] = IF i <= n THEN s[i] ELSE t[i - n]
  BY <1>1, <1>2, <1>3
<1>5. \A i \in 1..(n + m) : (i <= n /\ i \in 1..n) \/ (~(i <= n) /\ i - n \in 1..m)
  BY <1>1, <1>2
<1>6. /\ \A i \in 1..n : i \in 1..(n + m) /\ i <= n
      /\ \A i \in 1..m : n + i \in 1..(n + m) /\ ~(n + i <= n) /\ (n + i) - n = i
  BY <1>1, <1>2
<1>7. ToSet(u) = ToSet(s) \cup ToSet(t)
  <2>1. \A i \in 1..n : u[i] = s[i]
    BY <1>4, <1>6
  <2>2. \A i \in 1..m : u[n + i] = t[i]
    BY <1>4, <1>6
  <2>3. ToSet(s) \subseteq ToSet(u)
    BY <1>4, <1>6, <2>1 DEF ToSet
  <2>4. ToSet(t) \subseteq ToSet(u)
    BY <1>4, <1>6, <2>2 DEF ToSet
  <2>5. \A i \in 1..(n + m) : u[i] \in ToSet(s) \cup ToSet(t)
    BY <1>4, <1>5 DEF ToSet
  <2>6. \A x \in ToSet(u) : \E i \in 1..(n + m) : x = u[i]
    BY <1>4 DEF ToSet
  <2> QED
    BY ONLY <2>3, <2>4, <2>5, <2>6
<1>8. ASSUME Distinct(s), Distinct(t), ToSet(s) \cap ToSet(t) = {}
      PROVE  Distinct(u)
  <2> SUFFICES ASSUME NEW i \in 1..(n + m), NEW j \in 1..(n + m), u[i] = u[j]
               PROVE  i = j
    BY <1>4 DEF Distinct
  <2>1. CASE i <= n /\ j <= n
    BY <1>4, <1>5, <1>8, <2>1 DEF Distinct
  <2>2. CASE ~(i <= n) /\ ~(j <= n)
    <3>1. i - n \in 1..m /\ j - n \in 1..m /\ t[i - n] = t[j - n]
      BY <1>4, <1>5, <2>2
    <3>2. i - n = j - n
      BY <1>4, <1>8, <3>1 DEF Distinct
    <3> QED
      BY <1>1, <3>2
  <2>3. CASE i <= n /\ ~(j <= n)
    BY <1>4, <1>5, <1>8, <2>3 DEF ToSet
  <2>4. CASE ~(i <= n) /\ j <= n
    BY <1>4, <1>5, <1>8, <2>4 DEF ToSet
  <2> QED
    BY <2>1, <2>2, <2>3, <2>4
<1> QED
  BY <1>3, <1>4, <1>7, <1>8

\* All but the first, and all but the last, of a sequence without repetition.
LEMMA WithoutHead ==
    ASSUME NEW A, NEW s \in Seq(A), s # <<>>, Distinct(s)
    PROVE  /\ Head(s) \in ToSet(s) /\ Tail(s) \in Seq(A) /\ Distinct(Tail(s))
           /\ ToSet(Tail(s)) = ToSet(s) \ {Head(s)}
<1>1. PICK n \in Nat : n = Len(s) /\ n >= 1
  OBVIOUS
<1>2. PICK t : t = Tail(s)
  OBVIOUS
<1>3. /\ t \in Seq(A) /\ DOMAIN t = 1..(n - 1) /\ DOMAIN s = 1..n
      /\ \A i \in 1..(n - 1) : t[i] = s[i + 1]
      /\ Head(s) = s[1]
  BY <1>1, <1>2
<1>4. 1 \in 1..n /\ \A i \in 1..(n - 1) : i + 1 \in 1..n /\ i + 1 # 1
  BY <1>1
<1>5. \A i \in 1..n : i # 1 => i - 1 \in 1..(n - 1) /\ (i - 1) + 1 = i
  BY <1>1
<1>6. \A i, j \in 1..(n - 1) : i + 1 = j + 1 => i = j
  OBVIOUS
<1>7. Distinct(t)
  <2> SUFFICES ASSUME NEW i \in 1..(n - 1), NEW j \in 1..(n - 1), t[i] = t[j]
               PROVE  i = j
    BY <1>3 DEF Distinct
  <2>1. s[i + 1] = s[j + 1] /\ i + 1 \in 1..n /\ j + 1 \in 1..n
    BY <1>3, <1>4
  <2>2. i + 1 = j + 1
    BY <1>3, <2>1 DEF Distinct
  <2> QED
    BY <2>2
<1>8. ToSet(t) = ToSet(s) \ {s[1]}
  <2>1. \A x \in ToSet(t) : x \in ToSet(s) \ {s[1]}
    <3> SUFFICES ASSUME NEW i \in 1..(n - 1)
                 PROVE  s[i + 1] \in ToSet(s) \ {s[1]}
      BY <1>3 DEF ToSet
    <3>1. i + 1 \in 1..n /\ i + 1 # 1
      BY <1>4
    <3> QED
      BY <1>3, <1>4, <3>1 DEF ToSet, Distinct
  <2>2. \A i \in 1..n : s[i] # s[1] => s[i] \in ToSet(t)
    <3> SUFFICES ASSUME NEW i \in 1..n, s[i] # s[1]
                 PROVE  s[i] \in ToSet(t)
      OBVIOUS
    <3>1. i - 1 \in 1..(n - 1) /\ t[i - 1] = s[i]
      BY <1>3, <1>5
    <3> QED
      BY <1>3, <3>1 DEF ToSet
  <2>3. \A x \in ToSet(s) : \E i \in 1..n : x = s[i]
    BY <1>3 DEF ToSet
  <2> QED
    BY ONLY <2>1, <2>2, <2>3
<1> QED
  BY <1>2, <1>3, <1>4, <1>7, <1>8 DEF ToSet

\* A sequence but for its last element.
LEMMA WithoutLast ==
    ASSUME NEW A, NEW s \in Seq(A), s # <<>>, Distinct(s)
    PROVE  /\ Last(s) \in ToSet(s) /\ Front(s) \in Seq(A) /\ Distinct(Front(s))
           /\ ToSet(Front(s)) = ToSet(s) \ {Last(s)}
<1>1. PICK n \in Nat : n = Len(s) /\ n >= 1
  OBVIOUS
<1>2. PICK t : t = SubSeq(s, 1, n - 1)
  OBVIOUS
<1>3. /\ t \in Seq(A) /\ DOMAIN t = 1..(n - 1) /\ DOMAIN s = 1..n
      /\ \A i \in 1..(n - 1) : t[i] = s[i]
  BY <1>1, <1>2
<1>4. n \in 1..n /\ \A i \in 1..(n - 1) : i \in 1..n /\ i # n
  BY <1>1
<1>5. \A i \in 1..n : i # n => i \in 1..(n - 1)
  BY <1>1
<1>6. Distinct(t)
  BY ONLY Distinct(s), <1>3, <1>4 DEF Distinct
<1>7. ToSet(t) = ToSet(s) \ {s[n]}
  BY ONLY Distinct(s), <1>3, <1>4, <1>5 DEF Distinct, ToSet
<1>8. Front(s) = t /\ Last(s) = s[n]
  BY <1>1, <1>2 DEF Front, Last
<1>9. s[n] \in ToSet(s)
  BY <1>3, <1>4 DEF ToSet
<1> QED
  BY ONLY <1>3, <1>6, <1>7, <1>8, <1>9

-----------------------------------------------------------------------------
(***************************************************************************)
(* The topological sorts.                                                  *)
(***************************************************************************)

\* Actions without repetition and the prerequisites of each.
Graph(actions, deps) ==
    /\ actions \in Seq(ToSet(actions)) /\ Distinct(actions)
    /\ deps \in [ToSet(actions) -> SUBSET ToSet(actions)]

\* The members of S among the actions are those, once each.
LEMMA AmongActions ==
    ASSUME NEW actions, actions \in Seq(ToSet(actions)), Distinct(actions),
           NEW S \in SUBSET ToSet(actions)
    PROVE  /\ Among(actions, S) \in Seq(ToSet(actions))
           /\ Distinct(Among(actions, S))
           /\ ToSet(Among(actions, S)) = S
<1>1. PICK N \in Nat : N = Len(actions)
  OBVIOUS
<1>2. PICK A : A = ToSet(actions)
  OBVIOUS
<1>3. /\ DOMAIN actions = 1..N /\ \A n \in 1..N : actions[n] \in A
      /\ \A x \in A : \E n \in 1..N : x = actions[n]
      /\ \A i, j \in 1..N : actions[i] = actions[j] => i = j
      /\ S \subseteq A
  BY <1>1, <1>2 DEF ToSet, Distinct
<1> DEFINE Walk(f) == f = [n \in 0..N |->
                IF n = 0 THEN <<>>
                ELSE IF actions[n] \in S THEN Append(f[n - 1], actions[n])
                ELSE f[n - 1]]
           step == [p \in (1..N) \X Seq(A) |->
                       IF actions[p[1]] \in S THEN Append(p[2], actions[p[1]]) ELSE p[2]]
<1>4. \E f : Walk(f)
  <2>1. step \in [(1..N) \X Seq(A) -> Seq(A)]
    BY <1>3
  <2>2. <<>> \in Seq(A)
    OBVIOUS
  <2>3. PICK f \in [0..N -> Seq(A)] : Unrolls(f, <<>>, step, N)
    <3> HIDE DEF step
    <3> QED
      BY <2>1, <2>2, UnrollingExists
  <2>4. \A n \in 0..N : n # 0 =>
            step[<<n, f[n - 1]>>] = IF actions[n] \in S THEN Append(f[n - 1], actions[n])
                                    ELSE f[n - 1]
    <3> SUFFICES ASSUME NEW n \in 0..N, n # 0
                 PROVE  step[<<n, f[n - 1]>>] =
                            IF actions[n] \in S THEN Append(f[n - 1], actions[n])
                            ELSE f[n - 1]
      OBVIOUS
    <3>1. n \in 1..N /\ f[n - 1] \in Seq(A)
      OBVIOUS
    <3>2. <<n, f[n - 1]>> \in (1..N) \X Seq(A)
      BY <3>1
    <3> QED
      BY <3>2
  <2>5. f = [n \in 0..N |-> IF n = 0 THEN <<>> ELSE step[<<n, f[n - 1]>>]]
    BY <2>3 DEF Unrolls
  <2>6. Walk(f)
    <3> HIDE DEF step
    <3> QED
      BY <2>4, <2>5
  <2> QED
    BY <2>6
<1> DEFINE k == CHOOSE f : Walk(f)
<1>5. Walk(k)
  <2> HIDE DEF Walk
  <2> QED
    BY <1>4
<1>6. Among(actions, S) = k[N]
  BY <1>1 DEF Among
<1>7. PICK f : f = k
  OBVIOUS
<1>8. /\ f[0] = <<>>
      /\ \A n \in 1..N : f[n] = IF actions[n] \in S THEN Append(f[n - 1], actions[n])
                                ELSE f[n - 1]
  <2>1. Walk(f)
    BY <1>5, <1>7
  <2>2. 0 \in 0..N /\ \A n \in 1..N : n \in 0..N /\ n # 0
    OBVIOUS
  <2> QED
    BY <2>1, <2>2
<1> HIDE DEF k, Walk, step
<1> DEFINE Seen(n) == {actions[i] : i \in 1..n} \cap S
           T == {n \in 0..N : f[n] \in Seq(A) /\ Distinct(f[n]) /\ ToSet(f[n]) = Seen(n)}
<1>9. 0 \in T
  <2>1. f[0] = <<>> /\ <<>> \in Seq(A) /\ DOMAIN <<>> = {} /\ Seen(0) = {}
    BY <1>8
  <2>2. f[0] \in Seq(A) /\ DOMAIN f[0] = {}
    BY ONLY <2>1, Zenon
  <2>3. Distinct(f[0]) /\ ToSet(f[0]) = Seen(0)
    BY <2>1, <2>2 DEF Distinct, ToSet
  <2> QED
    BY <2>2, <2>3
<1>10. ASSUME NEW n \in 1..N, n - 1 \in T
       PROVE  n \in T
  <2>1. /\ f[n - 1] \in Seq(A) /\ Distinct(f[n - 1]) /\ ToSet(f[n - 1]) = Seen(n - 1)
        /\ n \in 0..N /\ actions[n] \in A
    BY <1>3, <1>10
  <2>2. \A i \in 1..n : i = n \/ i \in 1..(n - 1)
    OBVIOUS
  <2>3. n \in 1..n /\ \A i \in 1..(n - 1) : i \in 1..n /\ i # n /\ i \in 1..N
    OBVIOUS
  <2>4. actions[n] \notin {actions[i] : i \in 1..(n - 1)}
    BY <1>3, <2>3
  <2>5. {actions[i] : i \in 1..n} = {actions[i] : i \in 1..(n - 1)} \cup {actions[n]}
    BY <2>2, <2>3
  <2>6. CASE actions[n] \in S
    <3>1. Seen(n) = Seen(n - 1) \cup {actions[n]} /\ actions[n] \notin Seen(n - 1)
      BY <2>4, <2>5, <2>6
    <3>2. f[n] = Append(f[n - 1], actions[n])
      BY <1>8, <2>6
    <3>3. PICK s : s = f[n - 1]
      OBVIOUS
    <3>4. /\ Append(s, actions[n]) \in Seq(A) /\ Distinct(Append(s, actions[n]))
          /\ ToSet(Append(s, actions[n])) = Seen(n)
      <4> HIDE DEF Seen
      <4> QED
        BY <2>1, <3>1, <3>3, AppendToSet
    <3> QED
      BY <2>1, <3>2, <3>3, <3>4
  <2>7. CASE actions[n] \notin S
    <3>1. Seen(n) = Seen(n - 1)
      BY <2>5, <2>7
    <3>2. f[n] = f[n - 1]
      BY <1>8, <2>7
    <3> QED
      BY <2>1, <3>1, <3>2
  <2> QED
    BY <2>6, <2>7
<1>11. N \in T
  <2>1. \A n \in 0..N : n \in T
    <3> HIDE DEF T
    <3> QED
      BY <1>9, <1>10, InductionTo
  <2>2. N \in 0..N
    OBVIOUS
  <2> HIDE DEF T
  <2> QED
    BY <2>1, <2>2
<1>12. Seen(N) = S
  BY <1>3
<1> QED
  BY <1>2, <1>6, <1>7, <1>11, <1>12

\* The actions are finitely many.
LEMMA ActionsAreFinite ==
    ASSUME NEW A, NEW s \in Seq(A), Distinct(s)
    PROVE  /\ IsFiniteSet(ToSet(s)) /\ Cardinality(ToSet(s)) = Len(s)
           /\ DOMAIN s = 1..Len(s)
<1>1. PICK N \in Nat : N = Len(s)
  OBVIOUS
<1>2. IsFiniteSet(1..N) /\ Cardinality(1..N) = N
  BY FS_Interval
<1>3. s \in Bijection(1..N, ToSet(s))
  <2>1. s \in [1..N -> ToSet(s)]
    BY <1>1 DEF ToSet
  <2>2. \A x \in ToSet(s) : \E n \in 1..N : s[n] = x
    BY <1>1 DEF ToSet
  <2>3. \A i, j \in 1..N : s[i] = s[j] => i = j
    BY <1>1 DEF Distinct
  <2> QED
    BY <2>1, <2>2, <2>3 DEF Bijection, Injection, Surjection, IsInjective
<1>4. ExistsBijection(1..N, ToSet(s))
  BY <1>3 DEF ExistsBijection
<1> QED
  BY <1>1, <1>2, <1>4, FS_Bijection

\* What the sorts keep true: those ready are the others whose prerequisites are all in
\* the order, an action's count is that of its prerequisites still to come, and
\* the order holds every action after its prerequisites.
Consistent(actions, deps, st) ==
    LET done == ToSet(st.order) IN
    /\ st.order \in Seq(ToSet(actions)) /\ Distinct(st.order)
    /\ st.ready \in Seq(ToSet(actions)) /\ Distinct(st.ready)
    /\ ToSet(st.ready) = {b \in ToSet(actions) \ done : deps[b] \subseteq done}
    /\ st.open = [b \in ToSet(actions) |-> Cardinality(deps[b] \ done)]
    /\ \A b \in done : deps[b] \subseteq done
    /\ Respects(st.order, deps)

\* Those without prerequisites are ready first.
LEMMA OpeningIsConsistent ==
    ASSUME NEW actions, NEW deps, Graph(actions, deps)
    PROVE  Consistent(actions, deps, Opening(actions, deps))
<1>1. PICK st : st = Opening(actions, deps)
  OBVIOUS
<1>2. PICK A : A = ToSet(actions)
  OBVIOUS
<1> DEFINE S == {a \in A : deps[a] = {}}
<1>3. /\ st.order = <<>> /\ st.open = [a \in A |-> Cardinality(deps[a])]
      /\ st.ready = Among(actions, S)
  BY <1>1, <1>2 DEF Opening
<1>4. Among(actions, S) \in Seq(A) /\ Distinct(Among(actions, S))
      /\ ToSet(Among(actions, S)) = S
  <2>1. S \in SUBSET ToSet(actions) /\ actions \in Seq(ToSet(actions)) /\ Distinct(actions)
    BY <1>2 DEF Graph
  <2> HIDE DEF S
  <2> QED
    BY <1>2, <2>1, AmongActions
<1>5. DOMAIN <<>> = {} /\ <<>> \in Seq(A)
  OBVIOUS
<1>6. st.order \in Seq(A) /\ DOMAIN st.order = {}
  BY ONLY <1>3, <1>5, Zenon
<1>7. ToSet(st.order) = {} /\ Distinct(st.order) /\ Respects(st.order, deps)
  BY <1>6 DEF ToSet, Distinct, Respects
<1>8. \A a \in A : deps[a] \ {} = deps[a]
  OBVIOUS
<1>9. st.open = [b \in A |-> Cardinality(deps[b] \ {})]
  BY <1>3, <1>8
<1>10. S = {b \in A \ {} : deps[b] \subseteq {}}
  OBVIOUS
<1> QED
  BY <1>1, <1>2, <1>3, <1>4, <1>6, <1>7, <1>9, <1>10 DEF Consistent

\* Taking any ready action, and leaving the others ready, keeps the rest so.
LEMMA TakeIsConsistent ==
    ASSUME NEW actions, NEW deps, Graph(actions, deps),
           NEW st, Consistent(actions, deps, st),
           NEW a \in ToSet(st.ready),
           NEW rest \in Seq(ToSet(actions)), Distinct(rest),
           ToSet(rest) = ToSet(st.ready) \ {a}
    PROVE  Consistent(actions, deps, Take(actions, deps, st, a, rest))
<1>1. PICK A : A = ToSet(actions)
  OBVIOUS
<1>2. PICK D : D = ToSet(st.order)
  OBVIOUS
<1>3. PICK E : E = D \cup {a}
  OBVIOUS
<1>4. /\ actions \in Seq(A) /\ Distinct(actions) /\ deps \in [A -> SUBSET A]
      /\ IsFiniteSet(A)
  BY <1>1, ActionsAreFinite DEF Graph
<1>5. /\ st.order \in Seq(A) /\ Distinct(st.order)
      /\ ToSet(st.ready) = {b \in A \ D : deps[b] \subseteq D}
      /\ st.open = [b \in A |-> Cardinality(deps[b] \ D)]
      /\ \A b \in D : deps[b] \subseteq D
      /\ Respects(st.order, deps)
  BY <1>1, <1>2 DEF Consistent
<1>6. a \in A /\ a \notin D /\ deps[a] \subseteq D
  BY <1>5
<1> DEFINE open == [b \in A |-> IF a \in deps[b] THEN st.open[b] - 1 ELSE st.open[b]]
           opened == {b \in A : a \in deps[b] /\ open[b] = 0}
<1>7. \A b \in A : IsFiniteSet(deps[b] \ D) /\ IsFiniteSet(deps[b] \ E)
  <2> SUFFICES ASSUME NEW b \in A
               PROVE  IsFiniteSet(deps[b] \ D) /\ IsFiniteSet(deps[b] \ E)
    OBVIOUS
  <2>1. deps[b] \ D \in SUBSET A /\ deps[b] \ E \in SUBSET A
    BY <1>4
  <2> QED
    BY <1>4, <2>1, FS_Subset
<1>8. \A b \in A : open[b] = Cardinality(deps[b] \ E)
  <2> SUFFICES ASSUME NEW b \in A
               PROVE  open[b] = Cardinality(deps[b] \ E)
    OBVIOUS
  <2>1. deps[b] \ E = (deps[b] \ D) \ {a}
    BY <1>3
  <2>2. Cardinality((deps[b] \ D) \ {a}) =
            IF a \in deps[b] \ D THEN Cardinality(deps[b] \ D) - 1
            ELSE Cardinality(deps[b] \ D)
    BY <1>7, FS_RemoveElement
  <2>3. a \in deps[b] <=> a \in deps[b] \ D
    BY <1>6
  <2>4. st.open[b] = Cardinality(deps[b] \ D)
    BY <1>5
  <2> QED
    BY <2>1, <2>2, <2>3, <2>4
<1>9. \A b \in A : open[b] = 0 <=> deps[b] \subseteq E
  <2> SUFFICES ASSUME NEW b \in A
               PROVE  open[b] = 0 <=> deps[b] \subseteq E
    OBVIOUS
  <2>1. Cardinality(deps[b] \ E) = 0 <=> deps[b] \ E = {}
    BY <1>7, FS_EmptySet
  <2> HIDE DEF open
  <2> QED
    BY <1>8, <2>1
<1>10. opened = {b \in A : a \in deps[b] /\ deps[b] \subseteq E}
  <2> HIDE DEF open
  <2> QED
    BY <1>9
<1>11. \A b \in opened : b \notin E
  BY <1>3, <1>5, <1>6, <1>10
<1>12. \A b \in A \ E : deps[b] \subseteq E => b \in opened \/ b \in ToSet(st.ready) \ {a}
  <2> SUFFICES ASSUME NEW b \in A \ E, deps[b] \subseteq E, b \notin opened
               PROVE  b \in ToSet(st.ready) \ {a}
    OBVIOUS
  <2>1. a \notin deps[b]
    BY <1>10
  <2>2. deps[b] \subseteq D /\ b \in A \ D /\ b # a
    BY <1>3, <2>1
  <2> QED
    BY <1>5, <2>2
<1>13. \A b \in ToSet(st.ready) \ {a} : b \in A \ E /\ deps[b] \subseteq E /\ b \notin opened
  BY <1>3, <1>5, <1>6, <1>10
<1>14. PICK t : t = Take(actions, deps, st, a, rest)
  OBVIOUS
<1>15. t.order = Append(st.order, a) /\ t.open = open
       /\ t.ready = rest \o Among(actions, opened)
  BY <1>1, <1>14 DEF Take
<1>16. Among(actions, opened) \in Seq(A) /\ Distinct(Among(actions, opened))
       /\ ToSet(Among(actions, opened)) = opened
  <2>1. opened \in SUBSET ToSet(actions)
    BY <1>1
  <2> HIDE DEF opened
  <2> QED
    BY <1>1, <1>4, <2>1, AmongActions
<1>17. /\ t.ready \in Seq(A) /\ Distinct(t.ready)
       /\ ToSet(t.ready) = (ToSet(st.ready) \ {a}) \cup opened
  <2>1. (ToSet(st.ready) \ {a}) \cap opened = {}
    <3> HIDE DEF opened
    <3> QED
      BY <1>13
  <2> HIDE DEF opened
  <2> QED
    BY <1>1, <1>15, <1>16, <2>1, ConcatToSet
<1>18. ToSet(t.ready) = {b \in A \ E : deps[b] \subseteq E}
  <2>1. \A b \in opened : b \in A /\ deps[b] \subseteq E
    BY <1>10
  <2> HIDE DEF opened
  <2> QED
    BY <1>11, <1>12, <1>13, <1>17, <2>1
<1>19. t.order \in Seq(A) /\ Distinct(t.order) /\ ToSet(t.order) = E
  BY <1>2, <1>3, <1>5, <1>6, <1>15, AppendToSet
<1>20. t.open = [b \in A |-> Cardinality(deps[b] \ E)]
  <2>1. open = [b \in A |-> open[b]]
    OBVIOUS
  <2> HIDE DEF open
  <2> QED
    BY <1>8, <1>15, <2>1
<1>21. \A b \in E : deps[b] \subseteq E
  BY <1>3, <1>5, <1>6
<1>22. Respects(t.order, deps)
  <2>1. PICK n \in Nat : n = Len(st.order)
    BY <1>5
  <2>2. /\ DOMAIN t.order = 1..(n + 1) /\ t.order[n + 1] = a
        /\ \A i \in 1..n : t.order[i] = st.order[i] /\ st.order[i] \in D
    BY <1>2, <1>5, <1>6, <1>15, <2>1 DEF ToSet
  <2> SUFFICES ASSUME NEW i \in 1..(n + 1), NEW j \in 1..(n + 1),
                      t.order[j] \in deps[t.order[i]]
               PROVE  j < i
    BY <2>2 DEF Respects
  <2>3. t.order[i] \in E
    BY <1>3, <2>2
  <2>4. t.order[j] \in D
    BY <1>3, <1>5, <1>6, <2>2, <2>3
  <2>5. j \in 1..n
    BY <1>6, <2>1, <2>2, <2>4
  <2>6. CASE i = n + 1
    BY <2>1, <2>5, <2>6
  <2>7. CASE i # n + 1
    <3>1. i \in 1..n
      BY <2>1, <2>7
    <3>2. st.order[j] \in deps[st.order[i]]
      BY <2>2, <2>5, <3>1
    <3>3. DOMAIN st.order = 1..n
      BY <1>5, <2>1
    <3> QED
      BY <1>5, <2>5, <3>1, <3>2, <3>3 DEF Respects
  <2> QED
    BY <2>6, <2>7
<1> HIDE DEF open, opened
<1> QED
  BY <1>1, <1>14, <1>17, <1>18, <1>19, <1>20, <1>21, <1>22 DEF Consistent

\* t is what st becomes when one of the ready actions, if there is any, is taken.
Taken(actions, deps, st, t) ==
    IF st.ready = <<>> THEN t = st
    ELSE \E a \in ToSet(st.ready), rest \in Seq(ToSet(actions)) :
            /\ Distinct(rest) /\ ToSet(rest) = ToSet(st.ready) \ {a}
            /\ t = Take(actions, deps, st, a, rest)

\* The work lists hold actions.
WorkLists(A) == [ready : Seq(A), open : [A -> Int], order : Seq(A)]

\* What is consistent is of its type.
LEMMA ConsistentIsWorkList ==
    ASSUME NEW actions, NEW deps, Graph(actions, deps),
           NEW st, Consistent(actions, deps, st),
           st = [ready |-> st.ready, open |-> st.open, order |-> st.order]
    PROVE  st \in WorkLists(ToSet(actions))
<1>1. PICK A : A = ToSet(actions)
  OBVIOUS
<1>2. PICK D : D = ToSet(st.order)
  OBVIOUS
<1>3. IsFiniteSet(A) /\ deps \in [A -> SUBSET A]
  BY <1>1, ActionsAreFinite DEF Graph
<1>4. \A b \in A : Cardinality(deps[b] \ D) \in Int
  <2> SUFFICES ASSUME NEW b \in A
               PROVE  Cardinality(deps[b] \ D) \in Int
    OBVIOUS
  <2>1. deps[b] \ D \in SUBSET A
    BY <1>3
  <2>2. IsFiniteSet(deps[b] \ D)
    BY <1>3, <2>1, FS_Subset
  <2> QED
    BY <2>2, FS_CardinalityType
<1>5. st.open = [b \in A |-> Cardinality(deps[b] \ D)]
  BY <1>1, <1>2 DEF Consistent
<1>6. st.open \in [A -> Int]
  BY <1>4, <1>5
<1>7. st.ready \in Seq(A) /\ st.order \in Seq(A)
  BY <1>1 DEF Consistent
<1>8. [ready |-> st.ready, open |-> st.open, order |-> st.order] \in WorkLists(A)
  BY <1>6, <1>7 DEF WorkLists
<1> QED
  BY <1>1, <1>8

\* Both sorts take a ready action.
LEMMA BothTake ==
    ASSUME NEW actions, NEW deps, NEW st, Consistent(actions, deps, st)
    PROVE  /\ Taken(actions, deps, st, TakeOldest(actions, deps, st))
           /\ Taken(actions, deps, st, TakeNewest(actions, deps, st))
<1>1. CASE st.ready = <<>>
  BY <1>1 DEF Taken, TakeOldest, TakeNewest
<1>2. CASE st.ready # <<>>
  <2>1. st.ready \in Seq(ToSet(actions)) /\ Distinct(st.ready)
    BY DEF Consistent
  <2>2. Taken(actions, deps, st, TakeOldest(actions, deps, st))
    BY <1>2, <2>1, WithoutHead DEF Taken, TakeOldest
  <2>3. Taken(actions, deps, st, TakeNewest(actions, deps, st))
    BY <1>2, <2>1, WithoutLast DEF Taken, TakeNewest
  <2> QED
    BY <2>2, <2>3
<1> QED
  BY <1>1, <1>2

\* Taking, or finding nothing to take, keeps it consistent.
LEMMA TakenIsConsistent ==
    ASSUME NEW actions, NEW deps, Graph(actions, deps),
           NEW st, Consistent(actions, deps, st), NEW t, Taken(actions, deps, st, t)
    PROVE  Consistent(actions, deps, t)
<1>1. CASE st.ready = <<>>
  BY <1>1 DEF Taken
<1>2. CASE st.ready # <<>>
  BY <1>2, TakeIsConsistent DEF Taken
<1> QED
  BY <1>1, <1>2

\* An action that is taken comes last in the order.
LEMMA TakeOrders ==
    ASSUME NEW actions, NEW deps, NEW st, NEW a, NEW rest
    PROVE  Take(actions, deps, st, a, rest).order = Append(st.order, a)
BY DEF Take

\* After as many steps as there are actions nothing is ready, or all is in the order.
LEMMA SortEnds ==
    ASSUME NEW actions, NEW deps, Graph(actions, deps),
           NEW N \in Nat, N = Len(actions),
           NEW f, f[0] = Opening(actions, deps),
           \A n \in 1..N : Consistent(actions, deps, f[n - 1])
                               => Taken(actions, deps, f[n - 1], f[n])
    PROVE  /\ Consistent(actions, deps, f[N])
           /\ f[N].ready = <<>> \/ Len(f[N].order) = N
<1> DEFINE T == {n \in 0..N : /\ Consistent(actions, deps, f[n])
                              /\ f[n].ready = <<>> \/ Len(f[n].order) = n}
<1>1. 0 \in T
  <2>1. Opening(actions, deps).order = <<>> /\ Len(<<>>) = 0
    BY DEF Opening
  <2>2. Len(f[0].order) = 0
    BY ONLY <2>1, f[0] = Opening(actions, deps), Zenon
  <2> QED
    BY <2>2, OpeningIsConsistent
<1>2. ASSUME NEW n \in 1..N, n - 1 \in T
      PROVE  n \in T
  <2>1. /\ Consistent(actions, deps, f[n - 1]) /\ Taken(actions, deps, f[n - 1], f[n])
        /\ f[n - 1].ready = <<>> \/ Len(f[n - 1].order) = n - 1
    BY <1>2
  <2>2. Consistent(actions, deps, f[n])
    BY <2>1, TakenIsConsistent
  <2>3. f[n].ready = <<>> \/ Len(f[n].order) = n
    <3>1. CASE f[n - 1].ready = <<>>
      BY <2>1, <3>1 DEF Taken
    <3>2. CASE f[n - 1].ready # <<>>
      <4>1. PICK a \in ToSet(f[n - 1].ready), rest \in Seq(ToSet(actions)) :
                f[n] = Take(actions, deps, f[n - 1], a, rest)
        BY <2>1, <3>2 DEF Taken
      <4>2. f[n - 1].order \in Seq(ToSet(actions)) /\ a \in ToSet(actions)
        BY <2>1 DEF Consistent
      <4>3. Len(f[n - 1].order) = n - 1
        BY <2>1, <3>2
      <4>4. f[n].order = Append(f[n - 1].order, a)
        BY <4>1, TakeOrders
      <4> QED
        BY <4>2, <4>3, <4>4
    <3> QED
      BY <3>1, <3>2
  <2> QED
    BY <2>2, <2>3
<1>3. \A n \in 0..N : n \in T
  <2> HIDE DEF T
  <2> QED
    BY <1>1, <1>2, InductionTo
<1>4. N \in 0..N
  OBVIOUS
<1>5. N \in T
  <2> HIDE DEF T
  <2> QED
    BY <1>3, <1>4
<1> QED
  BY <1>5

\* A sort that got stuck or through has got through exactly when there is an order.
LEMMA SortDecides ==
    ASSUME NEW actions, NEW deps, Graph(actions, deps),
           NEW st, Consistent(actions, deps, st),
           st.ready = <<>> \/ Len(st.order) = Len(actions)
    PROVE  Len(st.order) = Len(actions) <=> Orderable(actions, deps)
<1>1. PICK A : A = ToSet(actions)
  OBVIOUS
<1>2. PICK D : D = ToSet(st.order)
  OBVIOUS
<1>3. PICK N \in Nat : N = Len(actions)
  BY DEF Graph
<1>4. IsFiniteSet(A) /\ Cardinality(A) = N
  BY <1>1, <1>3, ActionsAreFinite DEF Graph
<1>5. /\ st.order \in Seq(A) /\ Distinct(st.order) /\ Respects(st.order, deps)
      /\ ToSet(st.ready) = {b \in A \ D : deps[b] \subseteq D}
      /\ D \subseteq A
  <2>1. /\ st.order \in Seq(A) /\ Distinct(st.order) /\ Respects(st.order, deps)
        /\ ToSet(st.ready) = {b \in A \ D : deps[b] \subseteq D}
    BY <1>1, <1>2 DEF Consistent
  <2> QED
    BY <1>2, <2>1 DEF ToSet
<1>6. IsFiniteSet(D) /\ Cardinality(D) = Len(st.order)
  BY <1>2, <1>5, ActionsAreFinite
<1>7. D = A <=> Len(st.order) = N
  BY <1>4, <1>5, <1>6, FS_Subset
<1>8. ASSUME Len(st.order) = N
      PROVE  Orderable(actions, deps)
  <2>1. DOMAIN st.order = 1..N /\ \A i, j \in 1..N : i # j => st.order[i] # st.order[j]
    BY <1>5, <1>8 DEF Distinct
  <2>2. st.order \in [1..N -> A]
    BY <1>5, <1>8
  <2>3. st.order \in SetToSeqs(A)
    BY <1>4, <2>1, <2>2 DEF SetToSeqs
  <2> QED
    BY <1>1, <1>5, <2>3 DEF Orderable
<1>9. ASSUME Orderable(actions, deps), D # A
      PROVE  FALSE
  <2>1. PICK order \in SetToSeqs(A) : Respects(order, deps)
    BY <1>1, <1>9 DEF Orderable
  <2>2. /\ order \in [1..N -> A]
        /\ \A i, j \in 1..N : i # j => order[i] # order[j]
    BY <1>4, <2>1 DEF SetToSeqs
  <2>3. \A x \in A : \E i \in 1..N : order[i] = x
    <3>1. order \in Injection(1..N, A)
      BY <2>2 DEF Injection, IsInjective
    <3>2. Cardinality(1..N) = N
      BY FS_Interval
    <3>3. order \in Surjection(1..N, A)
      BY <1>4, <3>1, <3>2, FS_Injection
    <3> QED
      BY <3>3 DEF Surjection
  <2> DEFINE T == {i \in 1..N : order[i] \notin D}
  <2>4. T # {}
    <3>1. PICK x \in A : x \notin D
      BY <1>5, <1>9
    <3>2. PICK i \in 1..N : order[i] = x
      BY <2>3
    <3> QED
      BY <3>1, <3>2
  <2>5. PICK i \in T : \A j \in T : i <= j
    <3>1. T \in SUBSET Nat
      OBVIOUS
    <3> HIDE DEF T
    <3> QED
      BY <2>4, <3>1, LeastNumber
  <2>6. i \in 1..N /\ order[i] \in A \ D
    BY <2>2, <2>5
  <2>7. deps[order[i]] \subseteq D
    <3> SUFFICES ASSUME NEW x \in deps[order[i]]
                 PROVE  x \in D
      OBVIOUS
    <3>1. x \in A
      BY <1>1, <2>6 DEF Graph
    <3>2. PICK j \in 1..N : order[j] = x
      BY <2>3, <3>1
    <3>3. DOMAIN order = 1..N
      BY <2>2
    <3>4. j < i
      BY <2>1, <2>6, <3>2, <3>3 DEF Respects
    <3>5. j \notin T
      BY <2>5, <2>6, <3>4
    <3> QED
      BY <3>2, <3>5
  <2>8. order[i] \in ToSet(st.ready)
    BY <1>5, <2>6, <2>7
  <2>9. st.ready # <<>>
    BY <2>8 DEF ToSet
  <2> QED
    BY <1>3, <1>7, <1>9, <2>9
<1> QED
  BY <1>3, <1>7, <1>8, <1>9

\* The sorts go from work lists to work lists.
LEMMA TakesKeepWorkLists ==
    ASSUME NEW actions, NEW deps, Graph(actions, deps),
           NEW st \in WorkLists(ToSet(actions))
    PROVE  /\ TakeOldest(actions, deps, st) \in WorkLists(ToSet(actions))
           /\ TakeNewest(actions, deps, st) \in WorkLists(ToSet(actions))
<1>1. PICK A : A = ToSet(actions)
  OBVIOUS
<1>2. st.ready \in Seq(A) /\ st.open \in [A -> Int] /\ st.order \in Seq(A)
  BY <1>1 DEF WorkLists
<1>3. ASSUME NEW a \in A, NEW rest \in Seq(A)
      PROVE  Take(actions, deps, st, a, rest) \in WorkLists(A)
  <2> DEFINE open == [b \in A |-> IF a \in deps[b] THEN st.open[b] - 1 ELSE st.open[b]]
             opened == {b \in A : a \in deps[b] /\ open[b] = 0}
  <2>1. open \in [A -> Int]
    BY <1>2
  <2>2. Among(actions, opened) \in Seq(A)
    <3>1. opened \in SUBSET ToSet(actions) /\ actions \in Seq(ToSet(actions))
          /\ Distinct(actions)
      BY <1>1 DEF Graph
    <3> HIDE DEF opened
    <3> QED
      BY <1>1, <3>1, AmongActions
  <2>3. Take(actions, deps, st, a, rest) =
            [ready |-> rest \o Among(actions, opened), open |-> open,
             order |-> Append(st.order, a)]
    BY <1>1 DEF Take
  <2>4. rest \o Among(actions, opened) \in Seq(A) /\ Append(st.order, a) \in Seq(A)
    <3> HIDE DEF opened
    <3> QED
      BY <1>2, <2>2
  <2> HIDE DEF open, opened
  <2> QED
    BY <2>1, <2>3, <2>4 DEF WorkLists
<1>4. CASE st.ready = <<>>
  BY <1>4 DEF TakeOldest, TakeNewest
<1>5. CASE st.ready # <<>>
  <2>1. Head(st.ready) \in A /\ Tail(st.ready) \in Seq(A)
    BY <1>2, <1>5
  <2>2. Last(st.ready) \in A /\ Front(st.ready) \in Seq(A)
    BY <1>2, <1>5 DEF Last, Front
  <2> QED
    BY <1>1, <1>3, <1>5, <2>1, <2>2 DEF TakeOldest, TakeNewest
<1> QED
  BY <1>4, <1>5

\* A sort that goes on with next, from the beginning.
Sorts(f, actions, deps, next) ==
    f = [n \in 0..Len(actions) |->
            IF n = 0 THEN Opening(actions, deps) ELSE next[f[n - 1]]]

\* The recursion of a sort defines a function.
LEMMA SortExists ==
    ASSUME NEW actions, NEW deps, Graph(actions, deps),
           NEW next \in [WorkLists(ToSet(actions)) -> WorkLists(ToSet(actions))]
    PROVE  \E f \in [0..Len(actions) -> WorkLists(ToSet(actions))] :
               Sorts(f, actions, deps, next)
<1>1. PICK W : W = WorkLists(ToSet(actions))
  OBVIOUS
<1>2. PICK N \in Nat : N = Len(actions)
  BY DEF Graph
<1>3. Opening(actions, deps) \in W
  <2>1. PICK st : st = Opening(actions, deps)
    OBVIOUS
  <2>2. st = [ready |-> st.ready, open |-> st.open, order |-> st.order]
    BY <2>1 DEF Opening
  <2> QED
    BY <1>1, <2>1, <2>2, OpeningIsConsistent, ConsistentIsWorkList
<1> DEFINE step == [p \in (1..N) \X W |-> next[p[2]]]
<1>4. step \in [(1..N) \X W -> W]
  BY <1>1
<1>5. PICK f \in [0..N -> W] : Unrolls(f, Opening(actions, deps), step, N)
  <2> HIDE DEF step
  <2> QED
    BY <1>3, <1>4, UnrollingExists
<1>6. \A n \in 0..N : n # 0 => step[<<n, f[n - 1]>>] = next[f[n - 1]]
  <2> SUFFICES ASSUME NEW n \in 0..N, n # 0
               PROVE  step[<<n, f[n - 1]>>] = next[f[n - 1]]
    OBVIOUS
  <2>1. n \in 1..N /\ f[n - 1] \in W
    OBVIOUS
  <2> QED
    BY <2>1
<1>7. f = [n \in 0..N |-> IF n = 0 THEN Opening(actions, deps) ELSE next[f[n - 1]]]
  <2> HIDE DEF step
  <2> QED
    BY <1>5, <1>6 DEF Unrolls
<1> QED
  BY <1>1, <1>2, <1>7 DEF Sorts

\* Where a sort ends decides.
LEMMA SortIsRight ==
    ASSUME NEW actions, NEW deps, Graph(actions, deps),
           NEW N \in Nat, N = Len(actions),
           NEW f, f[0] = Opening(actions, deps),
           \A n \in 1..N : Consistent(actions, deps, f[n - 1])
                               => Taken(actions, deps, f[n - 1], f[n])
    PROVE  /\ Len(f[N].order) = N <=> Orderable(actions, deps)
           /\ Respects(f[N].order, deps)
           /\ f[N].order \in Seq(ToSet(actions)) /\ Distinct(f[N].order)
<1>1. /\ Consistent(actions, deps, f[N])
      /\ f[N].ready = <<>> \/ Len(f[N].order) = N
  BY SortEnds
<1>2. PICK st : st = f[N]
  OBVIOUS
<1>3. Consistent(actions, deps, st) /\ (st.ready = <<>> \/ Len(st.order) = Len(actions))
  BY <1>1, <1>2
<1>4. Len(st.order) = Len(actions) <=> Orderable(actions, deps)
  BY <1>3, SortDecides
<1>5. /\ Respects(st.order, deps)
      /\ st.order \in Seq(ToSet(actions)) /\ Distinct(st.order)
  BY <1>3 DEF Consistent
<1> QED
  BY <1>2, <1>4, <1>5

\* Validation of a Work IR and the engine's check accept exactly the graphs that
\* have an order, and the order of a Work IR is one, with no action twice.
LEMMA BothAcceptTheOrderable ==
    ASSUME NEW actions, NEW deps, Graph(actions, deps)
    PROVE  /\ IrAccepts(actions, deps) <=> Orderable(actions, deps)
           /\ EngineAccepts(actions, deps) <=> Orderable(actions, deps)
           /\ Respects(TopologicalSort(actions, deps), deps)
           /\ TopologicalSort(actions, deps) \in Seq(ToSet(actions))
           /\ Distinct(TopologicalSort(actions, deps))
<1>1. PICK W : W = WorkLists(ToSet(actions))
  OBVIOUS
<1>2. PICK N \in Nat : N = Len(actions)
  BY DEF Graph
<1> DEFINE oldest == [st \in W |-> TakeOldest(actions, deps, st)]
           newest == [st \in W |-> TakeNewest(actions, deps, st)]
           Oldest(f) == f = [n \in 0..Len(actions) |->
                                IF n = 0 THEN Opening(actions, deps)
                                ELSE TakeOldest(actions, deps, f[n - 1])]
           Newest(f) == f = [n \in 0..Len(actions) |->
                                IF n = 0 THEN Opening(actions, deps)
                                ELSE TakeNewest(actions, deps, f[n - 1])]
<1>3. oldest \in [W -> W] /\ newest \in [W -> W]
  BY <1>1, TakesKeepWorkLists
<1>4. \E f : Oldest(f)
  <2>1. PICK f \in [0..N -> W] : Sorts(f, actions, deps, oldest)
    <3> HIDE DEF oldest
    <3> QED
      BY <1>1, <1>2, <1>3, SortExists
  <2>2. \A n \in 0..N : n # 0 => oldest[f[n - 1]] = TakeOldest(actions, deps, f[n - 1])
    <3>1. \A n \in 0..N : n # 0 => f[n - 1] \in W
      OBVIOUS
    <3> QED
      BY <3>1
  <2>3. Oldest(f)
    <3> HIDE DEF oldest
    <3> QED
      BY <1>2, <2>1, <2>2 DEF Sorts
  <2> QED
    BY <2>3
<1>5. \E f : Newest(f)
  <2>1. PICK f \in [0..N -> W] : Sorts(f, actions, deps, newest)
    <3> HIDE DEF newest
    <3> QED
      BY <1>1, <1>2, <1>3, SortExists
  <2>2. \A n \in 0..N : n # 0 => newest[f[n - 1]] = TakeNewest(actions, deps, f[n - 1])
    <3>1. \A n \in 0..N : n # 0 => f[n - 1] \in W
      OBVIOUS
    <3> QED
      BY <3>1
  <2>3. Newest(f)
    <3> HIDE DEF newest
    <3> QED
      BY <1>2, <2>1, <2>2 DEF Sorts
  <2> QED
    BY <2>3
<1>6. PICK f : f = CHOOSE g : Oldest(g)
  OBVIOUS
<1>7. PICK h : h = CHOOSE g : Newest(g)
  OBVIOUS
<1>8. Oldest(f) /\ Newest(h)
  <2> HIDE DEF Oldest, Newest
  <2> QED
    BY <1>4, <1>5, <1>6, <1>7
<1>9. TopologicalSort(actions, deps) = f[N].order
  BY <1>2, <1>6 DEF TopologicalSort
<1>10. EngineVisits(actions, deps) = Len(h[N].order)
  BY <1>2, <1>7 DEF EngineVisits
<1>11. 0 \in 0..N /\ \A n \in 1..N : n \in 0..N /\ n # 0
  OBVIOUS
<1>12. /\ f[0] = Opening(actions, deps)
       /\ \A n \in 1..N : f[n] = TakeOldest(actions, deps, f[n - 1])
  BY <1>2, <1>8, <1>11
<1>13. /\ h[0] = Opening(actions, deps)
       /\ \A n \in 1..N : h[n] = TakeNewest(actions, deps, h[n - 1])
  BY <1>2, <1>8, <1>11
<1>14. /\ Len(f[N].order) = N <=> Orderable(actions, deps)
       /\ Respects(f[N].order, deps)
       /\ f[N].order \in Seq(ToSet(actions)) /\ Distinct(f[N].order)
  <2>1. \A n \in 1..N : Consistent(actions, deps, f[n - 1])
                             => Taken(actions, deps, f[n - 1], f[n])
    BY <1>12, BothTake
  <2> QED
    BY <1>2, <1>12, <2>1, SortIsRight
<1>15. Len(h[N].order) = N <=> Orderable(actions, deps)
  <2>1. \A n \in 1..N : Consistent(actions, deps, h[n - 1])
                             => Taken(actions, deps, h[n - 1], h[n])
    BY <1>13, BothTake
  <2> QED
    BY <1>2, <1>13, <2>1, SortIsRight
<1> QED
  BY <1>2, <1>9, <1>10, <1>14, <1>15 DEF IrAccepts, EngineAccepts

-----------------------------------------------------------------------------
(***************************************************************************)
(* The actions of recorded runs, in order.                                 *)
(***************************************************************************)

\* A sequence extends itself.
LEMMA ExtendsItself ==
    ASSUME NEW A, NEW s \in Seq(A)
    PROVE  Extends(s, s)
BY DEF Extends

\* An extension of an extension is one.
LEMMA ExtendsOn ==
    ASSUME NEW A, NEW s \in Seq(A), NEW t \in Seq(A), NEW u \in Seq(A),
           Extends(s, t), Extends(t, u)
    PROVE  Extends(s, u)
<1>1. PICK n \in Nat : n = Len(s)
  OBVIOUS
<1>2. PICK m \in Nat : m = Len(t)
  OBVIOUS
<1>3. PICK k \in Nat : k = Len(u)
  OBVIOUS
<1> QED
  BY <1>1, <1>2, <1>3 DEF Extends

\* What is added at the end extends.
LEMMA ExtendsByMore ==
    ASSUME NEW A, NEW s \in Seq(A), NEW t \in Seq(A)
    PROVE  s \o t \in Seq(A) /\ Extends(s, s \o t)
BY DEF Extends

\* An extension stays one behind the same beginning.
LEMMA ExtendsBehind ==
    ASSUME NEW A, NEW s \in Seq(A), NEW t \in Seq(A), NEW u \in Seq(A),
           Extends(t, u)
    PROVE  Extends(s \o t, s \o u)
<1>1. PICK n \in Nat : n = Len(s)
  OBVIOUS
<1>2. PICK m \in Nat : m = Len(t)
  OBVIOUS
<1>3. PICK k \in Nat : k = Len(u)
  OBVIOUS
<1>4. PICK st : st = s \o t
  OBVIOUS
<1>5. PICK su : su = s \o u
  OBVIOUS
<1>6. /\ Len(st) = n + m /\ Len(su) = n + k /\ m <= k
      /\ \A i \in 1..(n + m) : st[i] = IF i <= n THEN s[i] ELSE t[i - n]
      /\ \A i \in 1..(n + k) : su[i] = IF i <= n THEN s[i] ELSE u[i - n]
      /\ \A i \in 1..m : u[i] = t[i]
  BY <1>1, <1>2, <1>3, <1>4, <1>5 DEF Extends
<1>7. \A i \in 1..(n + m) : i \in 1..(n + k) /\ (i <= n \/ i - n \in 1..m)
  BY <1>6
<1>8. \A i \in 1..(n + m) : su[i] = st[i]
  BY <1>6, <1>7
<1> QED
  BY <1>4, <1>5, <1>6, <1>8 DEF Extends

\* An extension loses no element.
LEMMA ExtendsToSet ==
    ASSUME NEW A, NEW s \in Seq(A), NEW t \in Seq(A), Extends(s, t)
    PROVE  ToSet(s) \subseteq ToSet(t)
<1>1. PICK n \in Nat : n = Len(s)
  OBVIOUS
<1>2. PICK m \in Nat : m = Len(t)
  OBVIOUS
<1>3. \A i \in 1..n : i \in 1..m /\ s[i] = t[i]
  BY <1>1, <1>2 DEF Extends
<1> QED
  BY <1>1, <1>2, <1>3 DEF ToSet

\* The runs one after the other.
Flattens(f, R) ==
    f[0] = <<>> /\ \A n \in 1..Len(R) : f[n] = f[n - 1] \o R[n]

\* The recursion of FlattenSeq defines a function, which adds a run at a time.
LEMMA FlattenSteps ==
    ASSUME NEW X, NEW R \in Seq(Seq(X))
    PROVE  \E f \in [0..Len(R) -> Seq(X)] : Flattens(f, R) /\ FlattenSeq(R) = f[Len(R)]
<1>1. PICK N \in Nat : N = Len(R)
  OBVIOUS
<1>2. \A n \in 1..N : R[n] \in Seq(X)
  BY <1>1
<1> DEFINE Flat(k) == k = [i \in 1..Len(R) |-> IF i = 1 THEN R[i] ELSE k[i - 1] \o R[i]]
           step == [p \in (1..N) \X Seq(X) |-> p[2] \o R[p[1]]]
<1>3. PICK none : none = <<>>
  OBVIOUS
<1>4. PICK g \in [0..N -> Seq(X)] : Unrolls(g, none, step, N)
  <2>1. step \in [(1..N) \X Seq(X) -> Seq(X)]
    BY <1>2
  <2>2. none \in Seq(X)
    BY <1>3
  <2> HIDE DEF step
  <2> QED
    BY <2>1, <2>2, UnrollingExists
<1>5. Flattens(g, R)
  <2>1. g[0] = none /\ \A n \in 1..N : g[n] = step[<<n, g[n - 1]>>]
    <3>1. 0 \in 0..N /\ \A n \in 1..N : n \in 0..N /\ n # 0
      OBVIOUS
    <3> HIDE DEF step
    <3> QED
      BY <1>4, <3>1 DEF Unrolls
  <2>2. \A n \in 1..N : step[<<n, g[n - 1]>>] = g[n - 1] \o R[n]
    <3> SUFFICES ASSUME NEW n \in 1..N
                 PROVE  step[<<n, g[n - 1]>>] = g[n - 1] \o R[n]
      OBVIOUS
    <3>1. n - 1 \in 0..N
      OBVIOUS
    <3>2. <<n, g[n - 1]>> \in (1..N) \X Seq(X)
      BY <3>1
    <3> QED
      BY <3>2
  <2> HIDE DEF step
  <2> QED
    BY <1>3, <1>1, <2>1, <2>2 DEF Flattens
<1>6. ASSUME NEW k, Flat(k)
      PROVE  \A n \in 0..N : n # 0 => k[n] = g[n]
  <2> DEFINE T == {n \in 0..N : n # 0 => k[n] = g[n]}
  <2>1. 0 \in T
    OBVIOUS
  <2>2. ASSUME NEW n \in 1..N, n - 1 \in T
        PROVE  n \in T
    <3>1. n \in 1..Len(R) /\ n \in 0..N
      BY <1>1
    <3>2. k[n] = IF n = 1 THEN R[n] ELSE k[n - 1] \o R[n]
      BY <1>6, <3>1
    <3>3. g[n] = g[n - 1] \o R[n]
      BY <1>5, <3>1 DEF Flattens
    <3>4. CASE n = 1
      <4>1. g[n - 1] = <<>>
        BY <1>5, <3>4 DEF Flattens
      <4>2. <<>> \o R[n] = R[n]
        BY <1>2
      <4> QED
        BY <3>1, <3>2, <3>3, <3>4, <4>1, <4>2
    <3>5. CASE n # 1
      <4>1. n - 1 # 0 /\ k[n - 1] = g[n - 1]
        BY <2>2, <3>5
      <4> QED
        BY <3>1, <3>2, <3>3, <3>5, <4>1
    <3> QED
      BY <3>4, <3>5
  <2>3. \A n \in 0..N : n \in T
    <3> HIDE DEF T
    <3> QED
      BY <2>1, <2>2, InductionTo
  <2> QED
    BY <2>3
<1>7. \E k : Flat(k)
  <2> DEFINE k == [i \in 1..N |-> g[i]]
  <2>1. \A i \in 1..N : k[i] = IF i = 1 THEN R[i] ELSE k[i - 1] \o R[i]
    <3> SUFFICES ASSUME NEW i \in 1..N
                 PROVE  g[i] = IF i = 1 THEN R[i] ELSE k[i - 1] \o R[i]
      OBVIOUS
    <3>1. g[i] = g[i - 1] \o R[i]
      BY <1>1, <1>5 DEF Flattens
    <3>2. CASE i = 1
      <4>1. g[i - 1] = <<>>
        BY <1>5, <3>2 DEF Flattens
      <4>2. <<>> \o R[i] = R[i]
        BY <1>2
      <4> QED
        BY <3>1, <3>2, <4>1, <4>2
    <3>3. CASE i # 1
      <4>1. i - 1 \in 1..N
        BY <3>3
      <4> QED
        BY <3>1, <3>3, <4>1
    <3> QED
      BY <3>2, <3>3
  <2>2. PICK h : h = k
    OBVIOUS
  <2>3. h = [i \in 1..N |-> h[i]] /\
        \A i \in 1..N : h[i] = IF i = 1 THEN R[i] ELSE h[i - 1] \o R[i]
    BY <2>1, <2>2
  <2>4. Flat(h)
    BY <1>1, <2>3
  <2> QED
    BY <2>4
<1>8. CASE N = 0
  <2>1. R = <<>>
    BY ONLY R \in Seq(Seq(X)), <1>1, <1>8, EmptySeq
  <2>2. FlattenSeq(R) = R
    BY <1>1, <1>8 DEF FlattenSeq
  <2>3. g[0] = <<>>
    BY <1>5 DEF Flattens
  <2> QED
    BY <1>1, <1>5, <1>8, <2>1, <2>2, <2>3
<1>9. CASE N # 0
  <2>1. PICK k : k = CHOOSE h : Flat(h)
    OBVIOUS
  <2>2. Flat(k)
    <3> HIDE DEF Flat
    <3> QED
      BY <1>7, <2>1
  <2>3. FlattenSeq(R) = k[N]
    BY <1>1, <1>9, <2>1 DEF FlattenSeq
  <2>4. k[N] = g[N]
    <3>1. \A n \in 0..N : n # 0 => k[n] = g[n]
      <4> HIDE DEF Flat
      <4> QED
        BY <1>6, <2>2
    <3> QED
      BY <1>9, <3>1
  <2> QED
    BY <1>1, <1>5, <2>3, <2>4
<1> QED
  BY <1>8, <1>9

\* The steps of runs of steps are steps.
LEMMA FlattenTyped ==
    ASSUME NEW X, NEW R \in Seq(Seq(X))
    PROVE  FlattenSeq(R) \in Seq(X)
<1>1. PICK f \in [0..Len(R) -> Seq(X)] : FlattenSeq(R) = f[Len(R)]
  BY FlattenSteps
<1>2. Len(R) \in 0..Len(R)
  OBVIOUS
<1> QED
  BY <1>1, <1>2

\* Each partial result is where the later ones go on from.
LEMMA FlattensGrow ==
    ASSUME NEW X, NEW R \in Seq(Seq(X)), NEW f \in [0..Len(R) -> Seq(X)],
           Flattens(f, R), NEW m \in 0..Len(R)
    PROVE  \A n \in 0..Len(R) : m <= n => Extends(f[m], f[n])
<1>1. PICK N \in Nat : N = Len(R)
  OBVIOUS
<1> DEFINE T == {n \in 0..N : m <= n => Extends(f[m], f[n])}
<1>2. f[m] \in Seq(X)
  OBVIOUS
<1>3. Extends(f[m], f[m])
  BY <1>2, ExtendsItself
<1>4. 0 \in T
  BY <1>1, <1>3
<1>5. ASSUME NEW n \in 1..N, n - 1 \in T
      PROVE  n \in T
  <2> SUFFICES ASSUME m <= n, m # n
               PROVE  Extends(f[m], f[n])
    BY <1>3
  <2>1. m <= n - 1 /\ n - 1 \in 0..Len(R) /\ n \in 1..Len(R) /\ n \in 0..Len(R)
    BY <1>1
  <2>2. f[n] = f[n - 1] \o R[n]
    BY <2>1 DEF Flattens
  <2>3. f[n - 1] \in Seq(X) /\ f[n] \in Seq(X)
    BY <2>1
  <2>4. R[n] \in Seq(X)
    BY <2>1
  <2>5. Extends(f[n - 1], f[n])
    BY <2>2, <2>3, <2>4, ExtendsByMore
  <2>6. Extends(f[m], f[n - 1])
    BY <1>5, <2>1
  <2> QED
    BY <1>2, <2>3, <2>5, <2>6, ExtendsOn
<1>6. \A n \in 0..N : n \in T
  <2> HIDE DEF T
  <2> QED
    BY <1>4, <1>5, InductionTo
<1> QED
  BY <1>1, <1>6

\* Nothing is left out.
LEMMA FlattenCovers ==
    ASSUME NEW X, NEW R \in Seq(Seq(X)), NEW i \in 1..Len(R)
    PROVE  FlattenSeq(R) \in Seq(X) /\ ToSet(R[i]) \subseteq ToSet(FlattenSeq(R))
<1>1. PICK f \in [0..Len(R) -> Seq(X)] : Flattens(f, R) /\ FlattenSeq(R) = f[Len(R)]
  BY FlattenSteps
<1>2. i - 1 \in 0..Len(R) /\ i \in 0..Len(R) /\ Len(R) \in 0..Len(R) /\ i <= Len(R)
  OBVIOUS
<1>3. f[i] = f[i - 1] \o R[i]
  BY <1>1, <1>2 DEF Flattens
<1>4. f[i - 1] \in Seq(X) /\ f[i] \in Seq(X) /\ f[Len(R)] \in Seq(X)
  BY <1>2
<1>5. R[i] \in Seq(X)
  OBVIOUS
<1>6. ToSet(R[i]) \subseteq ToSet(f[i])
  BY <1>3, <1>4, <1>5, ConcatToSet
<1>7. Extends(f[i], f[Len(R)])
  BY <1>1, <1>2, FlattensGrow
<1>8. ToSet(f[i]) \subseteq ToSet(f[Len(R)])
  BY <1>7, <1>4, ExtendsToSet
<1> QED
  BY <1>1, <1>6, <1>4, <1>8

\* Runs that were recorded on: only the last run may have grown, and further ones begun.
Grown(R, Q) ==
    /\ Len(R) <= Len(Q)
    /\ \A i \in 1..Len(R) : Extends(R[i], Q[i]) /\ (i < Len(R) => R[i] = Q[i])

\* Recording on extends the list of all steps.
LEMMA FlattenGrows ==
    ASSUME NEW X, NEW R \in Seq(Seq(X)), NEW Q \in Seq(Seq(X)), Grown(R, Q)
    PROVE  Extends(FlattenSeq(R), FlattenSeq(Q))
<1>1. PICK M \in Nat : M = Len(R)
  OBVIOUS
<1>2. PICK N \in Nat : N = Len(Q)
  OBVIOUS
<1>3. PICK f \in [0..M -> Seq(X)] : Flattens(f, R) /\ FlattenSeq(R) = f[M]
  BY <1>1, FlattenSteps
<1>4. PICK g \in [0..N -> Seq(X)] : Flattens(g, Q) /\ FlattenSeq(Q) = g[N]
  BY <1>2, FlattenSteps
<1>5. M <= N /\ \A i \in 1..M : Extends(R[i], Q[i]) /\ (i < M => R[i] = Q[i])
  BY <1>1, <1>2 DEF Grown
<1>6. \A n \in 0..M : n < M => f[n] = g[n]
  <2> DEFINE T == {n \in 0..M : n < M => f[n] = g[n]}
  <2>1. 0 \in T
    BY <1>3, <1>4 DEF Flattens
  <2>2. ASSUME NEW n \in 1..M, n - 1 \in T
        PROVE  n \in T
    <3> SUFFICES ASSUME n < M
                 PROVE  f[n] = g[n]
      OBVIOUS
    <3>1. n \in 1..N /\ n - 1 < M /\ R[n] = Q[n]
      BY <1>5
    <3>2. f[n - 1] = g[n - 1]
      BY <2>2, <3>1
    <3>3. f[n] = f[n - 1] \o R[n] /\ g[n] = g[n - 1] \o Q[n]
      BY <1>1, <1>2, <1>3, <1>4, <3>1 DEF Flattens
    <3> QED
      BY <3>1, <3>2, <3>3
  <2>3. \A n \in 0..M : n \in T
    <3> HIDE DEF T
    <3> QED
      BY <2>1, <2>2, InductionTo
  <2> QED
    BY <2>3
<1>7. Extends(f[M], g[M])
  <2>1. CASE M = 0
    <3>1. f[M] = g[M] /\ g[M] \in Seq(X)
      BY <1>3, <1>4, <1>5, <2>1 DEF Flattens
    <3> QED
      BY <3>1, ExtendsItself
  <2>2. CASE M # 0
    <3>1. M \in 1..M /\ M \in 1..N /\ M - 1 \in 0..M /\ M - 1 < M
      BY <1>5, <2>2
    <3>2. f[M - 1] = g[M - 1] /\ Extends(R[M], Q[M])
      BY <1>5, <1>6, <3>1
    <3>3. f[M] = f[M - 1] \o R[M] /\ g[M] = g[M - 1] \o Q[M]
      BY <1>1, <1>2, <1>3, <1>4, <3>1 DEF Flattens
    <3>4. R[M] \in Seq(X)
      BY <1>1, <3>1
    <3>5. Q[M] \in Seq(X)
      BY <1>2, <3>1
    <3>6. f[M - 1] \in Seq(X)
      BY <3>1
    <3>7. Extends(f[M - 1] \o R[M], f[M - 1] \o Q[M])
      BY <3>2, <3>4, <3>5, <3>6, ExtendsBehind
    <3> QED
      BY <3>2, <3>3, <3>7
  <2> QED
    BY <2>1, <2>2
<1>8. M \in 0..N /\ N \in 0..N /\ M \in 0..M
  BY <1>5
<1>9. Extends(g[M], g[N])
  BY <1>2, <1>4, <1>5, <1>8, FlattensGrow
<1>10. f[M] \in Seq(X) /\ g[M] \in Seq(X) /\ g[N] \in Seq(X)
  BY <1>8
<1> QED
  BY <1>3, <1>4, <1>7, <1>9, <1>10, ExtendsOn

\* The actions of the steps s as they are met first.
Meets(f, s) ==
    /\ f[0] = <<>>
    /\ \A n \in 1..Len(s) :
          f[n] = IF Contains(f[n - 1], s[n].action) THEN f[n - 1]
                 ELSE Append(f[n - 1], s[n].action)

\* The recursion of ActionOrder defines a function, which meets the steps in turn.
LEMMA ActionOrderMeets ==
    ASSUME NEW X, NEW R \in Seq(Seq(X))
    PROVE  \E f : /\ Meets(f, FlattenSeq(R))
                  /\ ActionOrder(R) = f[Len(FlattenSeq(R))]
<1>1. PICK s : s = FlattenSeq(R)
  OBVIOUS
<1>2. s \in Seq(X)
  BY <1>1, FlattenTyped
<1>3. PICK N \in Nat : N = Len(s)
  BY <1>2
<1>4. PICK A : A = {x.action : x \in X}
  OBVIOUS
<1>5. PICK none : none = <<>>
  OBVIOUS
<1>6. \A n \in 1..N : s[n].action \in A
  BY <1>2, <1>3, <1>4
<1> DEFINE Seen(f) == f = [n \in 0..Len(s) |->
                IF n = 0 THEN <<>>
                ELSE IF Contains(f[n - 1], s[n].action) THEN f[n - 1]
                ELSE Append(f[n - 1], s[n].action)]
           step == [p \in (1..N) \X Seq(A) |->
                       IF Contains(p[2], s[p[1]].action) THEN p[2]
                       ELSE Append(p[2], s[p[1]].action)]
<1>7. \E f : Seen(f)
  <2>1. step \in [(1..N) \X Seq(A) -> Seq(A)]
    BY <1>6
  <2>2. none \in Seq(A)
    BY <1>5
  <2>3. PICK f \in [0..N -> Seq(A)] : Unrolls(f, none, step, N)
    <3> HIDE DEF step
    <3> QED
      BY <2>1, <2>2, UnrollingExists
  <2>4. \A n \in 0..N : n # 0 =>
            step[<<n, f[n - 1]>>] = IF Contains(f[n - 1], s[n].action) THEN f[n - 1]
                                    ELSE Append(f[n - 1], s[n].action)
    <3> SUFFICES ASSUME NEW n \in 0..N, n # 0
                 PROVE  step[<<n, f[n - 1]>>] =
                            IF Contains(f[n - 1], s[n].action) THEN f[n - 1]
                            ELSE Append(f[n - 1], s[n].action)
      OBVIOUS
    <3>1. n \in 1..N /\ f[n - 1] \in Seq(A)
      OBVIOUS
    <3>2. <<n, f[n - 1]>> \in (1..N) \X Seq(A)
      BY <3>1
    <3> QED
      BY <3>2
  <2>5. f = [n \in 0..N |-> IF n = 0 THEN none ELSE step[<<n, f[n - 1]>>]]
    BY <2>3 DEF Unrolls
  <2>6. Seen(f)
    <3> HIDE DEF step
    <3> QED
      BY <1>3, <1>5, <2>4, <2>5
  <2> QED
    BY <2>6
<1>8. PICK f : f = CHOOSE g : Seen(g)
  OBVIOUS
<1>9. Seen(f)
  <2> HIDE DEF Seen
  <2> QED
    BY <1>7, <1>8
<1>10. ActionOrder(R) = f[N]
  BY <1>1, <1>3, <1>8 DEF ActionOrder
<1>11. 0 \in 0..N /\ \A n \in 1..N : n \in 0..N /\ n # 0
  OBVIOUS
<1>12. Meets(f, s)
  BY <1>3, <1>9, <1>11 DEF Meets
<1> HIDE DEF Seen
<1> QED
  BY <1>1, <1>3, <1>10, <1>12

\* The actions met first are those of the steps so far, once each.
LEMMA MetOnce ==
    ASSUME NEW X, NEW s \in Seq(X), NEW f, Meets(f, s),
           NEW A, \A x \in X : x.action \in A
    PROVE  \A n \in 0..Len(s) :
               /\ f[n] \in Seq(A) /\ Distinct(f[n])
               /\ \A i \in 1..n : s[i].action \in ToSet(f[n])
<1>1. PICK N \in Nat : N = Len(s)
  OBVIOUS
<1> DEFINE T == {n \in 0..N : /\ f[n] \in Seq(A) /\ Distinct(f[n])
                              /\ ToSet(f[n]) = {s[i].action : i \in 1..n}}
<1>2. 0 \in T
  <2>1. PICK none : none = <<>>
    OBVIOUS
  <2>2. f[0] = none
    BY <2>1 DEF Meets
  <2>3. none \in Seq(A) /\ ToSet(none) = {} /\ Distinct(none)
    BY <2>1 DEF ToSet, Distinct
  <2>4. {s[i].action : i \in 1..0} = {}
    OBVIOUS
  <2> QED
    BY <2>2, <2>3, <2>4
<1>3. ASSUME NEW n \in 1..N, n - 1 \in T
      PROVE  n \in T
  <2>1. PICK g : g = f[n - 1]
    OBVIOUS
  <2>2. PICK a : a = s[n].action
    OBVIOUS
  <2>3. /\ g \in Seq(A) /\ Distinct(g)
        /\ ToSet(g) = {s[i].action : i \in 1..(n - 1)}
    BY <1>3, <2>1
  <2>4. f[n] = IF Contains(g, a) THEN g ELSE Append(g, a)
    BY <1>1, <2>1, <2>2 DEF Meets
  <2>5. a \in A
    <3>1. s[n] \in X
      BY <1>1
    <3> QED
      BY <2>2, <3>1
  <2>6. Contains(g, a) <=> a \in ToSet(g)
    BY <2>3 DEF Contains, ToSet
  <2>7. {s[i].action : i \in 1..n} = {s[i].action : i \in 1..(n - 1)} \cup {a}
    <3>1. 1..n = (1..(n - 1)) \cup {n}
      OBVIOUS
    <3> QED
      BY <2>2, <3>1
  <2>8. SUFFICES /\ f[n] \in Seq(A) /\ Distinct(f[n])
                  /\ ToSet(f[n]) = {s[i].action : i \in 1..n}
    OBVIOUS
  <2>9. CASE Contains(g, a)
    <3>1. f[n] = g
      BY <2>4, <2>9
    <3>2. a \in {s[i].action : i \in 1..(n - 1)}
      BY <2>3, <2>6, <2>9
    <3>3. {s[i].action : i \in 1..n} = {s[i].action : i \in 1..(n - 1)}
      BY <2>7, <3>2
    <3> QED
      BY <2>3, <3>1, <3>3
  <2>10. CASE ~Contains(g, a)
    <3>1. f[n] = Append(g, a)
      BY <2>4, <2>10
    <3>2. Append(g, a) \in Seq(A) /\ ToSet(Append(g, a)) = ToSet(g) \cup {a}
      BY <2>3, <2>5, AppendToSet
    <3>3. Distinct(Append(g, a))
      BY <2>3, <2>5, <2>6, <2>10, AppendToSet
    <3> QED
      BY <2>3, <2>7, <3>1, <3>2, <3>3
  <2> QED
    BY <2>9, <2>10
<1>4. \A n \in 0..N : n \in T
  <2> HIDE DEF T
  <2> QED
    BY <1>2, <1>3, InductionTo
<1>5. \A n \in 0..N : \A i \in 1..n : s[i].action \in ToSet(f[n])
  <2> SUFFICES ASSUME NEW n \in 0..N, NEW i \in 1..n
               PROVE  s[i].action \in ToSet(f[n])
    OBVIOUS
  <2>1. ToSet(f[n]) = {s[k].action : k \in 1..n}
    BY <1>4
  <2> QED
    BY <2>1
<1> QED
  BY <1>1, <1>4, <1>5

\* More steps never change what was met before.
LEMMA MeetsGrow ==
    ASSUME NEW X, NEW s \in Seq(X), NEW t \in Seq(X), Extends(s, t),
           NEW f, Meets(f, s), NEW g, Meets(g, t)
    PROVE  Extends(f[Len(s)], g[Len(t)])
<1>1. PICK M \in Nat : M = Len(s)
  OBVIOUS
<1>2. PICK N \in Nat : N = Len(t)
  OBVIOUS
<1>3. PICK A : \A x \in X : x.action \in A
  <2>1. \A x \in X : x.action \in {y.action : y \in X}
    OBVIOUS
  <2> QED
    BY <2>1
<1>4. M <= N /\ \A i \in 1..M : t[i] = s[i]
  BY <1>1, <1>2 DEF Extends
<1>5. \A n \in 0..N : g[n] \in Seq(A)
  BY <1>2, <1>3, MetOnce
<1>6. \A n \in 0..M : f[n] = g[n]
  <2> DEFINE T == {n \in 0..M : f[n] = g[n]}
  <2>1. 0 \in T
    BY DEF Meets
  <2>2. ASSUME NEW n \in 1..M, n - 1 \in T
        PROVE  n \in T
    <3>1. f[n - 1] = g[n - 1] /\ t[n] = s[n] /\ n \in 1..N
      BY <1>4, <2>2
    <3>2. f[n] = IF Contains(f[n - 1], s[n].action) THEN f[n - 1]
                 ELSE Append(f[n - 1], s[n].action)
      BY <1>1 DEF Meets
    <3>3. g[n] = IF Contains(g[n - 1], t[n].action) THEN g[n - 1]
                 ELSE Append(g[n - 1], t[n].action)
      BY <1>2, <3>1 DEF Meets
    <3> QED
      BY <3>1, <3>2, <3>3
  <2>3. \A n \in 0..M : n \in T
    <3> HIDE DEF T
    <3> QED
      BY <2>1, <2>2, InductionTo
  <2> QED
    BY <2>3
<1>7. \A n \in 0..N : M <= n => Extends(g[M], g[n])
  <2> DEFINE T == {n \in 0..N : M <= n => Extends(g[M], g[n])}
  <2>1. M \in 0..N /\ g[M] \in Seq(A)
    BY <1>4, <1>5
  <2>2. Extends(g[M], g[M])
    BY <2>1, ExtendsItself
  <2>3. 0 \in T
    BY <2>2
  <2>4. ASSUME NEW n \in 1..N, n - 1 \in T
        PROVE  n \in T
    <3> SUFFICES ASSUME M <= n, M # n
                 PROVE  Extends(g[M], g[n])
      BY <2>2
    <3>1. M <= n - 1 /\ n - 1 \in 0..N /\ n \in 0..N
      OBVIOUS
    <3>2. Extends(g[M], g[n - 1])
      BY <2>4, <3>1
    <3>3. g[n - 1] \in Seq(A) /\ g[n] \in Seq(A)
      BY <1>5, <3>1
    <3>4. Extends(g[n - 1], g[n])
      <4>1. PICK h : h = g[n - 1]
        OBVIOUS
      <4>2. PICK a : a = t[n].action
        OBVIOUS
      <4>3. g[n] = h \/ g[n] = Append(h, a)
        BY <1>2, <4>1, <4>2 DEF Meets
      <4>4. h \in Seq(A) /\ a \in A
        <5>1. t[n] \in X
          BY <1>2
        <5> QED
          BY <1>3, <3>3, <4>1, <4>2, <5>1
      <4>5. Extends(h, h) /\ Extends(h, Append(h, a))
        BY <4>4 DEF Extends
      <4> QED
        BY <4>1, <4>3, <4>5
    <3> QED
      BY <2>1, <3>2, <3>3, <3>4, ExtendsOn
  <2>5. \A n \in 0..N : n \in T
    <3> HIDE DEF T
    <3> QED
      BY <2>3, <2>4, InductionTo
  <2> QED
    BY <2>5
<1> QED
  BY <1>1, <1>2, <1>4, <1>6, <1>7

\* The actions of runs are those of their steps, once each.
LEMMA ActionOrderIs ==
    ASSUME NEW X, NEW R \in Seq(Seq(X))
    PROVE  /\ ActionOrder(R) \in Seq(ToSet(ActionOrder(R)))
           /\ Distinct(ActionOrder(R))
           /\ \A i \in 1..Len(R) : \A j \in 1..Len(R[i]) :
                  R[i][j].action \in ToSet(ActionOrder(R))
<1>1. PICK s : s = FlattenSeq(R)
  OBVIOUS
<1>2. s \in Seq(X)
  BY <1>1, FlattenTyped
<1>3. PICK f : Meets(f, s) /\ ActionOrder(R) = f[Len(s)]
  BY <1>1, ActionOrderMeets
<1>4. PICK N \in Nat : N = Len(s)
  BY <1>2
<1>5. PICK A : \A x \in X : x.action \in A
  <2>1. \A x \in X : x.action \in {y.action : y \in X}
    OBVIOUS
  <2> QED
    BY <2>1
<1>6. PICK order : order = ActionOrder(R)
  OBVIOUS
<1>7. /\ order \in Seq(A) /\ Distinct(order)
      /\ \A i \in 1..N : s[i].action \in ToSet(order)
  <2>1. N \in 0..N
    OBVIOUS
  <2>2. \A n \in 0..Len(s) : /\ f[n] \in Seq(A) /\ Distinct(f[n])
                            /\ \A i \in 1..n : s[i].action \in ToSet(f[n])
    BY <1>2, <1>3, <1>5, MetOnce
  <2>3. /\ f[N] \in Seq(A) /\ Distinct(f[N])
        /\ \A i \in 1..N : s[i].action \in ToSet(f[N])
    BY <1>4, <2>1, <2>2
  <2> QED
    BY <1>3, <1>4, <1>6, <2>3
<1>8. order \in Seq(ToSet(order))
  BY <1>7 DEF ToSet
<1>9. ASSUME NEW i \in 1..Len(R), NEW j \in 1..Len(R[i])
      PROVE  R[i][j].action \in ToSet(order)
  <2>1. R[i] \in Seq(X)
    OBVIOUS
  <2>2. R[i][j] \in ToSet(R[i])
    BY <2>1 DEF ToSet
  <2>3. R[i][j] \in ToSet(s)
    BY <1>1, <2>2, FlattenCovers
  <2>4. PICK k \in 1..N : R[i][j] = s[k]
    BY <1>2, <1>4, <2>3 DEF ToSet
  <2> QED
    BY <1>7, <2>4
<1> QED
  BY <1>6, <1>7, <1>8, <1>9

\* Recording on extends the list of actions.
LEMMA ActionOrderGrows ==
    ASSUME NEW X, NEW R \in Seq(Seq(X)), NEW Q \in Seq(Seq(X)), Grown(R, Q)
    PROVE  Extends(ActionOrder(R), ActionOrder(Q))
<1>1. PICK s : s = FlattenSeq(R)
  OBVIOUS
<1>2. PICK t : t = FlattenSeq(Q)
  OBVIOUS
<1>3. s \in Seq(X) /\ t \in Seq(X)
  <2>1. s \in Seq(X)
    BY <1>1, FlattenTyped
  <2>2. t \in Seq(X)
    BY <1>2, FlattenTyped
  <2> QED
    BY <2>1, <2>2
<1>4. Extends(s, t)
  BY <1>1, <1>2, FlattenGrows
<1>5. PICK f : Meets(f, s) /\ ActionOrder(R) = f[Len(s)]
  BY <1>1, ActionOrderMeets
<1>6. PICK g : Meets(g, t) /\ ActionOrder(Q) = g[Len(t)]
  BY <1>2, ActionOrderMeets
<1> QED
  BY <1>3, <1>4, <1>5, <1>6, MeetsGrow

\* The place of an action is where it stands.
LEMMA IndexIs ==
    ASSUME NEW A, NEW s \in Seq(A), Distinct(s), NEW i \in 1..Len(s)
    PROVE  Index(s, s[i]) = i
<1>1. DOMAIN s = 1..Len(s)
  OBVIOUS
<1>2. \A j \in 1..Len(s) : s[j] = s[i] <=> j = i
  BY <1>1 DEF Distinct
<1>3. {j \in 1..Len(s) : s[j] = s[i]} = {i}
  BY <1>2
<1>4. Min({i}) = i
  BY DEF Min
<1>5. Index(s, s[i]) = IF {j \in 1..Len(s) : s[j] = s[i]} # {}
                       THEN Min({j \in 1..Len(s) : s[j] = s[i]}) ELSE 0
  BY DEF Index, SelectInSeq
<1> QED
  BY <1>3, <1>4, <1>5

\* Every action has a place.
LEMMA IndexIsOneOf ==
    ASSUME NEW A, NEW s \in Seq(A), Distinct(s), NEW a \in ToSet(s)
    PROVE  Index(s, a) \in 1..Len(s) /\ s[Index(s, a)] = a
<1>1. PICK i \in 1..Len(s) : s[i] = a
  BY DEF ToSet
<1>2. Index(s, s[i]) = i
  BY IndexIs
<1> QED
  BY <1>1, <1>2

\* An action keeps its place when more are met.
LEMMA IndexStays ==
    ASSUME NEW A, NEW s \in Seq(A), Distinct(s), NEW B, NEW t \in Seq(B), Distinct(t),
           Extends(s, t), NEW a \in ToSet(s)
    PROVE  Index(t, a) = Index(s, a) /\ a \in ToSet(t)
<1>1. PICK i \in 1..Len(s) : s[i] = a
  BY DEF ToSet
<1>2. i \in 1..Len(t) /\ t[i] = a
  BY <1>1 DEF Extends
<1>3. Index(s, s[i]) = i
  BY IndexIs
<1>4. Index(t, t[i]) = i
  BY <1>2, IndexIs
<1> QED
  BY <1>1, <1>2, <1>3, <1>4 DEF ToSet

\* The edge e is a succession in the run.
Follows(e, run) ==
    \E i \in 2..Len(run) : e = <<run[i - 1].action, run[i].action>>

\* The recorded successions are those in the runs.
LEMMA SucceedsIs ==
    ASSUME NEW X, NEW R \in Seq(Seq(X)), NEW e
    PROVE  e \in Succeeds(R) <=> \E k \in 1..Len(R) : Follows(e, R[k])
<1> DEFINE edges(run) == {<<run[i - 1].action, run[i].action>> : i \in 2..Len(run)}
<1>1. ToSet(R) = {R[k] : k \in 1..Len(R)}
  <2>1. DOMAIN R = 1..Len(R)
    OBVIOUS
  <2> QED
    BY <2>1, Zenon DEF ToSet
<1>2. Succeeds(R) = UNION {edges(run) : run \in {R[k] : k \in 1..Len(R)}}
  BY <1>1 DEF Succeeds
<1>3. e \in Succeeds(R) <=> \E k \in 1..Len(R) : e \in edges(R[k])
  <2> HIDE DEF edges
  <2> QED
    BY <1>2
<1>4. \A k \in 1..Len(R) : e \in edges(R[k]) <=> Follows(e, R[k])
  BY DEF Follows
<1> HIDE DEF edges
<1> QED
  BY <1>3, <1>4

\* They are between actions of the runs.
LEMMA SucceedsAreActions ==
    ASSUME NEW X, NEW R \in Seq(Seq(X)), NEW e \in Succeeds(R)
    PROVE  /\ e = <<e[1], e[2]>>
           /\ e[1] \in ToSet(ActionOrder(R)) /\ e[2] \in ToSet(ActionOrder(R))
<1>1. PICK k \in 1..Len(R) : Follows(e, R[k])
  BY SucceedsIs
<1>2. PICK i \in 2..Len(R[k]) : e = <<R[k][i - 1].action, R[k][i].action>>
  BY <1>1 DEF Follows
<1>3. R[k] \in Seq(X)
  OBVIOUS
<1>4. i \in 1..Len(R[k]) /\ i - 1 \in 1..Len(R[k])
  BY <1>3
<1>5. /\ R[k][i - 1].action \in ToSet(ActionOrder(R))
      /\ R[k][i].action \in ToSet(ActionOrder(R))
  BY <1>4, ActionOrderIs
<1> QED
  BY <1>2, <1>5

\* Recording on loses none.
LEMMA SucceedsGrow ==
    ASSUME NEW X, NEW R \in Seq(Seq(X)), NEW Q, Q \in Seq(Seq(X)), Grown(R, Q)
    PROVE  Succeeds(R) \subseteq Succeeds(Q)
<1> SUFFICES ASSUME NEW e \in Succeeds(R)
             PROVE  e \in Succeeds(Q)
  OBVIOUS
<1>1. PICK k \in 1..Len(R) : Follows(e, R[k])
  BY SucceedsIs
<1>2. PICK i \in 2..Len(R[k]) : e = <<R[k][i - 1].action, R[k][i].action>>
  BY <1>1 DEF Follows
<1>3. k \in 1..Len(Q) /\ Extends(R[k], Q[k])
  BY DEF Grown
<1>4. R[k] \in Seq(X)
  OBVIOUS
<1>5. Q[k] \in Seq(X)
  BY <1>3
<1>6. Len(R[k]) <= Len(Q[k]) /\ \A j \in 1..Len(R[k]) : Q[k][j] = R[k][j]
  BY <1>3 DEF Extends
<1>7. i \in 1..Len(R[k]) /\ i - 1 \in 1..Len(R[k]) /\ i \in 2..Len(Q[k])
  BY <1>4, <1>5, <1>6
<1>8. e = <<Q[k][i - 1].action, Q[k][i].action>>
  BY <1>2, <1>6, <1>7
<1>9. Follows(e, Q[k])
  BY <1>7, <1>8 DEF Follows
<1> QED
  BY <1>3, <1>9, SucceedsIs

\* What is recorded goes from an earlier action to a later one.
LEMMA RecordedIsForward ==
    ASSUME NEW X, NEW R \in Seq(Seq(X)), NEW actions, actions = ActionOrder(R),
           NEW e \in Recorded(actions, R)
    PROVE  /\ e = <<e[1], e[2]>> /\ e[1] \in ToSet(actions) /\ e[2] \in ToSet(actions)
           /\ Index(actions, e[1]) < Index(actions, e[2])
<1>1. actions \in Seq(ToSet(actions)) /\ Distinct(actions)
  BY ActionOrderIs
<1>2. CASE e \in Forward(actions, R)
  <2>1. e \in Succeeds(R) /\ Index(actions, e[1]) < Index(actions, e[2])
    BY <1>2 DEF Forward
  <2> QED
    BY <2>1, SucceedsAreActions
<1>3. CASE e \in Chain(actions)
  <2>1. PICK i \in 2..Len(actions) : e = <<actions[i - 1], actions[i]>>
    BY <1>3 DEF Chain
  <2>2. i \in 1..Len(actions) /\ i - 1 \in 1..Len(actions)
    BY <1>1
  <2>3. actions[i] \in ToSet(actions) /\ actions[i - 1] \in ToSet(actions)
    BY <1>1, <2>2 DEF ToSet
  <2>4. Index(actions, actions[i]) = i
    BY <1>1, <2>2, IndexIs
  <2>5. Index(actions, actions[i - 1]) = i - 1
    BY <1>1, <2>2, IndexIs
  <2> QED
    BY <2>1, <2>2, <2>3, <2>4, <2>5
<1> QED
  BY <1>2, <1>3 DEF Recorded

\* The prerequisites of an action, edge by edge.
LEMMA DependenciesAre ==
    ASSUME NEW actions, NEW R, NEW stated, NEW a \in ToSet(actions), NEW b
    PROVE  b \in Dependencies(actions, R, stated)[a] <=>
              \E e \in Recorded(actions, R) \cup Stated(actions, stated) :
                  e[1] = b /\ e[2] = a
BY DEF Dependencies

\* Whatever orderings are stated, the dependencies are between the actions.
LEMMA DependenciesAreAGraph ==
    ASSUME NEW X, NEW R \in Seq(Seq(X)), NEW actions, actions = ActionOrder(R),
           NEW stated
    PROVE  Graph(actions, Dependencies(actions, R, stated))
<1>1. actions \in Seq(ToSet(actions)) /\ Distinct(actions)
  BY ActionOrderIs
<1>2. ASSUME NEW a \in ToSet(actions), NEW b \in Dependencies(actions, R, stated)[a]
      PROVE  b \in ToSet(actions)
  <2>1. PICK e \in Recorded(actions, R) \cup Stated(actions, stated) :
            e[1] = b /\ e[2] = a
    BY <1>2, DependenciesAre
  <2>2. CASE e \in Recorded(actions, R)
    BY <2>1, <2>2, RecordedIsForward
  <2>3. CASE e \in Stated(actions, stated)
    BY <2>1, <2>3 DEF Stated
  <2> QED
    BY <2>2, <2>3
<1>3. Dependencies(actions, R, stated) =
          [a \in ToSet(actions) |-> Dependencies(actions, R, stated)[a]]
  BY DEF Dependencies
<1>4. Dependencies(actions, R, stated) \in [ToSet(actions) -> SUBSET ToSet(actions)]
  BY <1>2, <1>3
<1> QED
  BY <1>1, <1>4 DEF Graph

\* Without a stated ordering, the order of first appearance is one.
LEMMA RecordingsAreOrderable ==
    ASSUME NEW X, NEW R \in Seq(Seq(X)), NEW actions, actions = ActionOrder(R)
    PROVE  Orderable(actions, Dependencies(actions, R, {}))
<1>1. PICK deps : deps = Dependencies(actions, R, {})
  OBVIOUS
<1>2. actions \in Seq(ToSet(actions)) /\ Distinct(actions)
  BY ActionOrderIs
<1>3. PICK N \in Nat : N = Len(actions)
  BY <1>2
<1>4. Cardinality(ToSet(actions)) = N /\ DOMAIN actions = 1..N
  BY <1>2, <1>3, ActionsAreFinite
<1>5. actions \in SetToSeqs(ToSet(actions))
  <2>1. actions \in [1..N -> ToSet(actions)]
    BY <1>2, <1>3
  <2>2. \A i, j \in 1..N : i # j => actions[i] # actions[j]
    BY <1>2, <1>4 DEF Distinct
  <2> QED
    BY <1>4, <2>1, <2>2 DEF SetToSeqs
<1>6. ASSUME NEW i \in 1..N, NEW j \in 1..N, actions[j] \in deps[actions[i]]
      PROVE  j < i
  <2>1. actions[i] \in ToSet(actions)
    BY <1>4 DEF ToSet
  <2>2. PICK e \in Recorded(actions, R) \cup Stated(actions, {}) :
            e[1] = actions[j] /\ e[2] = actions[i]
    BY <1>1, <1>6, <2>1, DependenciesAre
  <2>3. e \in Recorded(actions, R)
    BY <2>2 DEF Stated
  <2>4. Index(actions, e[1]) < Index(actions, e[2])
    BY <2>3, RecordedIsForward
  <2>5. Index(actions, actions[i]) = i
    BY <1>2, <1>3, IndexIs
  <2>6. Index(actions, actions[j]) = j
    BY <1>2, <1>3, IndexIs
  <2> QED
    BY <2>2, <2>4, <2>5, <2>6
<1>7. Respects(actions, deps)
  BY <1>4, <1>6 DEF Respects
<1> QED
  BY <1>1, <1>5, <1>7 DEF Orderable

\* More evidence keeps every dependency that stands on evidence.
LEMMA DependenciesGrow ==
    ASSUME NEW X, NEW R \in Seq(Seq(X)), NEW Q \in Seq(Seq(X)), Grown(R, Q),
           NEW stated, Forward(ActionOrder(R), R) # {},
           NEW a \in ToSet(ActionOrder(R))
    PROVE  Dependencies(ActionOrder(R), R, stated)[a]
               \subseteq Dependencies(ActionOrder(Q), Q, stated)[a]
<1>1. PICK old : old = ActionOrder(R)
  OBVIOUS
<1>2. PICK new : new = ActionOrder(Q)
  OBVIOUS
<1>3. old \in Seq(ToSet(old)) /\ Distinct(old)
  BY <1>1, ActionOrderIs
<1>4. new \in Seq(ToSet(new)) /\ Distinct(new)
  BY <1>2, ActionOrderIs
<1>5. Extends(old, new)
  BY <1>1, <1>2, ActionOrderGrows
<1>6. \A b \in ToSet(old) : Index(new, b) = Index(old, b) /\ b \in ToSet(new)
  BY <1>3, <1>4, <1>5, IndexStays
<1>7. Forward(old, R) \subseteq Forward(new, Q)
  <2> SUFFICES ASSUME NEW e \in Forward(old, R)
               PROVE  e \in Forward(new, Q)
    OBVIOUS
  <2>1. e \in Succeeds(R) /\ Index(old, e[1]) < Index(old, e[2])
    BY DEF Forward
  <2>2. e[1] \in ToSet(old) /\ e[2] \in ToSet(old)
    BY <1>1, <2>1, SucceedsAreActions
  <2>3. e \in Succeeds(Q)
    BY <2>1, SucceedsGrow
  <2> QED
    BY <1>6, <2>1, <2>2, <2>3 DEF Forward
<1>8. Recorded(old, R) \subseteq Recorded(new, Q)
  BY <1>1, <1>7 DEF Recorded
<1>9. Stated(old, stated) \subseteq Stated(new, stated)
  BY <1>6 DEF Stated
<1>10. a \in ToSet(old) /\ a \in ToSet(new)
  BY <1>1, <1>6
<1> SUFFICES ASSUME NEW b \in Dependencies(old, R, stated)[a]
             PROVE  b \in Dependencies(new, Q, stated)[a]
  BY <1>1, <1>2
<1>11. PICK e \in Recorded(old, R) \cup Stated(old, stated) : e[1] = b /\ e[2] = a
  BY <1>10, DependenciesAre
<1>12. e \in Recorded(new, Q) \cup Stated(new, stated)
  BY <1>8, <1>9
<1> QED
  BY <1>10, <1>11, <1>12, DependenciesAre

-----------------------------------------------------------------------------
(***************************************************************************)
(* The detector that decides.                                              *)
(***************************************************************************)

Scores == 70..98 \cup {100}

\* A detector shows nothing or one pattern, and is either certain or below 99.
Sure(found) ==
    found = {} \/ \E d : found = {d} /\ d.score \in Scores

\* By the one operator detectors answer with.
LEMMA ShowsSure ==
    ASSUME NEW when, NEW tier, NEW score \in Scores
    PROVE  Sure(Shows(when, tier, score))
<1>1. PICK d : d = [tier |-> tier, score |-> score]
  OBVIOUS
<1>2. d.score \in Scores
  BY <1>1
<1>3. Shows(when, tier, score) = {} \/ Shows(when, tier, score) = {d}
  BY <1>1 DEF Shows
<1> QED
  BY <1>2, <1>3 DEF Sure

\* Each of the six detectors is sure.
LEMMA DetectedSure ==
    ASSUME NEW s, NEW words
    PROVE  /\ DOMAIN Detected(s, words) = 1..6 /\ Len(Detected(s, words)) = 6
           /\ \A i \in 1..6 : Sure(Detected(s, words)[i])
<1>1. {98, 92, 85, 100, 95, 88, 80, 82, 90, 78} \subseteq Scores
  BY DEF Scores
<1>2. Sure(HttpCall(s, words))
  <2>1. PICK v : v = (CASE s.url = "absolute" /\ "http_name" \in words -> 98
                        [] s.url = "absolute" /\ ~("http_name" \in words) -> 92
                        [] OTHER -> 85)
    OBVIOUS
  <2>2. v \in Scores
    BY <1>1, <2>1
  <2>3. \E when, tier : HttpCall(s, words) = Shows(when, tier, v)
    BY <2>1, Zenon DEF HttpCall
  <2> QED
    BY <2>2, <2>3, ShowsSure
<1>3. Sure(Arithmetic(s, words))
  <2>1. PICK v : v = (CASE s.calc = "exact" -> 100 [] s.calc = "bound" -> 95
                        [] OTHER -> 88)
    OBVIOUS
  <2>2. v \in Scores
    BY <1>1, <2>1
  <2>3. \E when, tier : Arithmetic(s, words) = Shows(when, tier, v)
    BY <2>1, Zenon DEF Arithmetic
  <2> QED
    BY <2>2, <2>3, ShowsSure
<1>4. Sure(Formatting(s, words))
  <2>1. PICK v : v = (CASE s.text = "transform" -> 100
                        [] s.text = "template" -> 98
                        [] s.text = "one_variable" -> 88
                        [] OTHER -> 80)
    OBVIOUS
  <2>2. v \in Scores
    BY <1>1, <2>1
  <2>3. \E when, tier : Formatting(s, words) = Shows(when, tier, v)
    BY <2>1, Zenon DEF Formatting
  <2> QED
    BY <2>2, <2>3, ShowsSure
<1>5. Sure(Lookup(s, words))
  <2>1. PICK v : v = (CASE s.table = "hit" -> 100 [] s.table = "id" -> 92
                        [] OTHER -> 82)
    OBVIOUS
  <2>2. v \in Scores
    BY <1>1, <2>1
  <2>3. \E when, tier : Lookup(s, words) = Shows(when, tier, v)
    BY <2>1, Zenon DEF Lookup
  <2> QED
    BY <2>2, <2>3, ShowsSure
<1>6. Sure(Decision(s, words))
  <2>1. PICK v : v = (CASE "rule_name" \in words /\ s.decides -> 95
                        [] "rule_name" \in words /\ ~s.decides -> 90
                        [] OTHER -> 78)
    OBVIOUS
  <2>2. v \in Scores
    BY <1>1, <2>1
  <2>3. \E when, tier : Decision(s, words) = Shows(when, tier, v)
    BY <2>1, Zenon DEF Decision
  <2> QED
    BY <2>2, <2>3, ShowsSure
<1>7. Sure(Projection(s, words))
  <2>1. PICK v : v = (CASE s.copied = "all" -> 95
                        [] s.copied = "most" -> IF "transform" \in words THEN 95 ELSE 85
                        [] OTHER -> 80)
    OBVIOUS
  <2>2. v \in Scores
    BY <1>1, <2>1
  <2>3. \E when, tier : Projection(s, words) = Shows(when, tier, v)
    BY <2>1, Zenon DEF Projection
  <2> QED
    BY <2>2, <2>3, ShowsSure
<1> QED
  BY <1>2, <1>3, <1>4, <1>5, <1>6, <1>7 DEF Detected

\* The search over detectors found, in turn.
Searches(f, found) ==
    /\ f[0] = {}
    /\ \A n \in 1..Len(found) :
          f[n] = IF \E d \in f[n - 1] : d.score >= 99 THEN f[n - 1]
                 ELSE Better(f[n - 1], {d \in found[n] : d.score >= 70})

\* The recursion of Pattern defines a function, which is the search.
LEMMA PatternSearches ==
    ASSUME NEW s, NEW words, DOMAIN s.fields # {}
    PROVE  \E f : Searches(f, Detected(s, words)) /\ Pattern(s, words) = f[6]
<1>1. PICK found : found = Detected(s, words)
  OBVIOUS
<1>2. DOMAIN found = 1..6 /\ Len(found) = 6
  BY <1>1, DetectedSure
<1>3. PICK S : S = SUBSET UNION {found[i] : i \in 1..6}
  OBVIOUS
<1> DEFINE Found(f) == f = [n \in 0..Len(found) |->
               IF n = 0 THEN {}
               ELSE IF \E d \in f[n - 1] : d.score >= 99 THEN f[n - 1]
               ELSE Better(f[n - 1], {d \in found[n] : d.score >= 70})]
           step == [p \in (1..6) \X S |->
                       IF \E d \in p[2] : d.score >= 99 THEN p[2]
                       ELSE Better(p[2], {d \in found[p[1]] : d.score >= 70})]
<1>4. \E f : Found(f)
  <2>1. step \in [(1..6) \X S -> S]
    <3>1. \A n \in 1..6 : {d \in found[n] : d.score >= 70} \in S
      BY <1>3
    <3>2. \A b \in S, c \in S : Better(b, c) \in S
      BY DEF Better
    <3> QED
      BY <3>1, <3>2
  <2>2. {} \in S
    BY <1>3
  <2>3. PICK f \in [0..6 -> S] : Unrolls(f, {}, step, 6)
    <3> HIDE DEF step
    <3> QED
      BY <2>1, <2>2, UnrollingExists
  <2>4. \A n \in 0..6 : n # 0 =>
            step[<<n, f[n - 1]>>] = IF \E d \in f[n - 1] : d.score >= 99 THEN f[n - 1]
                                    ELSE Better(f[n - 1], {d \in found[n] : d.score >= 70})
    <3> SUFFICES ASSUME NEW n \in 0..6, n # 0
                 PROVE  step[<<n, f[n - 1]>>] =
                            IF \E d \in f[n - 1] : d.score >= 99 THEN f[n - 1]
                            ELSE Better(f[n - 1], {d \in found[n] : d.score >= 70})
      OBVIOUS
    <3>1. n \in 1..6 /\ n - 1 \in 0..6
      OBVIOUS
    <3>2. f[n - 1] \in S
      BY <3>1
    <3>3. <<n, f[n - 1]>> \in (1..6) \X S
      BY <3>1, <3>2
    <3> QED
      BY <3>3
  <2>5. f = [n \in 0..6 |-> IF n = 0 THEN {} ELSE step[<<n, f[n - 1]>>]]
    BY <2>3 DEF Unrolls
  <2>6. Found(f)
    <3> HIDE DEF step
    <3> QED
      BY <1>2, <2>4, <2>5
  <2> QED
    BY <2>6
<1>5. PICK f : f = CHOOSE g : Found(g)
  OBVIOUS
<1>6. Found(f)
  <2> HIDE DEF Found
  <2> QED
    BY <1>4, <1>5
<1>7. Pattern(s, words) = f[6]
  BY <1>1, <1>2, <1>5 DEF Pattern
<1>8. 0 \in 0..6 /\ \A n \in 1..6 : n \in 0..6 /\ n # 0
  OBVIOUS
<1>9. Searches(f, found)
  BY <1>2, <1>6, <1>8 DEF Searches
<1> QED
  BY <1>1, <1>7, <1>9

\* What the search has found among the first n detectors: nothing, or the pattern d
\* of detector k, which no other beats and no earlier one equals.
Leads(d, best, k, found, n) ==
    /\ best = {d} /\ found[k] = {d}
    /\ \A j \in 1..n : \A e \in found[j] :
          d.score >= e.score /\ (j < k => d.score > e.score)

BestAmong(best, found, n) ==
    \/ best = {} /\ \A i \in 1..n : found[i] = {}
    \/ \E k \in 1..n : \E d : Leads(d, best, k, found, n)

\* The early exit and the threshold of 70 hide nothing from the search.
LEMMA SearchFinds ==
    ASSUME NEW found, Len(found) = 6, \A i \in 1..6 : Sure(found[i]),
           NEW f, Searches(f, found)
    PROVE  BestAmong(f[6], found, 6)
<1> DEFINE T == {n \in 0..6 : BestAmong(f[n], found, n)}
<1>1. 0 \in T
  BY DEF Searches, BestAmong
<1>2. ASSUME NEW n \in 1..6, n - 1 \in T
      PROVE  n \in T
  <2>1. PICK b : b = f[n - 1]
    OBVIOUS
  <2>2. PICK new : new = found[n]
    OBVIOUS
  <2>3. BestAmong(b, found, n - 1)
    BY <1>2, <2>1
  <2>4. Sure(new)
    BY <2>2
  <2>5. {d \in new : d.score >= 70} = new
    BY <2>4 DEF Sure, Scores
  <2>6. f[n] = IF \E d \in b : d.score >= 99 THEN b ELSE Better(b, new)
    BY <2>1, <2>2, <2>5 DEF Searches
  <2>7. \A j \in 1..n : j = n \/ j \in 1..(n - 1)
    OBVIOUS
  <2>8. BestAmong(f[n], found, n)
    <3>1. CASE b = {}
      <4>1. f[n] = new
        BY <2>6, <3>1 DEF Better
      <4>2. \A i \in 1..(n - 1) : found[i] = {}
        BY <2>3, <3>1 DEF BestAmong, Leads
      <4>3. CASE new = {}
        BY <2>2, <2>7, <4>1, <4>2, <4>3 DEF BestAmong, Leads
      <4>4. CASE new # {}
        <5>1. PICK d : new = {d} /\ d.score \in Scores
          BY <2>4, <4>4 DEF Sure
        <5>2. \A j \in 1..n : \A e \in found[j] : j = n /\ e = d
          BY <2>2, <2>7, <4>2, <5>1
        <5>3. d.score >= d.score
          BY <5>1 DEF Scores
        <5>4. \A j \in 1..n : \A e \in found[j] :
                  d.score >= e.score /\ (j < n => d.score > e.score)
          BY <5>2, <5>3
        <5>5. n \in 1..n
          OBVIOUS
        <5> QED
          BY <2>2, <4>1, <5>1, <5>4, <5>5 DEF BestAmong, Leads
      <4> QED
        BY <4>3, <4>4
    <3>2. CASE b # {}
      <4>1. PICK k \in 1..(n - 1) : \E d : Leads(d, b, k, found, n - 1)
        BY <2>3, <3>2 DEF BestAmong
      <4>2. PICK d : /\ b = {d} /\ found[k] = {d}
                     /\ \A j \in 1..(n - 1) : \A e \in found[j] :
                           d.score >= e.score /\ (j < k => d.score > e.score)
        BY <4>1 DEF Leads
      <4>3. d.score \in Scores
        BY <4>2 DEF Sure
      <4>4. CASE f[n] = b /\ \A e \in new : d.score >= e.score
        <5>1. k \in 1..n /\ ~(n < k)
          OBVIOUS
        <5>2. \A j \in 1..n : \A e \in found[j] :
                  d.score >= e.score /\ (j < k => d.score > e.score)
          BY <2>2, <2>7, <4>2, <4>4, <5>1
        <5> QED
          BY <4>2, <4>4, <5>1, <5>2 DEF BestAmong, Leads
      <4>5. CASE f[n] # b \/ \E e \in new : ~(d.score >= e.score)
        <5>1. PICK c : new = {c} /\ c.score \in Scores
          BY <2>4, <2>6, <4>2, <4>5 DEF Sure, Better
        <5>2. f[n] = new /\ c.score > d.score
          BY <2>6, <4>2, <4>3, <4>5, <5>1 DEF Better, Scores
        <5>3. \A j \in 1..n : \A e \in found[j] :
                  c.score >= e.score /\ (j < n => c.score > e.score)
          <6> SUFFICES ASSUME NEW j \in 1..n, NEW e \in found[j]
                       PROVE  c.score >= e.score /\ (j < n => c.score > e.score)
            OBVIOUS
          <6>1. e.score \in Scores
            <7>1. Sure(found[j])
              OBVIOUS
            <7> QED
              BY <7>1 DEF Sure
          <6>2. CASE j = n
            <7>1. e = c
              BY <2>2, <5>1, <6>2
            <7>2. c.score >= c.score
              BY <5>1 DEF Scores
            <7> QED
              BY <6>2, <7>1, <7>2
          <6>3. CASE j \in 1..(n - 1)
            <7>1. d.score >= e.score
              BY <4>2, <6>3
            <7> QED
              BY <4>3, <5>1, <5>2, <6>1, <7>1 DEF Scores
          <6> QED
            BY <2>7, <6>2, <6>3
        <5>4. n \in 1..n
          OBVIOUS
        <5> QED
          BY <2>2, <5>1, <5>2, <5>3, <5>4 DEF BestAmong, Leads
      <4> QED
        BY <4>4, <4>5
    <3> QED
      BY <3>1, <3>2
  <2> QED
    BY <2>8
<1>3. \A n \in 0..6 : n \in T
  <2> HIDE DEF T
  <2> QED
    BY <1>1, <1>2, InductionTo
<1> QED
  BY <1>3

\* The search ends with the earliest best.
LEMMA PatternIsBest ==
    ASSUME NEW s, NEW words, DOMAIN s.fields # {}
    PROVE  Pattern(s, words) = EarliestBest(s, words)
<1>1. PICK found : found = Detected(s, words)
  OBVIOUS
<1>2. DOMAIN found = 1..6 /\ Len(found) = 6 /\ \A i \in 1..6 : Sure(found[i])
  BY <1>1, DetectedSure
<1>3. PICK f : Searches(f, found) /\ Pattern(s, words) = f[6]
  BY <1>1, PatternSearches
<1>4. BestAmong(f[6], found, 6)
  BY <1>2, <1>3, SearchFinds
<1> DEFINE best(i) == \A d \in found[i] : \A j \in 1..6 : \A e \in found[j] :
                          d.score >= e.score /\ (j < i => d.score > e.score)
<1>5. EarliestBest(s, words) = UNION {found[i] : i \in {j \in 1..6 : best(j)}}
  BY <1>1, <1>2 DEF EarliestBest
<1>6. CASE f[6] = {} /\ \A i \in 1..6 : found[i] = {}
  BY <1>3, <1>5, <1>6
<1>7. CASE f[6] # {}
  <2>1. PICK k \in 1..6 : \E d : Leads(d, f[6], k, found, 6)
    BY <1>4, <1>7 DEF BestAmong
  <2>2. PICK d : /\ f[6] = {d} /\ found[k] = {d}
                 /\ \A j \in 1..6 : \A e \in found[j] :
                       d.score >= e.score /\ (j < k => d.score > e.score)
    BY <2>1 DEF Leads
  <2>3. best(k)
    BY <2>2
  <2>4. ASSUME NEW i \in 1..6, best(i), NEW e \in found[i]
        PROVE  e = d
    <3>1. e.score \in Scores /\ d.score \in Scores
      BY <1>2, <2>2, <2>4 DEF Sure
    <3>2. e.score >= d.score /\ (k < i => e.score > d.score)
      BY <2>2, <2>4
    <3>3. d.score >= e.score /\ (i < k => d.score > e.score)
      BY <2>2, <2>4
    <3>4. i = k
      BY <3>1, <3>2, <3>3 DEF Scores
    <3> QED
      BY <2>2, <2>4, <3>4
  <2>5. UNION {found[i] : i \in {j \in 1..6 : best(j)}} = {d}
    <3> HIDE DEF best
    <3> QED
      BY <2>2, <2>3, <2>4
  <2> QED
    BY <1>3, <1>5, <2>2, <2>5
<1> QED
  BY <1>4, <1>6, <1>7 DEF BestAmong, Leads

-----------------------------------------------------------------------------
(***************************************************************************)
(* The invariant: what was compiled is the compilation of runs that have   *)
(* only been recorded on since, under the contracts there still are.       *)
(***************************************************************************)

RecordedStep ==
    {Joined([exact |-> e, plain |-> p], StepOf(t)) :
        e \in BOOLEAN, p \in BOOLEAN, t \in Turn}

RunsAreRecorded == runs \in Seq(Seq(RecordedStep)) /\ runs # <<>>

CompilationStands ==
    ir.status # "none" =>
        /\ ir.of \in Seq(Seq(RecordedStep)) /\ Grown(ir.of, runs)
        /\ ir.actions = ActionOrder(ir.of)
        /\ ir.deps = Dependencies(ir.actions, ir.of, StatedBy(behaviors))
        /\ ir.status = IF IrAccepts(ir.actions, ir.deps) THEN "ok" ELSE "rejected"
        /\ ir.order = TopologicalSort(ir.actions, ir.deps)
        /\ ir.tier = [a \in ToSet(ir.actions) |->
                        Lowered(a, StepsOf(ir.of, a), WordsOf(a),
                                GovernedBy(behaviors, a, WordsOf(a)))]

IInv == RunsAreRecorded /\ CompilationStands

\* Recording a step in the last run.
LEMMA RecordingOn ==
    ASSUME NEW X, NEW R \in Seq(Seq(X)), R # <<>>, NEW s \in X
    PROVE  LET Q == [R EXCEPT ![Len(R)] = Append(@, s)]
           IN  Q \in Seq(Seq(X)) /\ Q # <<>> /\ Grown(R, Q)
<1>1. PICK N \in Nat : N = Len(R)
  OBVIOUS
<1>2. N # 0
  BY <1>1, EmptySeq
<1>3. PICK Q : Q = [R EXCEPT ![Len(R)] = Append(@, s)]
  OBVIOUS
<1>4. N \in 1..N /\ R[N] \in Seq(X)
  BY <1>1, <1>2
<1>5. Append(R[N], s) \in Seq(X)
  BY <1>4
<1>6. /\ Q \in Seq(Seq(X)) /\ Len(Q) = N
      /\ Q[N] = Append(R[N], s)
      /\ \A i \in 1..N : i # N => Q[i] = R[i]
  BY <1>1, <1>3, <1>4, <1>5
<1>7. Q # <<>>
  BY <1>2, <1>6, EmptySeq
<1>8. \A i \in 1..N : R[i] \in Seq(X)
  BY <1>1
<1>9. Extends(R[N], Q[N])
  BY <1>4, <1>6 DEF Extends
<1>10. \A i \in 1..N : Extends(R[i], R[i])
  BY <1>8, ExtendsItself
<1>11. ASSUME NEW i \in 1..N
       PROVE  Extends(R[i], Q[i]) /\ (i < N => R[i] = Q[i])
  <2>1. CASE i = N
    BY <1>9, <2>1
  <2>2. CASE i # N
    BY <1>6, <1>10, <2>2
  <2> QED
    BY <2>1, <2>2
<1>12. Grown(R, Q)
  BY <1>1, <1>6, <1>11 DEF Grown
<1> QED
  BY <1>3, <1>6, <1>7, <1>12

\* Beginning another run.
LEMMA BeginningARun ==
    ASSUME NEW X, NEW R \in Seq(Seq(X))
    PROVE  /\ Append(R, <<>>) \in Seq(Seq(X)) /\ Append(R, <<>>) # <<>>
           /\ Grown(R, Append(R, <<>>))
<1>1. PICK none : none = <<>>
  OBVIOUS
<1>2. none \in Seq(X)
  BY <1>1
<1>3. PICK Q : Q = Append(R, none)
  OBVIOUS
<1>4. PICK N \in Nat : N = Len(R)
  OBVIOUS
<1>5. Q \in Seq(Seq(X)) /\ Len(Q) = N + 1 /\ \A i \in 1..N : Q[i] = R[i]
  BY <1>2, <1>3, <1>4
<1>6. Q # none
  BY <1>1, <1>4, <1>5, EmptySeq
<1>7. \A i \in 1..N : Extends(R[i], R[i])
  <2>1. \A i \in 1..N : R[i] \in Seq(X)
    BY <1>4
  <2> QED
    BY <2>1, ExtendsItself
<1>8. Grown(R, Q)
  BY <1>4, <1>5, <1>7 DEF Grown
<1> QED
  BY <1>1, <1>3, <1>5, <1>6, <1>8

\* Runs that grew and grew again have grown.
LEMMA GrownOn ==
    ASSUME NEW X, NEW R \in Seq(Seq(X)), NEW Q \in Seq(Seq(X)), NEW P \in Seq(Seq(X)),
           Grown(R, Q), Grown(Q, P)
    PROVE  Grown(R, P)
<1>1. PICK L \in Nat : L = Len(R)
  OBVIOUS
<1>2. PICK M \in Nat : M = Len(Q)
  OBVIOUS
<1>3. PICK N \in Nat : N = Len(P)
  OBVIOUS
<1>4. /\ L <= M /\ M <= N
      /\ \A i \in 1..L : Extends(R[i], Q[i]) /\ (i < L => R[i] = Q[i])
      /\ \A i \in 1..M : Extends(Q[i], P[i]) /\ (i < M => Q[i] = P[i])
  BY <1>1, <1>2, <1>3 DEF Grown
<1>5. ASSUME NEW i \in 1..L
      PROVE  Extends(R[i], P[i]) /\ (i < L => R[i] = P[i])
  <2>1. i \in 1..M /\ i \in 1..N
    BY <1>4
  <2>2. R[i] \in Seq(X)
    BY <1>1
  <2>3. Q[i] \in Seq(X)
    BY <1>2, <2>1
  <2>4. P[i] \in Seq(X)
    BY <1>3, <2>1
  <2>5. Extends(R[i], Q[i]) /\ Extends(Q[i], P[i])
    BY <1>4, <2>1
  <2>6. Extends(R[i], P[i])
    BY <2>2, <2>3, <2>4, <2>5, ExtendsOn
  <2> QED
    BY <1>4, <2>1, <2>6
<1> QED
  BY <1>1, <1>3, <1>4, <1>5 DEF Grown

\* Nothing recorded is nothing lost.
LEMMA GrownItself ==
    ASSUME NEW X, NEW R \in Seq(Seq(X))
    PROVE  Grown(R, R)
<1>1. \A i \in 1..Len(R) : R[i] \in Seq(X)
  OBVIOUS
<1>2. \A i \in 1..Len(R) : Extends(R[i], R[i])
  BY <1>1, ExtendsItself
<1> QED
  BY <1>2 DEF Grown

\* Before anything is compiled there is nothing to stand.
LEMMA InitEstablishes == Init => IInv
<1> SUFFICES ASSUME Init
             PROVE  IInv
  OBVIOUS
<1>1. PICK none : none = <<>>
  OBVIOUS
<1>2. none \in Seq(RecordedStep)
  BY <1>1
<1>3. runs = <<none>>
  BY <1>1 DEF Init
<1>4. <<none>> \in Seq(Seq(RecordedStep)) /\ Len(<<none>>) = 1
  BY <1>2
<1>5. runs # <<>>
  BY <1>3, <1>4, EmptySeq
<1>6. ir.status = "none"
  BY DEF Init, Nothing
<1> QED
  BY <1>3, <1>4, <1>5, <1>6 DEF IInv, RunsAreRecorded, CompilationStands

\* Recording only adds to the runs; the compilation it leaves still stands.
LEMMA RecordingKeeps ==
    ASSUME IInv, runs' \in Seq(Seq(RecordedStep)), runs' # <<>>, Grown(runs, runs'),
           UNCHANGED <<behaviors, ir>>
    PROVE  IInv'
<1>1. RunsAreRecorded'
  BY DEF RunsAreRecorded
<1>2. ASSUME ir.status # "none"
      PROVE  Grown(ir.of, runs')
  <2>1. ir.of \in Seq(Seq(RecordedStep)) /\ Grown(ir.of, runs)
    BY <1>2 DEF IInv, CompilationStands
  <2>2. runs \in Seq(Seq(RecordedStep))
    BY DEF IInv, RunsAreRecorded
  <2> QED
    BY <2>1, <2>2, GrownOn
<1>3. CompilationStands'
  BY <1>2 DEF IInv, CompilationStands
<1> QED
  BY <1>1, <1>3 DEF IInv

\* Recording leaves what was compiled, compiling takes the present runs.
LEMMA NextPreserves == IInv /\ [Next]_vars => IInv'
<1> SUFFICES ASSUME IInv, [Next]_vars
             PROVE  IInv'
  OBVIOUS
<1>1. runs \in Seq(Seq(RecordedStep)) /\ runs # <<>>
  BY DEF IInv, RunsAreRecorded
<1>2. ASSUME NEW t \in Turn, Record(t)
      PROVE  IInv'
  <2>1. PICK s : s = Joined([exact |-> Exact(t), plain |-> Plain(t)], StepOf(t))
    OBVIOUS
  <2>2. s \in RecordedStep
    <3>1. Exact(t) \in BOOLEAN /\ Plain(t) \in BOOLEAN
      BY DEF Exact, Plain
    <3> QED
      BY <2>1, <3>1 DEF RecordedStep
  <2>3. runs' = [runs EXCEPT ![Len(runs)] = Append(@, s)]
    BY <1>2, <2>1 DEF Record
  <2>4. runs' \in Seq(Seq(RecordedStep)) /\ runs' # <<>> /\ Grown(runs, runs')
    BY <1>1, <2>2, <2>3, RecordingOn
  <2>5. UNCHANGED <<behaviors, ir>>
    BY <1>2 DEF Record
  <2> QED
    BY <2>4, <2>5, RecordingKeeps
<1>3. ASSUME NextRun
      PROVE  IInv'
  <2>1. runs' = Append(runs, <<>>) /\ UNCHANGED <<behaviors, ir>>
    BY <1>3 DEF NextRun
  <2>2. runs' \in Seq(Seq(RecordedStep)) /\ runs' # <<>> /\ Grown(runs, runs')
    BY <1>1, <2>1, BeginningARun
  <2> QED
    BY <2>1, <2>2, RecordingKeeps
<1>4. ASSUME Compile
      PROVE  IInv'
  <2>1. ir' = Compilation /\ UNCHANGED <<runs, behaviors>>
    BY <1>4 DEF Compile
  <2>2. RunsAreRecorded'
    BY <1>1, <2>1 DEF RunsAreRecorded
  <2>3. Grown(runs, runs)
    BY <1>1, GrownItself
  <2>4. /\ ir'.of = runs
        /\ ir'.actions = ActionOrder(runs)
        /\ ir'.deps = Dependencies(ir'.actions, runs, StatedBy(behaviors))
        /\ ir'.status = IF IrAccepts(ir'.actions, ir'.deps) THEN "ok" ELSE "rejected"
        /\ ir'.order = TopologicalSort(ir'.actions, ir'.deps)
        /\ ir'.tier = [a \in ToSet(ir'.actions) |-> Tier(a)]
    BY <2>1 DEF Compilation
  <2>5. CompilationStands'
    BY <1>1, <2>1, <2>3, <2>4 DEF CompilationStands, Tier
  <2> QED
    BY <2>2, <2>5 DEF IInv
<1>5. ASSUME UNCHANGED <<runs, behaviors, ir>>
      PROVE  IInv'
  BY <1>5 DEF IInv, RunsAreRecorded, CompilationStands
<1> QED
  BY <1>2, <1>3, <1>4, <1>5 DEF Next, Start, ReplayStep, Crash, vars

\* What was compiled is at any time the compilation of runs that have only been
\* recorded on since.
THEOREM CompilationIsInvariant == Spec => []IInv
BY InitEstablishes, NextPreserves, PTL DEF Spec

-----------------------------------------------------------------------------
\* A compilation is accepted exactly when some order of its actions honours
\* every dependency; then topological_sort gives such an order, and the
\* engine's _validate_work_definition accepts the same graphs.
THEOREM AcceptedExactlyWhenOrderableHolds == Spec => []AcceptedExactlyWhenOrderable
<1>1. ASSUME IInv
      PROVE  AcceptedExactlyWhenOrderable
  <2> SUFFICES ASSUME ir.status # "none"
               PROVE  /\ (ir.status = "ok") = Orderable(ir.actions, ir.deps)
                      /\ EngineAccepts(ir.actions, ir.deps) = (ir.status = "ok")
                      /\ ir.status = "ok" => Respects(ir.order, ir.deps)
    BY DEF AcceptedExactlyWhenOrderable
  <2>1. /\ ir.of \in Seq(Seq(RecordedStep))
        /\ ir.actions = ActionOrder(ir.of)
        /\ ir.deps = Dependencies(ir.actions, ir.of, StatedBy(behaviors))
        /\ ir.status = IF IrAccepts(ir.actions, ir.deps) THEN "ok" ELSE "rejected"
        /\ ir.order = TopologicalSort(ir.actions, ir.deps)
    BY <1>1 DEF IInv, CompilationStands
  <2>2. Graph(ir.actions, ir.deps)
    BY <2>1, DependenciesAreAGraph
  <2>3. /\ IrAccepts(ir.actions, ir.deps) <=> Orderable(ir.actions, ir.deps)
        /\ EngineAccepts(ir.actions, ir.deps) <=> Orderable(ir.actions, ir.deps)
        /\ Respects(ir.order, ir.deps)
    BY <2>1, <2>2, BothAcceptTheOrderable
  <2>4. ir.status = "ok" <=> IrAccepts(ir.actions, ir.deps)
    BY <2>1
  <2>5. ir.status = "ok" <=> Orderable(ir.actions, ir.deps)
    BY <2>3, <2>4
  <2>6. (ir.status = "ok") = Orderable(ir.actions, ir.deps)
    BY <2>5 DEF Orderable
  <2>7. EngineAccepts(ir.actions, ir.deps) = (ir.status = "ok")
    BY <2>3, <2>5 DEF EngineAccepts
  <2> QED
    BY <2>3, <2>6, <2>7
<1> QED
  BY <1>1, CompilationIsInvariant, PTL

\* Whatever loops and reversals the recorded runs hold, without a stated
\* ordering their compilation is accepted.
THEOREM LoopsCompileHolds == Spec => []LoopsCompile
<1>1. ASSUME IInv
      PROVE  LoopsCompile
  <2> SUFFICES ASSUME StatedBy(behaviors) = {}, ir.status # "none"
               PROVE  ir.status # "rejected"
    BY DEF LoopsCompile
  <2>1. /\ ir.of \in Seq(Seq(RecordedStep))
        /\ ir.actions = ActionOrder(ir.of)
        /\ ir.deps = Dependencies(ir.actions, ir.of, {})
        /\ ir.status = IF IrAccepts(ir.actions, ir.deps) THEN "ok" ELSE "rejected"
    BY <1>1 DEF IInv, CompilationStands
  <2>2. Graph(ir.actions, ir.deps)
    BY <2>1, DependenciesAreAGraph
  <2>3. Orderable(ir.actions, ir.deps)
    BY <2>1, RecordingsAreOrderable
  <2>4. IrAccepts(ir.actions, ir.deps)
    BY <2>2, <2>3, BothAcceptTheOrderable
  <2> QED
    BY <2>1, <2>4
<1> QED
  BY <1>1, CompilationIsInvariant, PTL

\* Compiling again from more evidence keeps every dependency that stood on
\* recorded succession or a contract.
THEOREM EvidenceGrowsHolds == Spec => EvidenceGrows
<1>1. ASSUME IInv, Compile, ir.status # "none", Forward(ir.actions, ir.of) # {},
             NEW a \in ToSet(ir.actions)
      PROVE  ir.deps[a] \subseteq ir'.deps[a]
  <2>1. /\ ir.of \in Seq(Seq(RecordedStep)) /\ Grown(ir.of, runs)
        /\ ir.actions = ActionOrder(ir.of)
        /\ ir.deps = Dependencies(ir.actions, ir.of, StatedBy(behaviors))
    BY <1>1 DEF IInv, CompilationStands
  <2>2. runs \in Seq(Seq(RecordedStep))
    BY <1>1 DEF IInv, RunsAreRecorded
  <2>3. ir'.deps = Dependencies(ActionOrder(runs), runs, StatedBy(behaviors))
    BY <1>1 DEF Compile, Compilation
  <2>4. Dependencies(ActionOrder(ir.of), ir.of, StatedBy(behaviors))[a]
            \subseteq Dependencies(ActionOrder(runs), runs, StatedBy(behaviors))[a]
    BY <1>1, <2>1, <2>2, DependenciesGrow
  <2> QED
    BY <2>1, <2>3, <2>4
<1>2. IInv => [Compile /\ ir.status # "none" /\ Forward(ir.actions, ir.of) # {}
               => \A a \in ToSet(ir.actions) : ir.deps[a] \subseteq ir'.deps[a]]_vars
  BY <1>1
<1> QED
  BY <1>2, CompilationIsInvariant, PTL DEF EvidenceGrows

\* The detector that decides about a step with output is the most confident
\* one, the most specific of those when several are.
THEOREM PatternIsEarliestBestHolds == Spec => []PatternIsEarliestBest
<1>1. PatternIsEarliestBest
  BY PatternIsBest DEF PatternIsEarliestBest
<1> QED
  BY <1>1, PTL

-----------------------------------------------------------------------------
(***************************************************************************)
(* One thing done after another.                                           *)
(***************************************************************************)

\* One step of each of the model's recursions along a sequence.
Does(op, a, st, x) ==
    CASE op = "hunk"    -> ApplyHunk(st, x)
      [] op = "edit"    -> EditHunk(st, x)
      [] op = "block"   -> ApplyBlock(st, x)
      [] op = "command" -> Shell(st, x)
      [] op = "call"    -> Live(st, x)
      [] op = "named"   -> IF x.action = a THEN Append(st, x) ELSE st
      [] op = "alone"   -> Alone(x, st).files
      [] op = "bench"   -> BenchStep(st, x[1], x[2])

\* f is what becomes of init along s.
Along(f, op, a, init, s) ==
    f = [n \in 0..Len(s) |-> IF n = 0 THEN init ELSE Does(op, a, f[n - 1], s[n])]

\* Each recursion along a sequence defines a function.
LEMMA AlongExists ==
    ASSUME NEW op, NEW a, NEW init, NEW s, Len(s) \in Nat
    PROVE  \E f : Along(f, op, a, init, s)
<1>1. PICK N \in Nat : N = Len(s)
  OBVIOUS
<1> DEFINE To(f, m) == f = [n \in 0..m |-> IF n = 0 THEN init
                                           ELSE Does(op, a, f[n - 1], s[n])]
           T == {m \in 0..N : \E f : To(f, m)}
<1>2. 0 \in T
  <2>1. PICK f : f = [n \in 0..0 |-> init]
    OBVIOUS
  <2>2. \A n \in 0..0 : f[n] = IF n = 0 THEN init ELSE Does(op, a, f[n - 1], s[n])
    BY <2>1
  <2>3. f = [n \in 0..0 |-> f[n]]
    BY <2>1
  <2>4. To(f, 0)
    BY <2>2, <2>3
  <2> QED
    BY <2>4
<1>3. ASSUME NEW m \in 1..N, m - 1 \in T
      PROVE  m \in T
  <2>1. PICK g : To(g, m - 1)
    BY <1>3
  <2> DEFINE f == [n \in 0..m |-> IF n = 0 THEN init ELSE Does(op, a, g[n - 1], s[n])]
  <2>2. \A n \in 0..m : n # 0 => n \in 1..N /\ n - 1 \in 0..(m - 1) /\ n - 1 \in 0..m
    OBVIOUS
  <2>3. \A n \in 0..(m - 1) : f[n] = g[n]
    <3>1. \A n \in 0..(m - 1) : n \in 0..m
      OBVIOUS
    <3> QED
      BY <2>1, <3>1
  <2>4. \A n \in 0..m : n # 0 => f[n - 1] = g[n - 1]
    BY <2>2, <2>3
  <2>5. PICK h : h = f
    OBVIOUS
  <2>6. /\ h = [n \in 0..m |-> h[n]]
        /\ \A n \in 0..m : h[n] = IF n = 0 THEN init ELSE Does(op, a, h[n - 1], s[n])
    BY <2>4, <2>5
  <2>7. To(h, m)
    BY <2>6
  <2> QED
    BY <2>7
<1>4. \A n \in 0..N : n \in T
  <2> HIDE DEF T
  <2> QED
    BY <1>2, <1>3, InductionTo
<1>5. PICK f : To(f, Len(s))
  BY <1>1, <1>4
<1>6. Along(f, op, a, init, s)
  BY <1>5, Zenon DEF Along
<1> QED
  BY <1>6

\* The replacements of a block, one after the other.
HunksAlong(f, text, hunks, N) ==
    /\ f[0] = [text |-> text, status |-> "written"]
    /\ \A n \in 1..N : f[n] = ApplyHunk(f[n - 1], hunks[n])
    /\ Hunks(text, hunks) = f[N]

\* Replacing the hunks of a block passes through a sequence of texts, one per hunk.
LEMMA HunksGo ==
    ASSUME NEW text, NEW hunks, NEW N \in Nat, N = Len(hunks)
    PROVE  \E f : HunksAlong(f, text, hunks, N)
<1> DEFINE init == [text |-> text, status |-> "written"]
           Is(f) == f = [n \in 0..N |->
                           IF n = 0 THEN init ELSE ApplyHunk(f[n - 1], hunks[n])]
<1>1. ASSUME NEW f PROVE Along(f, "hunk", 0, init, hunks) <=> Is(f)
  BY DEF Along, Does
<1>2. PICK f : f = CHOOSE g : Is(g)
  OBVIOUS
<1>3. Is(f)
  <2> HIDE DEF Is, init
  <2> QED
    BY <1>1, <1>2, AlongExists
<1>4. 0 \in 0..N /\ \A n \in 1..N : n \in 0..N /\ n # 0
  OBVIOUS
<1>5. f[0] = init /\ \A n \in 1..N : f[n] = ApplyHunk(f[n - 1], hunks[n])
  BY <1>3, <1>4, Zenon
<1>6. Hunks(text, hunks) = f[N]
  BY <1>2 DEF Hunks
<1> QED
  BY <1>5, <1>6 DEF HunksAlong

\* The replacements of an agent's edit, one after the other.
LEMMA EditGoes ==
    ASSUME NEW text, NEW hunks, Len(hunks) \in Nat
    PROVE  \E f : /\ f[0] = [text |-> text, failed |-> FALSE]
                  /\ \A n \in 1..Len(hunks) : f[n] = EditHunk(f[n - 1], hunks[n])
                  /\ Edited(text, hunks) = f[Len(hunks)]
<1> DEFINE init == [text |-> text, failed |-> FALSE]
           Is(f) == f = [n \in 0..Len(hunks) |->
                           IF n = 0 THEN init ELSE EditHunk(f[n - 1], hunks[n])]
<1>1. ASSUME NEW f PROVE Along(f, "edit", 0, init, hunks) <=> Is(f)
  BY DEF Along, Does
<1>2. PICK f : f = CHOOSE g : Is(g)
  OBVIOUS
<1>3. Is(f)
  <2> HIDE DEF Is, init
  <2> QED
    BY <1>1, <1>2, AlongExists
<1>4. 0 \in 0..Len(hunks) /\ \A n \in 1..Len(hunks) : n \in 0..Len(hunks) /\ n # 0
  OBVIOUS
<1>5. f[0] = init /\ \A n \in 1..Len(hunks) : f[n] = EditHunk(f[n - 1], hunks[n])
  BY <1>3, <1>4, Zenon
<1>6. Edited(text, hunks) = f[Len(hunks)]
  BY <1>2 DEF Edited
<1> QED
  BY <1>5, <1>6

\* The blocks of a patch, one after the other.
LEMMA PatchGoes ==
    ASSUME NEW before, NEW patch, Len(patch) \in Nat
    PROVE  \E f : /\ f[0] = [files |-> before, failed |-> FALSE]
                  /\ \A n \in 1..Len(patch) : f[n] = ApplyBlock(f[n - 1], patch[n])
                  /\ ApplyPatch(before, patch) = f[Len(patch)]
<1> DEFINE init == [files |-> before, failed |-> FALSE]
           Is(f) == f = [n \in 0..Len(patch) |->
                           IF n = 0 THEN init ELSE ApplyBlock(f[n - 1], patch[n])]
<1>1. ASSUME NEW f PROVE Along(f, "block", 0, init, patch) <=> Is(f)
  BY DEF Along, Does
<1>2. PICK f : f = CHOOSE g : Is(g)
  OBVIOUS
<1>3. Is(f)
  <2> HIDE DEF Is, init
  <2> QED
    BY <1>1, <1>2, AlongExists
<1>4. 0 \in 0..Len(patch) /\ \A n \in 1..Len(patch) : n \in 0..Len(patch) /\ n # 0
  OBVIOUS
<1>5. f[0] = init /\ \A n \in 1..Len(patch) : f[n] = ApplyBlock(f[n - 1], patch[n])
  BY <1>3, <1>4, Zenon
<1>6. ApplyPatch(before, patch) = f[Len(patch)]
  BY <1>2 DEF ApplyPatch
<1> QED
  BY <1>5, <1>6

\* Commands, one after the other.
CommandsAlong(f, before, cmds, N) ==
    /\ f[0] = before
    /\ \A n \in 1..N : f[n] = Shell(f[n - 1], cmds[n])
    /\ RunCommands(before, cmds) = f[N]

\* Running commands passes through a sequence of workspaces, one per command.
LEMMA CommandsGo ==
    ASSUME NEW before, NEW cmds, NEW N \in Nat, N = Len(cmds)
    PROVE  \E f : CommandsAlong(f, before, cmds, N)
<1> DEFINE init == before
           Is(f) == f = [n \in 0..N |->
                           IF n = 0 THEN init ELSE Shell(f[n - 1], cmds[n])]
<1>1. ASSUME NEW f PROVE Along(f, "command", 0, init, cmds) <=> Is(f)
  BY DEF Along, Does
<1>2. PICK f : f = CHOOSE g : Is(g)
  OBVIOUS
<1>3. Is(f)
  <2> HIDE DEF Is, init
  <2> QED
    BY <1>1, <1>2, AlongExists
<1>4. 0 \in 0..N /\ \A n \in 1..N : n \in 0..N /\ n # 0
  OBVIOUS
<1>5. f[0] = init /\ \A n \in 1..N : f[n] = Shell(f[n - 1], cmds[n])
  BY <1>3, <1>4, Zenon
<1>6. RunCommands(before, cmds) = f[N]
  BY <1>2 DEF RunCommands
<1> QED
  BY <1>5, <1>6 DEF CommandsAlong

\* The calls of a turn, one after the other.
LEMMA CallsGo ==
    ASSUME NEW before, NEW calls, Len(calls) \in Nat
    PROVE  \E f : /\ f[0] = [files |-> before, failed |-> FALSE]
                  /\ \A n \in 1..Len(calls) : f[n] = Live(f[n - 1], calls[n])
                  /\ Played(before, calls) = f[Len(calls)]
<1> DEFINE init == [files |-> before, failed |-> FALSE]
           Is(f) == f = [n \in 0..Len(calls) |->
                           IF n = 0 THEN init ELSE Live(f[n - 1], calls[n])]
<1>1. ASSUME NEW f PROVE Along(f, "call", 0, init, calls) <=> Is(f)
  BY DEF Along, Does
<1>2. PICK f : f = CHOOSE g : Is(g)
  OBVIOUS
<1>3. Is(f)
  <2> HIDE DEF Is, init
  <2> QED
    BY <1>1, <1>2, AlongExists
<1>4. 0 \in 0..Len(calls) /\ \A n \in 1..Len(calls) : n \in 0..Len(calls) /\ n # 0
  OBVIOUS
<1>5. f[0] = init /\ \A n \in 1..Len(calls) : f[n] = Live(f[n - 1], calls[n])
  BY <1>3, <1>4, Zenon
<1>6. Played(before, calls) = f[Len(calls)]
  BY <1>2 DEF Played
<1> QED
  BY <1>5, <1>6

\* The benchmark, step by step.
LEMMA BenchmarkGoes ==
    ASSUME NEW run, NEW N \in Nat, N = Len(run)
    PROVE  \E f : /\ f[0] = [files |-> Workspace, match |-> TRUE]
                  /\ \A n \in 1..N : f[n] = BenchStep(f[n - 1], run[n], answers[n])
                  /\ Benchmark(run) = f[N]
<1>1. PICK pairs : pairs = [n \in 1..N |-> <<run[n], answers[n]>>]
  OBVIOUS
<1>2. Len(pairs) = N /\ \A n \in 1..N : pairs[n][1] = run[n] /\ pairs[n][2] = answers[n]
  BY <1>1
<1> DEFINE init == [files |-> Workspace, match |-> TRUE]
           Is(f) == f = [n \in 0..Len(run) |->
                           IF n = 0 THEN init ELSE BenchStep(f[n - 1], run[n], answers[n])]
<1>3. ASSUME NEW f PROVE Along(f, "bench", 0, init, pairs) <=> Is(f)
  <2>1. \A n \in 0..N : n # 0 =>
           Does("bench", 0, f[n - 1], pairs[n]) = BenchStep(f[n - 1], run[n], answers[n])
    <3>1. \A st, x : Does("bench", 0, st, x) = BenchStep(st, x[1], x[2])
      BY DEF Does
    <3> QED
      BY <1>2, <3>1
  <2>2. [n \in 0..Len(pairs) |-> IF n = 0 THEN init ELSE Does("bench", 0, f[n - 1], pairs[n])]
          = [n \in 0..Len(run) |-> IF n = 0 THEN init
                                   ELSE BenchStep(f[n - 1], run[n], answers[n])]
    <3> HIDE DEF init
    <3> QED
      BY <1>2, <2>1
  <2> HIDE DEF init
  <2> QED
    BY <2>2, Zenon DEF Along
<1>4. PICK f : f = CHOOSE g : Is(g)
  OBVIOUS
<1>5. Is(f)
  <2>1. Len(pairs) \in Nat
    BY <1>2
  <2> HIDE DEF Is, init
  <2> QED
    BY <1>3, <1>4, <2>1, AlongExists
<1>6. 0 \in 0..Len(run) /\ \A n \in 1..N : n \in 0..Len(run) /\ n # 0
  OBVIOUS
<1>7. f[0] = init /\ \A n \in 1..N : f[n] = BenchStep(f[n - 1], run[n], answers[n])
  BY <1>5, <1>6, Zenon
<1>8. Benchmark(run) = f[Len(run)]
  BY <1>4 DEF Benchmark
<1> QED
  BY <1>7, <1>8

-----------------------------------------------------------------------------
(***************************************************************************)
(* Workspaces, path by path.                                               *)
(***************************************************************************)

\* What is at a path: the text of a file, or nothing.
At(f, p) == IF p \in DOMAIN f THEN {f[p]} ELSE {}

\* A set of files, and nothing else.
AreFiles(f) == f = [p \in DOMAIN f |-> f[p]]

\* Workspaces with the same at every path are the same.
LEMMA SameEverywhere ==
    ASSUME NEW f, NEW g, AreFiles(f), AreFiles(g), \A p : At(f, p) = At(g, p)
    PROVE  f = g
<1>1. \A p : p \in DOMAIN f <=> p \in DOMAIN g
  BY DEF At
<1>2. \A p \in DOMAIN f : f[p] = g[p]
  BY <1>1 DEF At
<1>3. DOMAIN f = DOMAIN g
  BY <1>1
<1> QED
  BY <1>2, <1>3 DEF AreFiles

\* Writing a file, and removing one.
LEMMA WrittenAt ==
    ASSUME NEW f, NEW q, NEW text
    PROVE  /\ AreFiles(Written(f, q, text))
           /\ At(Written(f, q, text), q) = {text}
           /\ \A p : p # q => At(Written(f, q, text), p) = At(f, p)
<1>1. PICK w : w = Written(f, q, text)
  OBVIOUS
<1>2. /\ DOMAIN w = DOMAIN f \cup {q} /\ w = [p \in DOMAIN w |-> w[p]]
      /\ w[q] = text /\ \A p \in DOMAIN f : p # q => w[p] = f[p]
  BY <1>1 DEF Written
<1>3. AreFiles(w)
  BY <1>2 DEF AreFiles
<1>4. At(w, q) = {text}
  BY <1>2 DEF At
<1>5. \A p : p # q => At(w, p) = At(f, p)
  BY <1>2 DEF At
<1> QED
  BY <1>1, <1>3, <1>4, <1>5

\* Deleting a path empties that path and leaves every other path alone.
LEMMA WithoutAt ==
    ASSUME NEW f, NEW q
    PROVE  /\ AreFiles(Without(f, q))
           /\ At(Without(f, q), q) = {}
           /\ \A p : p # q => At(Without(f, q), p) = At(f, p)
<1>1. PICK w : w = Without(f, q)
  OBVIOUS
<1>2. /\ DOMAIN w = DOMAIN f \ {q} /\ w = [p \in DOMAIN w |-> w[p]]
      /\ \A p \in DOMAIN f : p # q => w[p] = f[p]
  BY <1>1 DEF Without
<1>3. AreFiles(w)
  BY <1>2 DEF AreFiles
<1>4. At(w, q) = {}
  BY <1>2 DEF At
<1>5. \A p : p # q => At(w, p) = At(f, p)
  BY <1>2 DEF At
<1> QED
  BY <1>1, <1>3, <1>4, <1>5

\* A command removes the file it is for, or nothing.
LEMMA ShellAt ==
    ASSUME NEW f, NEW c
    PROVE  /\ AreFiles(f) => AreFiles(Shell(f, c))
           /\ c.program = "rm" => At(Shell(f, c), c.path) = {}
           /\ \A p : ~(c.program = "rm" /\ c.path = p) => At(Shell(f, c), p) = At(f, p)
<1>1. CASE c.program = "rm"
  <2>1. Shell(f, c) = Without(f, c.path)
    BY <1>1 DEF Shell
  <2> QED
    BY <1>1, <2>1, WithoutAt
<1>2. CASE c.program # "rm"
  BY <1>2 DEF Shell
<1> QED
  BY <1>1, <1>2

\* Commands remove the files those of them that are rm are for, and nothing else.
LEMMA CommandsAt ==
    ASSUME NEW f, NEW cmds, Len(cmds) \in Nat
    PROVE  /\ AreFiles(f) => AreFiles(RunCommands(f, cmds))
           /\ \A p : At(RunCommands(f, cmds), p) =
                        IF \E k \in 1..Len(cmds) : cmds[k].program = "rm" /\ cmds[k].path = p
                        THEN {} ELSE At(f, p)
<1>1. PICK N \in Nat : N = Len(cmds)
  OBVIOUS
<1>2. PICK u : /\ u[0] = f /\ \A n \in 1..N : u[n] = Shell(u[n - 1], cmds[n])
               /\ RunCommands(f, cmds) = u[N]
  <2>1. PICK x : CommandsAlong(x, f, cmds, N)
    BY <1>1, CommandsGo
  <2> QED
    BY <2>1, Zenon DEF CommandsAlong
<1> DEFINE Gone(n, p) == \E k \in 1..n : cmds[k].program = "rm" /\ cmds[k].path = p
           T == {n \in 0..N : /\ AreFiles(f) => AreFiles(u[n])
                              /\ \A p : At(u[n], p) = IF Gone(n, p) THEN {} ELSE At(f, p)}
<1>3. 0 \in T
  BY <1>2
<1>4. ASSUME NEW n \in 1..N, n - 1 \in T
      PROVE  n \in T
  <2>1. u[n] = Shell(u[n - 1], cmds[n])
    BY <1>2
  <2>2. AreFiles(f) => AreFiles(u[n])
    BY <1>4, <2>1, ShellAt
  <2>3. ASSUME NEW p
        PROVE  At(u[n], p) = IF Gone(n, p) THEN {} ELSE At(f, p)
    <3>1. At(u[n - 1], p) = IF Gone(n - 1, p) THEN {} ELSE At(f, p)
      BY <1>4
    <3>2. Gone(n, p) <=> Gone(n - 1, p) \/ (cmds[n].program = "rm" /\ cmds[n].path = p)
      <4>1. \A k : k \in 1..n <=> k \in 1..(n - 1) \/ k = n
        OBVIOUS
      <4> QED
        BY <4>1
    <3>3. CASE cmds[n].program = "rm" /\ cmds[n].path = p
      <4>1. At(u[n], p) = {}
        BY <2>1, <3>3, ShellAt
      <4> HIDE DEF Gone
      <4> QED
        BY <3>2, <3>3, <4>1
    <3>4. CASE ~(cmds[n].program = "rm" /\ cmds[n].path = p)
      <4>1. At(u[n], p) = At(u[n - 1], p)
        BY <2>1, <3>4, ShellAt
      <4> HIDE DEF Gone
      <4> QED
        BY <3>1, <3>2, <3>4, <4>1
    <3> QED
      BY <3>3, <3>4
  <2> QED
    BY <2>2, <2>3
<1>5. N \in T
  <2>1. \A n \in 0..N : n \in T
    <3> HIDE DEF T
    <3> QED
      BY <1>3, <1>4, InductionTo
  <2> QED
    BY <2>1
<1> QED
  BY <1>1, <1>2, <1>5

\* The workspace and whether something failed.
IsOutcome(st) == st = [files |-> st.files, failed |-> st.failed] /\ st.failed \in BOOLEAN

\* A block of a patch.
IsBlock(b) == b.op \in {"Add", "Delete", "Update"} /\ b.hunks \in Seq(ToSet(b.hunks))

\* What a block makes of what is at its path.
Gives(b, before, after) ==
    \/ b.op = "Add" /\ after = {b.text}
    \/ b.op = "Delete" /\ after = {}
    \/ /\ b.op = "Update"
       /\ \E text : /\ before = {text} /\ Hunks(text, b.hunks).status # "error"
                    /\ after = {Hunks(text, b.hunks).text}

\* It makes one thing of it.
LEMMA GivesOne ==
    ASSUME NEW b, NEW before, NEW x, NEW y, Gives(b, before, x), Gives(b, before, y)
    PROVE  x = y
BY DEF Gives

\* A block acts at its path alone, unless it fails.
LEMMA BlockActs ==
    ASSUME NEW st, IsOutcome(st), NEW b, IsBlock(b)
    PROVE  LET done == ApplyBlock(st, b)
           IN  /\ IsOutcome(done)
               /\ st.failed => done.failed
               /\ AreFiles(st.files) => AreFiles(done.files)
               /\ ~done.failed =>
                     /\ Gives(b, At(st.files, b.path), At(done.files, b.path))
                     /\ \A p : p # b.path => At(done.files, p) = At(st.files, p)
               /\ ~st.failed /\ (\E x : Gives(b, At(st.files, b.path), x)) => ~done.failed
<1>1. PICK done : done = ApplyBlock(st, b)
  OBVIOUS
<1>2. CASE st.failed
  BY <1>1, <1>2 DEF ApplyBlock
<1>3. CASE ~st.failed /\ b.op = "Add"
  <2>1. PICK w : w = Written(st.files, b.path, b.text)
    OBVIOUS
  <2>2. done = [st EXCEPT !.files = w]
    BY <1>1, <1>3, <2>1 DEF ApplyBlock
  <2>3. done.files = w /\ done.failed = FALSE /\ IsOutcome(done)
    BY <1>3, <2>2 DEF IsOutcome
  <2> QED
    BY <1>1, <1>3, <2>1, <2>3, WrittenAt DEF Gives
<1>4. CASE ~st.failed /\ b.op = "Delete"
  <2>1. PICK w : w = Without(st.files, b.path)
    OBVIOUS
  <2>2. done = [st EXCEPT !.files = w]
    BY <1>1, <1>4, <2>1 DEF ApplyBlock
  <2>3. done.files = w /\ done.failed = FALSE /\ IsOutcome(done)
    BY <1>4, <2>2 DEF IsOutcome
  <2> QED
    BY <1>1, <1>4, <2>1, <2>3, WithoutAt DEF Gives
<1>5. CASE ~st.failed /\ b.op = "Update"
  <2>1. CASE b.path \notin DOMAIN st.files
    <3>1. done = [st EXCEPT !.failed = TRUE]
      BY <1>1, <1>5, <2>1 DEF ApplyBlock
    <3>2. done.files = st.files /\ done.failed = TRUE /\ IsOutcome(done)
      BY <3>1 DEF IsOutcome
    <3>3. \A x : ~Gives(b, At(st.files, b.path), x)
      BY <1>5, <2>1 DEF Gives, At
    <3> QED
      BY <1>1, <3>2, <3>3
  <2>2. CASE b.path \in DOMAIN st.files
    <3>1. PICK text : text = st.files[b.path]
      OBVIOUS
    <3>2. PICK edit : edit = Hunks(text, b.hunks)
      OBVIOUS
    <3>3. At(st.files, b.path) = {text}
      BY <2>2, <3>1 DEF At
    <3>4. \A x : Gives(b, {text}, x) <=> edit.status # "error" /\ x = {edit.text}
      BY <1>5, <3>2 DEF Gives
    <3>5. CASE edit.status = "error"
      <4>1. done = [st EXCEPT !.failed = TRUE]
        BY <1>1, <1>5, <2>2, <3>1, <3>2, <3>5 DEF ApplyBlock
      <4>2. done.files = st.files /\ done.failed = TRUE /\ IsOutcome(done)
        BY <4>1 DEF IsOutcome
      <4> QED
        BY <1>1, <3>3, <3>4, <3>5, <4>2
    <3>6. CASE edit.status # "error"
      <4>1. PICK w : w = Written(st.files, b.path, edit.text)
        OBVIOUS
      <4>2. done = [st EXCEPT !.files = w]
        BY <1>1, <1>5, <2>2, <3>1, <3>2, <3>6, <4>1 DEF ApplyBlock
      <4>3. done.files = w /\ done.failed = FALSE /\ IsOutcome(done)
        BY <1>5, <4>2 DEF IsOutcome
      <4> QED
        BY <1>1, <1>5, <3>3, <3>4, <3>6, <4>1, <4>3, WrittenAt
    <3> QED
      BY <3>5, <3>6
  <2> QED
    BY <2>1, <2>2
<1> QED
  BY <1>2, <1>3, <1>4, <1>5 DEF IsBlock

\* Nothing has failed at the beginning.
LEMMA BeginningIsOutcome ==
    ASSUME NEW f, NEW st, st = [files |-> f, failed |-> FALSE]
    PROVE  IsOutcome(st) /\ st.files = f /\ ~st.failed
<1>1. st.files = f /\ st.failed = FALSE
  OBVIOUS
<1> QED
  BY <1>1 DEF IsOutcome

\* The blocks of a patch, of which each file has at most one.
IsPatch(patch) ==
    /\ patch \in Seq(ToSet(patch))
    /\ \A b \in ToSet(patch) : IsBlock(b)

OnePerPath(patch) ==
    \A i, j \in DOMAIN patch : patch[i].path = patch[j].path => i = j

\* A patch is its N blocks, applied one after the other.
Applies(u, N, f, patch) ==
    /\ N \in Nat /\ N = Len(patch) /\ DOMAIN patch = 1..N
    /\ \A k \in 1..N : IsBlock(patch[k])
    /\ ToSet(patch) = {patch[k] : k \in 1..N}
    /\ u[0] = [files |-> f, failed |-> FALSE]
    /\ \A n \in 1..N : u[n] = ApplyBlock(u[n - 1], patch[n])
    /\ ApplyPatch(f, patch) = u[N]

\* Applying a patch passes through a sequence of outcomes, one per block.
LEMMA PatchSteps ==
    ASSUME NEW f, NEW patch, IsPatch(patch)
    PROVE  \E u : Applies(u, Len(patch), f, patch)
<1>1. PICK N \in Nat : N = Len(patch) /\ DOMAIN patch = 1..N
  BY DEF IsPatch
<1>2. ToSet(patch) = {patch[k] : k \in 1..N}
  BY <1>1 DEF ToSet
<1>3. \A k \in 1..N : IsBlock(patch[k])
  BY <1>2 DEF IsPatch
<1>4. PICK v : /\ v[0] = [files |-> f, failed |-> FALSE]
               /\ \A n \in 1..Len(patch) : v[n] = ApplyBlock(v[n - 1], patch[n])
               /\ ApplyPatch(f, patch) = v[Len(patch)]
  BY <1>1, PatchGoes, Zenon
<1>5. Applies(v, Len(patch), f, patch)
  BY <1>1, <1>2, <1>3, <1>4 DEF Applies
<1> QED
  BY <1>5

\* A patch that does not fail did at no block, and acted at each path once.
LEMMA PatchGives ==
    ASSUME NEW f, NEW patch, IsPatch(patch), OnePerPath(patch),
           ~ApplyPatch(f, patch).failed
    PROVE  /\ \A b \in ToSet(patch) :
                 Gives(b, At(f, b.path), At(ApplyPatch(f, patch).files, b.path))
           /\ \A p : (\A b \in ToSet(patch) : b.path # p)
                        => At(ApplyPatch(f, patch).files, p) = At(f, p)
<1>1. PICK N \in Nat : N = Len(patch)
  BY DEF IsPatch
<1>2. PICK u : Applies(u, N, f, patch)
  BY <1>1, PatchSteps
<1>3. /\ N = Len(patch) /\ DOMAIN patch = 1..N
      /\ \A k \in 1..N : IsBlock(patch[k])
      /\ ToSet(patch) = {patch[k] : k \in 1..N}
      /\ u[0] = [files |-> f, failed |-> FALSE]
      /\ \A n \in 1..N : u[n] = ApplyBlock(u[n - 1], patch[n])
      /\ ApplyPatch(f, patch) = u[N]
  BY <1>2 DEF Applies
<1>4. \A i, j \in 1..N : patch[i].path = patch[j].path => i = j
  BY <1>3 DEF OnePerPath
<1> DEFINE S == {n \in 0..N : IsOutcome(u[n]) /\ \A k \in 0..n : u[k].failed => u[n].failed}
<1>5. N \in S
  <2>1. 0 \in S
    BY <1>3, BeginningIsOutcome
  <2>2. ASSUME NEW n \in 1..N, n - 1 \in S
        PROVE  n \in S
    <3>1. IsOutcome(u[n - 1]) /\ IsBlock(patch[n]) /\ u[n] = ApplyBlock(u[n - 1], patch[n])
      BY <1>3, <2>2
    <3>2. IsOutcome(u[n]) /\ (u[n - 1].failed => u[n].failed)
      BY <3>1, BlockActs
    <3>3. \A k \in 0..n : k \in 0..(n - 1) \/ k = n
      OBVIOUS
    <3> QED
      BY <2>2, <3>2, <3>3
  <2>3. \A n \in 0..N : n \in S
    <3> HIDE DEF S
    <3> QED
      BY <2>1, <2>2, InductionTo
  <2> QED
    BY <2>3
<1>6. \A n \in 0..N : ~u[n].failed
  BY <1>3, <1>5
<1>7. \A n \in 0..N : IsOutcome(u[n])
  <2> DEFINE O == {n \in 0..N : IsOutcome(u[n])}
  <2>1. 0 \in O
    BY <1>3, BeginningIsOutcome
  <2>2. ASSUME NEW n \in 1..N, n - 1 \in O
        PROVE  n \in O
    BY <1>3, <2>2, BlockActs
  <2>3. \A n \in 0..N : n \in O
    <3> HIDE DEF O
    <3> QED
      BY <2>1, <2>2, InductionTo
  <2> QED
    BY <2>3
<1>8. ASSUME NEW n \in 1..N
      PROVE  /\ Gives(patch[n], At(u[n - 1].files, patch[n].path), At(u[n].files, patch[n].path))
             /\ \A p : p # patch[n].path => At(u[n].files, p) = At(u[n - 1].files, p)
  <2>1. n - 1 \in 0..N /\ n \in 0..N
    OBVIOUS
  <2>2. /\ IsOutcome(u[n - 1]) /\ IsBlock(patch[n]) /\ u[n] = ApplyBlock(u[n - 1], patch[n])
        /\ ~u[n].failed
    BY <1>3, <1>6, <1>7, <2>1
  <2> QED
    BY <2>2, BlockActs
<1> DEFINE T == {n \in 0..N :
                   /\ \A p : (\A k \in 1..n : patch[k].path # p) => At(u[n].files, p) = At(f, p)
                   /\ \A k \in 1..n : Gives(patch[k], At(f, patch[k].path),
                                            At(u[n].files, patch[k].path))}
<1>9. 0 \in T
  BY <1>3
<1>10. ASSUME NEW n \in 1..N, n - 1 \in T
      PROVE  n \in T
  <2>1. PICK q : q = patch[n].path
    OBVIOUS
  <2>2. \A k \in 1..n : k \in 1..(n - 1) \/ k = n
    OBVIOUS
  <2>3. \A k \in 1..(n - 1) : k \in 1..n /\ k \in 1..N /\ patch[k].path # q
    BY <1>4, <2>1
  <2>4. At(u[n - 1].files, q) = At(f, q)
    BY <1>10, <2>3
  <2>5. ASSUME NEW p, \A k \in 1..n : patch[k].path # p
        PROVE  At(u[n].files, p) = At(f, p)
    <3>1. p # q /\ \A k \in 1..(n - 1) : patch[k].path # p
      BY <2>1, <2>3, <2>5
    <3>2. At(u[n - 1].files, p) = At(f, p)
      BY <1>10, <3>1
    <3> QED
      BY <1>8, <2>1, <3>1, <3>2
  <2>6. ASSUME NEW k \in 1..(n - 1)
        PROVE  Gives(patch[k], At(f, patch[k].path), At(u[n].files, patch[k].path))
    <3>1. At(u[n].files, patch[k].path) = At(u[n - 1].files, patch[k].path)
      BY <1>8, <2>1, <2>3
    <3>2. Gives(patch[k], At(f, patch[k].path), At(u[n - 1].files, patch[k].path))
      BY <1>10
    <3> QED
      BY <3>1, <3>2
  <2>7. Gives(patch[n], At(f, q), At(u[n].files, q))
    BY <1>8, <2>1, <2>4
  <2> QED
    BY <2>1, <2>2, <2>5, <2>6, <2>7
<1>11. N \in T
  <2>1. \A n \in 0..N : n \in T
    <3> HIDE DEF T
    <3> QED
      BY <1>9, <1>10, InductionTo
  <2> QED
    BY <2>1
<1>12. \A p : (\A k \in 1..N : patch[k].path # p) => At(u[N].files, p) = At(f, p)
  BY <1>11
<1>13. \A k \in 1..N : Gives(patch[k], At(f, patch[k].path), At(u[N].files, patch[k].path))
  BY <1>11
<1> HIDE DEF S, T
<1> QED
  BY <1>3, <1>12, <1>13

\* A patch whose blocks all have something to make of what is at their paths does not fail.
LEMMA PatchSucceeds ==
    ASSUME NEW f, NEW patch, IsPatch(patch), OnePerPath(patch),
           \A b \in ToSet(patch) : \E x : Gives(b, At(f, b.path), x)
    PROVE  ~ApplyPatch(f, patch).failed
<1>1. PICK N \in Nat : N = Len(patch)
  BY DEF IsPatch
<1>2. PICK u : Applies(u, N, f, patch)
  BY <1>1, PatchSteps
<1>3. /\ N = Len(patch) /\ DOMAIN patch = 1..N
      /\ \A k \in 1..N : IsBlock(patch[k])
      /\ ToSet(patch) = {patch[k] : k \in 1..N}
      /\ u[0] = [files |-> f, failed |-> FALSE]
      /\ \A n \in 1..N : u[n] = ApplyBlock(u[n - 1], patch[n])
      /\ ApplyPatch(f, patch) = u[N]
  BY <1>2 DEF Applies
<1>4. \A i, j \in 1..N : patch[i].path = patch[j].path => i = j
  BY <1>3 DEF OnePerPath
<1> DEFINE T == {n \in 0..N :
                   /\ IsOutcome(u[n]) /\ ~u[n].failed
                   /\ \A p : (\A k \in 1..n : patch[k].path # p) => At(u[n].files, p) = At(f, p)}
<1>5. 0 \in T
  BY <1>3, BeginningIsOutcome
<1>6. ASSUME NEW n \in 1..N, n - 1 \in T
      PROVE  n \in T
  <2>1. PICK q : q = patch[n].path
    OBVIOUS
  <2>2. \A k \in 1..(n - 1) : k \in 1..n /\ k \in 1..N /\ patch[k].path # q
    BY <1>4, <2>1
  <2>3. At(u[n - 1].files, q) = At(f, q)
    BY <1>6, <2>2
  <2>4. \E x : Gives(patch[n], At(u[n - 1].files, patch[n].path), x)
    BY <1>3, <2>1, <2>3
  <2>5. /\ IsOutcome(u[n - 1]) /\ IsBlock(patch[n]) /\ ~u[n - 1].failed
        /\ u[n] = ApplyBlock(u[n - 1], patch[n])
    BY <1>3, <1>6
  <2>6. /\ IsOutcome(u[n]) /\ ~u[n].failed
        /\ \A p : p # q => At(u[n].files, p) = At(u[n - 1].files, p)
    <3>1. PICK done : done = ApplyBlock(u[n - 1], patch[n])
      OBVIOUS
    <3>2. /\ IsOutcome(done) /\ ~done.failed
          /\ \A p : p # patch[n].path => At(done.files, p) = At(u[n - 1].files, p)
      BY <2>4, <2>5, <3>1, BlockActs
    <3> QED
      BY <2>1, <2>5, <3>1, <3>2
  <2>7. ASSUME NEW p, \A k \in 1..n : patch[k].path # p
        PROVE  At(u[n].files, p) = At(f, p)
    <3>1. p # q /\ \A k \in 1..(n - 1) : patch[k].path # p
      BY <2>1, <2>2, <2>7
    <3> QED
      BY <1>6, <2>6, <3>1
  <2> QED
    BY <2>6, <2>7
<1>7. \A n \in 0..N : n \in T
  <2> HIDE DEF T
  <2> QED
    BY <1>5, <1>6, InductionTo
<1> QED
  BY <1>3, <1>7

\* A patch leaves a set of files.
LEMMA PatchLeavesFiles ==
    ASSUME NEW f, AreFiles(f), NEW patch, IsPatch(patch)
    PROVE  AreFiles(ApplyPatch(f, patch).files) /\ IsOutcome(ApplyPatch(f, patch))
<1>1. PICK N \in Nat : N = Len(patch)
  BY DEF IsPatch
<1>2. PICK u : Applies(u, N, f, patch)
  BY <1>1, PatchSteps
<1>3. /\ N = Len(patch) /\ DOMAIN patch = 1..N
      /\ \A k \in 1..N : IsBlock(patch[k])
      /\ ToSet(patch) = {patch[k] : k \in 1..N}
      /\ u[0] = [files |-> f, failed |-> FALSE]
      /\ \A n \in 1..N : u[n] = ApplyBlock(u[n - 1], patch[n])
      /\ ApplyPatch(f, patch) = u[N]
  BY <1>2 DEF Applies
<1> DEFINE T == {n \in 0..N : IsOutcome(u[n]) /\ AreFiles(u[n].files)}
<1>4. 0 \in T
  BY <1>3, BeginningIsOutcome
<1>5. ASSUME NEW n \in 1..N, n - 1 \in T
      PROVE  n \in T
  BY <1>3, <1>5, BlockActs
<1>6. \A n \in 0..N : n \in T
  <2> HIDE DEF T
  <2> QED
    BY <1>4, <1>5, InductionTo
<1> QED
  BY <1>3, <1>6

\* A patch that goes through is applied once; one that does not leaves files as well.
LEMMA RunPatchIs ==
    ASSUME NEW f, NEW patch
    PROVE  /\ ~ApplyPatch(f, patch).failed => RunPatch(f, patch) = ApplyPatch(f, patch)
           /\ AreFiles(f) /\ IsPatch(patch) => /\ AreFiles(RunPatch(f, patch).files)
                                              /\ IsOutcome(RunPatch(f, patch))
<1>1. PICK once : once = ApplyPatch(f, patch)
  OBVIOUS
<1>2. PICK again : again = ApplyPatch(once.files, patch)
  OBVIOUS
<1>3. /\ ~once.failed => RunPatch(f, patch) = once
      /\ RunPatch(f, patch) = once \/ RunPatch(f, patch) = again
  BY <1>1, <1>2, Zenon DEF RunPatch
<1>4. ASSUME AreFiles(f), IsPatch(patch)
      PROVE  /\ AreFiles(once.files) /\ IsOutcome(once)
             /\ AreFiles(again.files) /\ IsOutcome(again)
  <2>1. AreFiles(once.files) /\ IsOutcome(once)
    BY <1>1, <1>4, PatchLeavesFiles
  <2> QED
    BY <1>2, <1>4, <2>1, PatchLeavesFiles
<1> QED
  BY <1>1, <1>3, <1>4

-----------------------------------------------------------------------------
(***************************************************************************)
(* A recorded step, once more.                                             *)
(***************************************************************************)

\* A step has commands or a patch, not both.
IsStep(s) ==
    /\ s.cmds \in Seq(ToSet(s.cmds)) /\ IsPatch(s.patch)
    /\ s.patch = <<>> \/ s.cmds = <<>>

\* What makes a session settled, of one of its steps and the files it left.
SettledBlock(b, left) ==
    \A h \in ToSet(b.hunks) :
        /\ Len(b.hunks) = 1 /\ b.path \in DOMAIN left
        /\ Occurs(h.new, left[b.path]) /\ ~Occurs(h.old, left[b.path])

SettledStep(s, left) ==
    OnePerPath(s.patch) /\ \A b \in ToSet(s.patch) : SettledBlock(b, left)

\* A settled block finds what it has left, and leaves it.
LEMMA GivesAgain ==
    ASSUME NEW b, IsBlock(b), NEW left, SettledBlock(b, left),
           NEW before, Gives(b, before, At(left, b.path))
    PROVE  Gives(b, At(left, b.path), At(left, b.path))
<1>1. CASE b.op # "Update"
  BY <1>1 DEF Gives
<1>2. CASE b.op = "Update"
  <2>1. PICK t : At(left, b.path) = {t}
    BY <1>2 DEF Gives
  <2>2. b.path \in DOMAIN left /\ left[b.path] = t
    BY <2>1 DEF At
  <2>3. PICK N \in Nat : N = Len(b.hunks) /\ DOMAIN b.hunks = 1..N
    BY DEF IsBlock
  <2>4. PICK v : /\ v[0] = [text |-> t, status |-> "written"]
                 /\ \A n \in 1..N : v[n] = ApplyHunk(v[n - 1], b.hunks[n])
                 /\ Hunks(t, b.hunks) = v[N]
    <3>1. PICK x : HunksAlong(x, t, b.hunks, N)
      BY <2>3, HunksGo
    <3> QED
      BY <3>1, Zenon DEF HunksAlong
  <2>5. v[0].text = t /\ v[0].status = "written"
    BY <2>4
  <2>6. Hunks(t, b.hunks).text = t /\ Hunks(t, b.hunks).status # "error"
    <3>1. CASE N = 0
      BY <2>4, <2>5, <3>1
    <3>2. CASE N # 0
      <4>1. 1 \in 1..N
        BY <3>2
      <4>2. PICK h : h = b.hunks[1]
        OBVIOUS
      <4>3. h \in ToSet(b.hunks)
        BY <2>3, <4>1, <4>2 DEF ToSet
      <4>4. N = 1 /\ Occurs(h.new, t) /\ ~Occurs(h.old, t)
        BY <2>2, <2>3, <4>3 DEF SettledBlock
      <4>5. v[1] = ApplyHunk(v[0], h)
        BY <2>4, <4>1, <4>2
      <4>6. v[1] = [v[0] EXCEPT !.status = "already_applied"]
        BY <2>5, <4>4, <4>5 DEF ApplyHunk
      <4>7. v[1].text = t /\ v[1].status = "already_applied"
        BY <2>4, <4>6
      <4> QED
        BY <2>4, <4>4, <4>7
    <3> QED
      BY <3>1, <3>2
  <2> QED
    BY <1>2, <2>1, <2>6 DEF Gives
<1> QED
  BY <1>1, <1>2

\* What a step touches, by the kind of step it is.
LEMMA TouchedIs ==
    ASSUME NEW s, IsStep(s), NEW p
    PROVE  /\ s.patch # <<>> => (p \in Touched(s) <=> \E b \in ToSet(s.patch) : b.path = p)
           /\ s.patch = <<>> =>
                 (p \in Touched(s) <=> \E k \in 1..Len(s.cmds) :
                                          s.cmds[k].program = "rm" /\ s.cmds[k].path = p)
<1>1. ToSet(<<>>) = {}
  BY DEF ToSet
<1>2. ASSUME s.patch # <<>>
      PROVE  p \in Touched(s) <=> \E b \in ToSet(s.patch) : b.path = p
  <2>1. ToSet(s.cmds) = {}
    BY <1>1, <1>2 DEF IsStep
  <2> QED
    BY <2>1 DEF Touched
<1>3. ASSUME s.patch = <<>>
      PROVE  p \in Touched(s) <=> \E k \in 1..Len(s.cmds) :
                                     s.cmds[k].program = "rm" /\ s.cmds[k].path = p
  <2>1. ToSet(s.patch) = {}
    BY <1>1, <1>3
  <2>2. p \in Touched(s) <=> \E c \in ToSet(s.cmds) : c.program = "rm" /\ c.path = p
    BY <2>1 DEF Touched
  <2>3. DOMAIN s.cmds = 1..Len(s.cmds)
    BY DEF IsStep
  <2> QED
    BY <2>2, <2>3 DEF ToSet
<1> QED
  BY <1>2, <1>3

\* A step that does not fail changes what it touches, and leaves files behind.
LEMMA AloneActs ==
    ASSUME NEW s, IsStep(s), NEW f
    PROVE  /\ AreFiles(f) => AreFiles(Alone(s, f).files)
           /\ ~Alone(s, f).failed /\ OnePerPath(s.patch) =>
                 \A p : p \notin Touched(s) => At(Alone(s, f).files, p) = At(f, p)
<1>1. CASE s.patch # <<>>
  <2>1. Alone(s, f) = ApplyPatch(f, s.patch) /\ IsPatch(s.patch)
    BY <1>1 DEF Alone, IsStep
  <2>2. AreFiles(f) => AreFiles(Alone(s, f).files)
    BY <2>1, PatchLeavesFiles DEF IsOutcome
  <2>3. ASSUME ~Alone(s, f).failed, OnePerPath(s.patch), NEW p, p \notin Touched(s)
        PROVE  At(Alone(s, f).files, p) = At(f, p)
    <3>1. \A b \in ToSet(s.patch) : b.path # p
      BY <1>1, <2>3, TouchedIs
    <3> QED
      BY <2>1, <2>3, <3>1, PatchGives
  <2> QED
    BY <2>2, <2>3
<1>2. CASE s.patch = <<>>
  <2>1. /\ Alone(s, f).files = RunCommands(f, s.cmds) /\ Alone(s, f).failed = FALSE
        /\ Len(s.cmds) \in Nat
    BY <1>2 DEF Alone, IsStep
  <2>2. AreFiles(f) => AreFiles(Alone(s, f).files)
    BY <2>1, CommandsAt
  <2>3. ASSUME NEW p, p \notin Touched(s)
        PROVE  At(Alone(s, f).files, p) = At(f, p)
    <3>1. ~\E k \in 1..Len(s.cmds) : s.cmds[k].program = "rm" /\ s.cmds[k].path = p
      BY <1>2, <2>3, TouchedIs
    <3> QED
      BY <2>1, <3>1, CommandsAt
  <2> QED
    BY <2>1, <2>2, <2>3
<1> QED
  BY <1>1, <1>2

\* A settled step, in a workspace that at each path it touches is as before the step
\* or as it was left, does not fail and leaves what it left.
LEMMA AloneAgain ==
    ASSUME NEW s, IsStep(s), NEW left, SettledStep(s, left),
           NEW g, ~Alone(s, g).failed,
           \A p \in Touched(s) : At(Alone(s, g).files, p) = At(left, p),
           NEW f, \A p \in Touched(s) : At(f, p) = At(g, p) \/ At(f, p) = At(left, p)
    PROVE  /\ ~Alone(s, f).failed
           /\ \A p \in Touched(s) : At(Alone(s, f).files, p) = At(left, p)
<1>1. CASE s.patch # <<>>
  <2>1. /\ \A x : Alone(s, x) = ApplyPatch(x, s.patch)
        /\ IsPatch(s.patch) /\ OnePerPath(s.patch)
    BY <1>1 DEF Alone, IsStep, SettledStep
  <2>2. \A b \in ToSet(s.patch) : b.path \in Touched(s)
    BY <1>1, TouchedIs
  <2>3. ASSUME NEW b \in ToSet(s.patch)
        PROVE  Gives(b, At(f, b.path), At(left, b.path))
    <3>1. Gives(b, At(g, b.path), At(left, b.path))
      <4>1. Gives(b, At(g, b.path), At(ApplyPatch(g, s.patch).files, b.path))
        BY <2>1, PatchGives
      <4>2. At(ApplyPatch(g, s.patch).files, b.path) = At(left, b.path)
        BY <2>1, <2>2
      <4> QED
        BY <4>1, <4>2
    <3>2. IsBlock(b) /\ SettledBlock(b, left)
      BY <2>1 DEF IsPatch, SettledStep
    <3>3. Gives(b, At(left, b.path), At(left, b.path))
      BY <3>1, <3>2, GivesAgain
    <3>4. At(f, b.path) = At(g, b.path) \/ At(f, b.path) = At(left, b.path)
      BY <2>2
    <3> QED
      BY <3>1, <3>3, <3>4
  <2>4. ~ApplyPatch(f, s.patch).failed
    BY <2>1, <2>3, PatchSucceeds
  <2>5. ASSUME NEW p \in Touched(s)
        PROVE  At(ApplyPatch(f, s.patch).files, p) = At(left, p)
    <3>1. PICK b \in ToSet(s.patch) : b.path = p
      BY <1>1, TouchedIs
    <3>2. Gives(b, At(f, p), At(ApplyPatch(f, s.patch).files, p))
      BY <2>1, <2>4, <3>1, PatchGives
    <3>3. Gives(b, At(f, p), At(left, p))
      BY <2>3, <3>1
    <3> QED
      BY <3>2, <3>3, GivesOne
  <2> QED
    BY <2>1, <2>4, <2>5
<1>2. CASE s.patch = <<>>
  <2>1. /\ \A x : Alone(s, x).files = RunCommands(x, s.cmds) /\ Alone(s, x).failed = FALSE
        /\ Len(s.cmds) \in Nat
    BY <1>2 DEF Alone, IsStep
  <2>2. ASSUME NEW p \in Touched(s)
        PROVE  At(Alone(s, f).files, p) = At(left, p)
    <3>1. \E k \in 1..Len(s.cmds) : s.cmds[k].program = "rm" /\ s.cmds[k].path = p
      BY <1>2, TouchedIs
    <3>2. At(RunCommands(f, s.cmds), p) = {} /\ At(RunCommands(g, s.cmds), p) = {}
      BY <2>1, <3>1, CommandsAt
    <3> QED
      BY <2>1, <3>2
  <2> QED
    BY <2>1, <2>2
<1> QED
  BY <1>1, <1>2

\* What a settled step has just done is verified.
LEMMA AloneVerifies ==
    ASSUME NEW s, IsStep(s), NEW left, SettledStep(s, left), s.patch # <<>>,
           NEW g, ~Alone(s, g).failed,
           \A p \in Touched(s) : At(Alone(s, g).files, p) = At(left, p)
    PROVE  VerifyPatch(Alone(s, g).files, s.patch)
<1>1. /\ Alone(s, g) = ApplyPatch(g, s.patch)
      /\ IsPatch(s.patch) /\ OnePerPath(s.patch)
  BY DEF Alone, IsStep, SettledStep
<1>2. PICK w : w = ApplyPatch(g, s.patch).files
  OBVIOUS
<1>3. ASSUME NEW b \in ToSet(s.patch)
      PROVE  VerifyBlock(w, b)
  <2>1. Gives(b, At(g, b.path), At(w, b.path))
    BY <1>1, <1>2, PatchGives
  <2>2. At(w, b.path) = At(left, b.path)
    BY <1>1, <1>2, TouchedIs
  <2>3. CASE b.op = "Add"
    <3>1. At(w, b.path) = {b.text}
      BY <2>1, <2>3 DEF Gives
    <3>2. b.path \in DOMAIN w /\ w[b.path] = b.text
      BY <3>1 DEF At
    <3> QED
      BY <2>3, <3>2 DEF VerifyBlock
  <2>4. CASE b.op = "Delete"
    <3>1. At(w, b.path) = {}
      BY <2>1, <2>4 DEF Gives
    <3>2. b.path \notin DOMAIN w
      BY <3>1 DEF At
    <3> QED
      BY <2>4, <3>2 DEF VerifyBlock
  <2>5. CASE b.op = "Update"
    <3>1. PICK t : At(w, b.path) = {t}
      BY <2>1, <2>5 DEF Gives
    <3>2. b.path \in DOMAIN w /\ w[b.path] = t /\ left[b.path] = t
      BY <2>2, <3>1 DEF At
    <3>3. \A h \in ToSet(b.hunks) : VerifyHunk(w[b.path], h)
      <4>1. SettledBlock(b, left)
        BY DEF SettledStep
      <4> QED
        BY <3>2, <4>1 DEF SettledBlock, VerifyHunk
    <3> QED
      BY <2>5, <3>2, <3>3 DEF VerifyBlock
  <2> QED
    BY <1>1, <2>3, <2>4, <2>5 DEF IsPatch, IsBlock
<1> QED
  BY <1>1, <1>2, <1>3 DEF VerifyPatch

-----------------------------------------------------------------------------
(***************************************************************************)
(* A turn, and the step it is recorded as.                                 *)
(***************************************************************************)

\* One of each, one after the other.
LEMMA FlattenSingles ==
    ASSUME NEW X, NEW R \in Seq(Seq(X)), \A i \in 1..Len(R) : Len(R[i]) = 1
    PROVE  /\ FlattenSeq(R) \in Seq(X) /\ Len(FlattenSeq(R)) = Len(R)
           /\ \A i \in 1..Len(R) : FlattenSeq(R)[i] = R[i][1]
<1>1. PICK N \in Nat : N = Len(R)
  OBVIOUS
<1>2. PICK u : u \in [0..N -> Seq(X)] /\ Flattens(u, R) /\ FlattenSeq(R) = u[N]
  BY <1>1, FlattenSteps
<1>3. \A i \in 1..N : R[i] \in Seq(X) /\ Len(R[i]) = 1
  BY <1>1
<1> DEFINE T == {n \in 0..N : Len(u[n]) = n /\ \A i \in 1..n : u[n][i] = R[i][1]}
<1>4. 0 \in T
  <2>1. u[0] = <<>>
    BY <1>2 DEF Flattens
  <2> QED
    BY <2>1
<1>5. ASSUME NEW n \in 1..N, n - 1 \in T
      PROVE  n \in T
  <2>1. u[n] = u[n - 1] \o R[n]
    BY <1>1, <1>2 DEF Flattens
  <2>2. PICK a : a = u[n - 1]
    OBVIOUS
  <2>3. PICK b : b = R[n]
    OBVIOUS
  <2>4. a \in Seq(X) /\ b \in Seq(X) /\ Len(a) = n - 1 /\ Len(b) = 1
    BY <1>2, <1>3, <1>5, <2>2, <2>3
  <2>5. \A i \in 1..(n - 1) : a[i] = R[i][1]
    BY <1>5, <2>2
  <2>6. PICK c : c = a \o b
    OBVIOUS
  <2>7. /\ Len(c) = n /\ c[n] = b[1]
        /\ \A i \in 1..(n - 1) : c[i] = a[i]
    <3>1. PICK m \in Nat : m = Len(a)
      BY <2>4
    <3>2. PICK k \in Nat : k = Len(b)
      BY <2>4
    <3>3. /\ Len(c) = m + k
          /\ \A i \in 1..(m + k) : c[i] = IF i <= m THEN a[i] ELSE b[i - m]
      <4>1. a \in Seq(X) /\ b \in Seq(X)
        BY <2>4
      <4>2. Len(c) = m + k
        BY <2>6, <3>1, <3>2, <4>1
      <4>3. \A i \in 1..(m + k) : c[i] = IF i <= m THEN a[i] ELSE b[i - m]
        BY <2>6, <3>1, <3>2, <4>1
      <4> QED
        BY <4>2, <4>3
    <3>4. k = 1 /\ n = m + 1
      BY <2>4, <3>1, <3>2
    <3> QED
      BY <3>3, <3>4
  <2>8. \A i \in 1..n : i \in 1..(n - 1) \/ i = n
    OBVIOUS
  <2>9. \A i \in 1..n : c[i] = R[i][1]
    BY <2>3, <2>5, <2>7, <2>8
  <2>10. u[n] = c
    BY <2>1, <2>2, <2>3, <2>6
  <2> QED
    BY <2>7, <2>9, <2>10
<1>6. \A n \in 0..N : n \in T
  <2> HIDE DEF T
  <2> QED
    BY <1>4, <1>5, InductionTo
<1> QED
  BY <1>1, <1>2, <1>6

\* Nothing of each.
LEMMA FlattenNothing ==
    ASSUME NEW X, NEW R \in Seq(Seq(X)), \A i \in 1..Len(R) : R[i] = <<>>
    PROVE  FlattenSeq(R) = <<>>
<1>1. PICK N \in Nat : N = Len(R)
  OBVIOUS
<1>2. PICK u : u \in [0..N -> Seq(X)] /\ Flattens(u, R) /\ FlattenSeq(R) = u[N]
  BY <1>1, FlattenSteps
<1> DEFINE T == {n \in 0..N : u[n] = <<>>}
<1>3. 0 \in T
  BY <1>2 DEF Flattens
<1>4. ASSUME NEW n \in 1..N, n - 1 \in T
      PROVE  n \in T
  <2>1. u[n] = u[n - 1] \o R[n] /\ R[n] = <<>>
    BY <1>1, <1>2 DEF Flattens
  <2>2. u[n] = <<>> \o <<>>
    BY <1>4, <2>1
  <2> QED
    BY <2>2
<1>5. \A n \in 0..N : n \in T
  <2> HIDE DEF T
  <2> QED
    BY <1>3, <1>4, InductionTo
<1> QED
  BY <1>2, <1>5

\* A call changes an outcome into another, and what has failed stays so.
LEMMA LiveActs ==
    ASSUME NEW st, IsOutcome(st), NEW c
    PROVE  IsOutcome(Live(st, c)) /\ (st.failed => Live(st, c).failed)
BY DEF Live, IsOutcome

\* When no replacement of an edit fails, the handler's replacements do the same.
LEMMA HunksAsEdited ==
    ASSUME NEW text, NEW hunks, Len(hunks) \in Nat, ~Edited(text, hunks).failed
    PROVE  Hunks(text, hunks) = [text |-> Edited(text, hunks).text, status |-> "written"]
<1>1. PICK N \in Nat : N = Len(hunks)
  OBVIOUS
<1>2. PICK e : /\ e[0] = [text |-> text, failed |-> FALSE]
               /\ \A n \in 1..N : e[n] = EditHunk(e[n - 1], hunks[n])
               /\ Edited(text, hunks) = e[N]
  <2>1. PICK e : /\ e[0] = [text |-> text, failed |-> FALSE]
                 /\ \A n \in 1..Len(hunks) : e[n] = EditHunk(e[n - 1], hunks[n])
                 /\ Edited(text, hunks) = e[Len(hunks)]
    BY EditGoes, Zenon
  <2> QED
    BY <1>1, <2>1
<1>3. PICK v : /\ v[0] = [text |-> text, status |-> "written"]
               /\ \A n \in 1..N : v[n] = ApplyHunk(v[n - 1], hunks[n])
               /\ Hunks(text, hunks) = v[N]
  <2>1. PICK x : HunksAlong(x, text, hunks, N)
    BY <1>1, HunksGo
  <2> QED
    BY <2>1, Zenon DEF HunksAlong
<1> DEFINE Same(n) == v[n] = [text |-> e[n].text, status |-> "written"]
           T == {n \in 0..N : /\ e[n] = [text |-> e[n].text, failed |-> e[n].failed]
                              /\ ~e[n].failed => Same(n)
                              /\ \A k \in 0..n : e[k].failed => e[n].failed}
<1>4. 0 \in T
  BY <1>2, <1>3
<1>5. ASSUME NEW n \in 1..N, n - 1 \in T
      PROVE  n \in T
  <2>1. PICK a : a = e[n - 1]
    OBVIOUS
  <2>2. PICK h : h = hunks[n]
    OBVIOUS
  <2>3. e[n] = EditHunk(a, h) /\ a = [text |-> a.text, failed |-> a.failed]
    BY <1>2, <1>5, <2>1, <2>2
  <2>4. v[n] = ApplyHunk(v[n - 1], h)
    BY <1>3, <2>2
  <2> DEFINE places == Cardinality(Places(h.old, a.text))
  <2>5. CASE a.failed \/ h.old = <<>> \/ places = 0 \/ (places > 1 /\ ~h.all)
    <3>1. e[n] = [a EXCEPT !.failed = TRUE]
      BY <2>3, <2>5 DEF EditHunk
    <3>2. e[n].failed /\ e[n] = [text |-> e[n].text, failed |-> e[n].failed]
      BY <2>3, <3>1
    <3>3. \A k \in 0..n : e[k].failed => e[n].failed
      BY <3>2
    <3> QED
      BY <3>2, <3>3
  <2>6. CASE ~(a.failed \/ h.old = <<>> \/ places = 0 \/ (places > 1 /\ ~h.all))
    <3>1. e[n] = [a EXCEPT !.text = Replace(h, @)]
      BY <2>3, <2>6 DEF EditHunk
    <3>2. PICK t : t = Replace(h, a.text)
      OBVIOUS
    <3>3. e[n].text = t /\ e[n].failed = a.failed /\ ~a.failed
          /\ e[n] = [text |-> e[n].text, failed |-> e[n].failed]
      BY <2>3, <2>6, <3>1, <3>2
    <3>4. Occurs(h.old, a.text)
      <4>1. Cardinality({}) = 0
        BY FS_EmptySet
      <4> QED
        BY <2>6, <4>1 DEF Occurs
    <3>5. v[n - 1] = [text |-> a.text, status |-> "written"]
      BY <1>5, <2>1, <3>3
    <3>6. v[n - 1].text = a.text /\ v[n - 1].status = "written"
      BY <3>5
    <3>7. v[n] = [v[n - 1] EXCEPT !.text = t]
      BY <2>4, <3>2, <3>4, <3>6 DEF ApplyHunk
    <3>8. Same(n)
      BY <3>3, <3>5, <3>7
    <3>9. \A k \in 0..n : ~e[k].failed
      <4>1. \A k \in 0..n : k \in 0..(n - 1) \/ k = n
        OBVIOUS
      <4>2. \A k \in 0..(n - 1) : ~e[k].failed
        BY <1>5, <2>1, <3>3
      <4> QED
        BY <3>3, <4>1, <4>2
    <3> HIDE DEF Same
    <3> QED
      BY <3>3, <3>8, <3>9
  <2> QED
    BY <2>5, <2>6
<1>6. N \in T
  <2>1. \A n \in 0..N : n \in T
    <3> HIDE DEF T
    <3> QED
      BY <1>4, <1>5, InductionTo
  <2> QED
    BY <2>1
<1> QED
  BY <1>2, <1>3, <1>6

\* A call that writes, did not fail and wrote something is what its block does.
LEMMA LiveAsBlock ==
    ASSUME NEW st, IsOutcome(st), ~st.failed, NEW c, c.tool \in Writeish,
           c.tool = "write" => c.text # <<>>,
           Len(c.hunks) \in Nat, ~Live(st, c).failed
    PROVE  ApplyBlock(st, BlockOf(c)) = Live(st, c)
<1>1. PICK b : b = BlockOf(c)
  OBVIOUS
<1>2. CASE c.tool = "write"
  <2>1. b.op = "Add" /\ b.path = c.path /\ b.text = c.text
    BY <1>1, <1>2 DEF BlockOf, Add, Block
  <2> QED
    BY <1>1, <1>2, <2>1 DEF ApplyBlock, Live
<1>3. CASE c.tool = "apply_patch"
  <2>1. b.op = "Delete" /\ b.path = c.path
    BY <1>1, <1>3 DEF BlockOf, Delete, Block
  <2> QED
    BY <1>1, <1>3, <2>1 DEF ApplyBlock, Live
<1>4. CASE c.tool = "edit"
  <2>1. b.op = "Update" /\ b.path = c.path /\ b.hunks = c.hunks
    BY <1>1, <1>4 DEF BlockOf, Update, Block
  <2>2. ~EditFails(st.files, c)
    <3>1. Live(st, c) = IF EditFails(st.files, c) THEN [st EXCEPT !.failed = TRUE]
                        ELSE [st EXCEPT !.files = Written(@, c.path,
                                                    Edited(@[c.path], c.hunks).text)]
      BY <1>4 DEF Live
    <3> QED
      BY <3>1 DEF IsOutcome
  <2>3. PICK text : text = st.files[c.path]
    OBVIOUS
  <2>4. c.path \in DOMAIN st.files /\ ~Edited(text, c.hunks).failed
    BY <2>2, <2>3 DEF EditFails
  <2>5. PICK edited : edited = Edited(text, c.hunks).text
    OBVIOUS
  <2>6. Hunks(text, c.hunks) = [text |-> edited, status |-> "written"]
    BY <2>4, <2>5, HunksAsEdited
  <2>7. Live(st, c) = [st EXCEPT !.files = Written(@, c.path, edited)]
    BY <1>4, <2>2, <2>3, <2>5 DEF Live
  <2>8. Hunks(text, c.hunks).status # "error" /\ Hunks(text, c.hunks).text = edited
    BY <2>6
  <2>9. ApplyBlock(st, b) = [st EXCEPT !.files = Written(@, c.path, edited)]
    BY <2>1, <2>3, <2>4, <2>8 DEF ApplyBlock
  <2> QED
    BY <1>1, <2>7, <2>9
<1> QED
  BY <1>2, <1>3, <1>4 DEF Writeish

\* The command that stands for a call of a shell or a reading tool.
CommandOf(c) ==
    [program |-> IF c.tool = "bash" THEN c.program ELSE "cat", path |-> c.path]

\* Such a call does what its command does.
LEMMA LiveAsCommand ==
    ASSUME NEW st, IsOutcome(st), NEW c, c.tool \in Shellish
    PROVE  /\ Live(st, c).files = Shell(st.files, CommandOf(c))
           /\ Live(st, c).failed = st.failed
<1>1. CASE c.tool = "bash"
  <2>1. PICK w : w = Shell(st.files, CommandOf(c))
    OBVIOUS
  <2>2. CommandOf(c) = [program |-> c.program, path |-> c.path]
    BY <1>1 DEF CommandOf
  <2>3. Live(st, c) = [st EXCEPT !.files = w]
    BY <1>1, <2>1, <2>2 DEF Live
  <2> QED
    BY <2>1, <2>3 DEF IsOutcome
<1>2. CASE c.tool = "read"
  <2>1. Shell(st.files, CommandOf(c)) = st.files
    BY <1>2 DEF CommandOf, Shell
  <2>2. Live(st, c) = st
    BY <1>2 DEF Live
  <2> QED
    BY <2>1, <2>2
<1> QED
  BY <1>1, <1>2 DEF Shellish

\* What a call becomes, by the kind of its tool.
LEMMA NormalizedIs ==
    ASSUME NEW c
    PROVE  /\ Normalized(c).tool = c.tool
           /\ c.tool \in Shellish => /\ Normalized(c).cmds = <<CommandOf(c)>>
                                     /\ Normalized(c).patch = <<>>
           /\ c.tool \in Writeish => /\ Normalized(c).cmds = <<>>
                                     /\ Normalized(c).patch = <<BlockOf(c)>>
           /\ c.tool \in Bookkeeping => /\ Normalized(c).cmds = <<>>
                                        /\ Normalized(c).patch = <<>>
<1>1. Normalized(c).tool = c.tool
  BY DEF Normalized
<1>2. c.tool = "bash" => /\ Normalized(c).cmds = <<CommandOf(c)>>
                         /\ Normalized(c).patch = <<>>
  BY DEF Normalized, CommandOf, Writeish
<1>3. c.tool = "read" => /\ Normalized(c).cmds = <<CommandOf(c)>>
                         /\ Normalized(c).patch = <<>>
  BY DEF Normalized, CommandOf, Writeish
<1>4. c.tool \in Writeish => /\ Normalized(c).cmds = <<>>
                             /\ Normalized(c).patch = <<BlockOf(c)>>
  BY DEF Normalized, Writeish
<1>5. c.tool \in Bookkeeping => /\ Normalized(c).cmds = <<>>
                                /\ Normalized(c).patch = <<>>
  BY DEF Normalized, Writeish, Bookkeeping
<1> QED
  BY <1>1, <1>2, <1>3, <1>4, <1>5 DEF Shellish

\* A batch of N calls.
Batch(calls, N) ==
    /\ N \in Nat /\ N = Len(calls) /\ DOMAIN calls = 1..N
    /\ calls \in Seq(ToSet(calls))
    /\ ToSet(calls) = {calls[i] : i \in 1..N}

Of(calls, kind) == \A c \in ToSet(calls) : c.tool \in kind

\* The calls of a batch, normalised one by one.
LEMMA NormalizedBatch ==
    ASSUME NEW calls, NEW N, Batch(calls, N), NEW norm,
           norm = [i \in DOMAIN calls |-> Normalized(calls[i])]
    PROVE  /\ Len(norm) = N /\ DOMAIN norm = 1..N
           /\ \A i \in 1..N : norm[i] = Normalized(calls[i])
           /\ \A kind : Of(norm, kind) <=> Of(calls, kind)
<1>1. /\ N \in Nat /\ DOMAIN calls = 1..N
      /\ ToSet(calls) = {calls[i] : i \in 1..N}
  BY DEF Batch
<1>2. norm = [i \in 1..N |-> Normalized(calls[i])]
  BY <1>1
<1>3. Len(norm) = N /\ DOMAIN norm = 1..N
  BY <1>1, <1>2
<1>4. \A i \in 1..N : norm[i] = Normalized(calls[i])
  BY <1>2
<1>5. ToSet(norm) = {norm[i] : i \in 1..N}
  BY <1>3 DEF ToSet
<1>6. ASSUME NEW kind
      PROVE  Of(norm, kind) <=> Of(calls, kind)
  <2>1. \A i \in 1..N : norm[i].tool = calls[i].tool
    BY <1>4, NormalizedIs
  <2>2. Of(calls, kind) <=> \A i \in 1..N : calls[i].tool \in kind
    BY <1>1 DEF Of
  <2>3. Of(norm, kind) <=> \A i \in 1..N : norm[i].tool \in kind
    BY <1>5 DEF Of
  <2> QED
    BY <2>1, <2>2, <2>3
<1> QED
  BY <1>3, <1>4, <1>6

\* The one call a turn of several is recorded as.
MergedOf(calls) == Merged([i \in DOMAIN calls |-> Normalized(calls[i])])

\* A step with the command of each of N calls, and one with the block of each.
KeepsCommands(step, calls, N) ==
    /\ step.patch = <<>> /\ step.cmds \in Seq({CommandOf(c) : c \in ToSet(calls)})
    /\ Len(step.cmds) = N
    /\ \A i \in 1..N : step.cmds[i] = CommandOf(calls[i])

KeepsBlocks(step, calls, N) ==
    /\ step.cmds = <<>> /\ step.patch \in Seq({BlockOf(c) : c \in ToSet(calls)})
    /\ Len(step.patch) = N
    /\ \A i \in 1..N : step.patch[i] = BlockOf(calls[i])

\* A batch of one kind becomes one step with what each call stands for; of a mixed
\* batch the first call is kept.
LEMMA MergedIs ==
    ASSUME NEW calls, NEW N, Batch(calls, N), N # 0,
           NEW step, step = MergedOf(calls)
    PROVE  /\ Of(calls, Shellish) => KeepsCommands(step, calls, N)
           /\ Of(calls, Writeish) => KeepsBlocks(step, calls, N)
           /\ ~Of(calls, Shellish) /\ ~Of(calls, Writeish) =>
                 step.cmds = Normalized(calls[1]).cmds /\ step.patch = Normalized(calls[1]).patch
<1>1. PICK norm : norm = [i \in DOMAIN calls |-> Normalized(calls[i])]
  OBVIOUS
<1>2. /\ Len(norm) = N /\ DOMAIN norm = 1..N
      /\ \A i \in 1..N : norm[i] = Normalized(calls[i])
      /\ \A kind : Of(norm, kind) <=> Of(calls, kind)
  BY <1>1, NormalizedBatch
<1>3. N \in Nat /\ 1 \in 1..N /\ ToSet(calls) = {calls[i] : i \in 1..N}
  BY DEF Batch
<1>4. PICK first : first = Head(norm)
  OBVIOUS
<1>5. first = Normalized(calls[1])
  BY <1>2, <1>3, <1>4
<1>6. PICK cs : cs = [i \in DOMAIN norm |-> norm[i].cmds]
  OBVIOUS
<1>7. PICK ps : ps = [i \in DOMAIN norm |-> norm[i].patch]
  OBVIOUS
<1>8. /\ cs = [i \in 1..N |-> norm[i].cmds] /\ Len(cs) = N
      /\ ps = [i \in 1..N |-> norm[i].patch] /\ Len(ps) = N
  BY <1>2, <1>3, <1>6, <1>7
<1>9. step = IF Of(norm, Shellish) \/ Of(norm, Writeish)
             THEN [first EXCEPT !.cmds = FlattenSeq(cs), !.patch = FlattenSeq(ps)]
             ELSE first
  BY <1>1, <1>4, <1>6, <1>7, Zenon DEF MergedOf, Merged, Of
<1>10. first = [action |-> first.action, tool |-> first.tool,
                cmds |-> first.cmds, patch |-> first.patch]
  BY <1>5 DEF Normalized
<1>11. ASSUME Of(calls, Shellish) \/ Of(calls, Writeish)
       PROVE  step.cmds = FlattenSeq(cs) /\ step.patch = FlattenSeq(ps)
  <2>1. Of(norm, Shellish) \/ Of(norm, Writeish)
    BY <1>2, <1>11
  <2>2. step = [first EXCEPT !.cmds = FlattenSeq(cs), !.patch = FlattenSeq(ps)]
    BY <1>9, <2>1
  <2> QED
    BY <1>10, <2>2
<1>12. ASSUME Of(calls, Shellish)
       PROVE  KeepsCommands(step, calls, N)
  <2>1. PICK X : X = {CommandOf(c) : c \in ToSet(calls)}
    OBVIOUS
  <2>2. \A i \in 1..N : calls[i].tool \in Shellish /\ CommandOf(calls[i]) \in X
    BY <1>3, <1>12, <2>1 DEF Of
  <2>3. \A i \in 1..N : cs[i] = <<CommandOf(calls[i])>> /\ ps[i] = <<>>
    BY <1>2, <1>8, <2>2, NormalizedIs
  <2>4. cs \in Seq(Seq(X)) /\ \A i \in 1..Len(cs) : Len(cs[i]) = 1
    <3>1. ASSUME NEW i \in 1..N
          PROVE  cs[i] \in Seq(X) /\ Len(cs[i]) = 1
      <4>1. PICK x \in X : x = CommandOf(calls[i])
        BY <2>2
      <4>2. cs[i] = <<x>>
        BY <2>3, <4>1
      <4>3. <<x>> \in Seq(X) /\ Len(<<x>>) = 1
        OBVIOUS
      <4> QED
        BY <4>2, <4>3
    <3>2. cs \in [1..N -> Seq(X)]
      BY <1>8, <3>1
    <3> QED
      BY <1>3, <1>8, <3>1, <3>2
  <2>5. ps \in Seq(Seq(X)) /\ \A i \in 1..Len(ps) : ps[i] = <<>>
    <3>1. PICK none : none = <<>>
      OBVIOUS
    <3>2. none \in Seq(X)
      BY <3>1
    <3>3. \A i \in 1..N : ps[i] = none
      BY <2>3, <3>1
    <3>4. ps \in [1..N -> Seq(X)]
      BY <1>8, <3>2, <3>3
    <3> QED
      BY <1>3, <1>8, <3>1, <3>3, <3>4
  <2>6. FlattenSeq(ps) = <<>>
    BY <2>5, FlattenNothing
  <2>7. /\ FlattenSeq(cs) \in Seq(X) /\ Len(FlattenSeq(cs)) = N
        /\ \A i \in 1..N : FlattenSeq(cs)[i] = cs[i][1]
    BY <1>8, <2>4, FlattenSingles
  <2>8. \A i \in 1..N : cs[i][1] = CommandOf(calls[i])
    BY <2>3
  <2> QED
    BY <1>11, <1>12, <2>1, <2>6, <2>7, <2>8 DEF KeepsCommands
<1>13. ASSUME Of(calls, Writeish)
       PROVE  KeepsBlocks(step, calls, N)
  <2>1. PICK X : X = {BlockOf(c) : c \in ToSet(calls)}
    OBVIOUS
  <2>2. \A i \in 1..N : calls[i].tool \in Writeish /\ BlockOf(calls[i]) \in X
    BY <1>3, <1>13, <2>1 DEF Of
  <2>3. \A i \in 1..N : ps[i] = <<BlockOf(calls[i])>> /\ cs[i] = <<>>
    BY <1>2, <1>8, <2>2, NormalizedIs
  <2>4. ps \in Seq(Seq(X)) /\ \A i \in 1..Len(ps) : Len(ps[i]) = 1
    <3>1. ASSUME NEW i \in 1..N
          PROVE  ps[i] \in Seq(X) /\ Len(ps[i]) = 1
      <4>1. PICK x \in X : x = BlockOf(calls[i])
        BY <2>2
      <4>2. ps[i] = <<x>>
        BY <2>3, <4>1
      <4>3. <<x>> \in Seq(X) /\ Len(<<x>>) = 1
        OBVIOUS
      <4> QED
        BY <4>2, <4>3
    <3>2. ps \in [1..N -> Seq(X)]
      BY <1>8, <3>1
    <3> QED
      BY <1>3, <1>8, <3>1, <3>2
  <2>5. cs \in Seq(Seq(X)) /\ \A i \in 1..Len(cs) : cs[i] = <<>>
    <3>1. PICK none : none = <<>>
      OBVIOUS
    <3>2. none \in Seq(X)
      BY <3>1
    <3>3. \A i \in 1..N : cs[i] = none
      BY <2>3, <3>1
    <3>4. cs \in [1..N -> Seq(X)]
      BY <1>8, <3>2, <3>3
    <3> QED
      BY <1>3, <1>8, <3>1, <3>3, <3>4
  <2>6. FlattenSeq(cs) = <<>>
    BY <2>5, FlattenNothing
  <2>7. /\ FlattenSeq(ps) \in Seq(X) /\ Len(FlattenSeq(ps)) = N
        /\ \A i \in 1..N : FlattenSeq(ps)[i] = ps[i][1]
    BY <1>8, <2>4, FlattenSingles
  <2>8. \A i \in 1..N : ps[i][1] = BlockOf(calls[i])
    BY <2>3
  <2> QED
    BY <1>11, <1>13, <2>1, <2>6, <2>7, <2>8 DEF KeepsBlocks
<1>14. ASSUME ~Of(calls, Shellish), ~Of(calls, Writeish)
       PROVE  step = first
  BY <1>2, <1>9, <1>14
<1> QED
  BY <1>5, <1>12, <1>13, <1>14

\* The calls of a turn are a batch of the tools there are.
LEMMA TurnIsBatch ==
    ASSUME NEW t \in Turn
    PROVE  /\ Batch(t.calls, Len(t.calls))
           /\ Len(t.calls) = 0 <=> t.calls = <<>>
           /\ \A i \in 1..Len(t.calls) :
                 /\ t.calls[i].tool \in Shellish \cup Writeish \cup Bookkeeping
                 /\ t.calls[i].hunks \in Seq(ToSet(t.calls[i].hunks))
<1>1. PICK calls : calls = t.calls
  OBVIOUS
<1>2. calls \in Seq(ToSet(calls))
  BY <1>1, TurnsAreBatches
<1>3. PICK N \in Nat : N = Len(calls)
  BY <1>2
<1>4. DOMAIN calls = 1..N
  BY <1>2, <1>3
<1>5. ToSet(calls) = {calls[i] : i \in 1..N}
  BY <1>4 DEF ToSet
<1>6. N = 0 <=> calls = <<>>
  BY <1>2, <1>3, EmptySeq
<1>7. Batch(calls, Len(calls))
  BY <1>2, <1>3, <1>4, <1>5 DEF Batch
<1>8. \A i \in 1..N : /\ calls[i].tool \in Shellish \cup Writeish \cup Bookkeeping
                      /\ calls[i].hunks \in Seq(ToSet(calls[i].hunks))
  <2>1. \A c \in ToSet(calls) : /\ c.tool \in Shellish \cup Writeish \cup Bookkeeping
                                /\ c.hunks \in Seq(ToSet(c.hunks))
    BY <1>1, TurnsAreBatches
  <2> QED
    BY <1>5, <2>1
<1> QED
  BY <1>1, <1>3, <1>6, <1>7, <1>8

\* What of the calls of a turn its step keeps.
LEMMA StepKeeps ==
    ASSUME NEW t \in Turn
    PROVE  /\ t.calls = <<>> => StepOf(t).cmds = <<>> /\ StepOf(t).patch = <<>>
           /\ t.calls # <<>> =>
                 /\ StepOf(t).cmds =
                       MergedOf(t.calls).cmds
                 /\ StepOf(t).patch =
                       MergedOf(t.calls).patch
<1>1. ASSUME NEW a, NEW c, NEW p, NEW shape
      PROVE  LET s == Joined([action |-> a, cmds |-> c, patch |-> p], shape)
             IN  s.cmds = c /\ s.patch = p
  BY DEF Joined
<1>2. PICK call : call = MergedOf(t.calls)
  OBVIOUS
<1>3. StepOf(t) = IF t.calls = <<>>
                  THEN Joined([action |-> t.action, cmds |-> <<>>, patch |-> <<>>], t.shape)
                  ELSE Joined([action |-> call.action, cmds |-> call.cmds,
                               patch |-> call.patch], t.shape)
  BY <1>2, Zenon DEF StepOf, MergedOf
<1>4. CASE t.calls = <<>>
  <2>1. StepOf(t) = Joined([action |-> t.action, cmds |-> <<>>, patch |-> <<>>], t.shape)
    BY <1>3, <1>4
  <2> QED
    BY <1>1, <1>4, <2>1
<1>5. CASE t.calls # <<>>
  <2>1. StepOf(t) = Joined([action |-> call.action, cmds |-> call.cmds,
                            patch |-> call.patch], t.shape)
    BY <1>3, <1>5
  <2> QED
    BY <1>1, <1>2, <1>5, <2>1
<1> QED
  BY <1>4, <1>5

\* The block of a call is a block.
LEMMA BlockOfIs ==
    ASSUME NEW c, c.tool \in Writeish, c.hunks \in Seq(ToSet(c.hunks))
    PROVE  IsBlock(BlockOf(c))
<1>1. PICK none : none = <<>>
  OBVIOUS
<1>2. none \in Seq(ToSet(none))
  BY <1>1
<1>3. CASE c.tool = "write"
  <2>1. BlockOf(c).op = "Add" /\ BlockOf(c).hunks = none
    BY <1>1, <1>3 DEF BlockOf, Add, Block
  <2> QED
    BY <1>2, <2>1 DEF IsBlock
<1>4. CASE c.tool = "edit"
  <2>1. BlockOf(c).op = "Update" /\ BlockOf(c).hunks = c.hunks
    BY <1>4 DEF BlockOf, Update, Block
  <2> QED
    BY <2>1 DEF IsBlock
<1>5. CASE c.tool = "apply_patch"
  <2>1. BlockOf(c).op = "Delete" /\ BlockOf(c).hunks = none
    BY <1>1, <1>5 DEF BlockOf, Delete, Block
  <2> QED
    BY <1>2, <2>1 DEF IsBlock
<1> QED
  BY <1>3, <1>4, <1>5 DEF Writeish

\* No commands and no patch, one command, or one block.
LEMMA SmallSteps ==
    ASSUME NEW cmds, NEW patch,
           \/ cmds = <<>> /\ patch = <<>>
           \/ patch = <<>> /\ \E x : cmds = <<x>>
           \/ cmds = <<>> /\ \E b : patch = <<b>> /\ IsBlock(b)
    PROVE  cmds \in Seq(ToSet(cmds)) /\ IsPatch(patch) /\ (patch = <<>> \/ cmds = <<>>)
<1>1. PICK none : none = <<>>
  OBVIOUS
<1>2. none \in Seq(ToSet(none)) /\ ToSet(none) = {}
  BY <1>1 DEF ToSet
<1>3. IsPatch(none)
  BY <1>2 DEF IsPatch
<1>4. ASSUME NEW x
      PROVE  <<x>> \in Seq(ToSet(<<x>>)) /\ ToSet(<<x>>) = {x}
  <2>1. ToSet(<<x>>) = {x}
    BY DEF ToSet
  <2>2. <<x>> \in Seq({x})
    OBVIOUS
  <2> QED
    BY <2>1, <2>2
<1>5. ASSUME NEW b, IsBlock(b)
      PROVE  IsPatch(<<b>>)
  BY <1>4, <1>5 DEF IsPatch
<1>6. CASE cmds = <<>> /\ patch = <<>>
  BY <1>1, <1>2, <1>3, <1>6
<1>7. CASE patch = <<>> /\ \E x : cmds = <<x>>
  <2>1. PICK x : cmds = <<x>>
    BY <1>7
  <2>2. cmds \in Seq(ToSet(cmds))
    BY <1>4, <2>1
  <2> QED
    BY <1>1, <1>3, <1>7, <2>2
<1>8. CASE cmds = <<>> /\ \E b : patch = <<b>> /\ IsBlock(b)
  <2>1. PICK b : patch = <<b>> /\ IsBlock(b)
    BY <1>8
  <2>2. IsPatch(patch)
    BY <1>5, <2>1
  <2> QED
    BY <1>1, <1>2, <1>8, <2>2
<1> QED
  BY <1>6, <1>7, <1>8

\* A turn is recorded as a step with commands or a patch, not both.
LEMMA StepIsStep ==
    ASSUME NEW t \in Turn
    PROVE  IsStep(StepOf(t))
<1>1. PICK calls : calls = t.calls
  OBVIOUS
<1>2. PICK N : N = Len(calls)
  OBVIOUS
<1>3. PICK cmds : cmds = StepOf(t).cmds
  OBVIOUS
<1>4. PICK patch : patch = StepOf(t).patch
  OBVIOUS
<1>5. SUFFICES cmds \in Seq(ToSet(cmds)) /\ IsPatch(patch) /\ (patch = <<>> \/ cmds = <<>>)
  BY <1>3, <1>4 DEF IsStep
<1>6. /\ Batch(calls, N) /\ (N = 0 <=> calls = <<>>)
      /\ \A i \in 1..N : /\ calls[i].tool \in Shellish \cup Writeish \cup Bookkeeping
                         /\ calls[i].hunks \in Seq(ToSet(calls[i].hunks))
  BY <1>1, <1>2, TurnIsBatch
<1>7. CASE calls = <<>>
  <2>1. cmds = <<>> /\ patch = <<>>
    BY <1>1, <1>3, <1>4, <1>7, StepKeeps
  <2> QED
    BY <2>1, SmallSteps
<1>8. CASE calls # <<>>
  <2>1. PICK step : step = MergedOf(calls)
    OBVIOUS
  <2>2. cmds = step.cmds /\ patch = step.patch
    BY <1>1, <1>3, <1>4, <1>8, <2>1, StepKeeps
  <2>3. Batch(calls, N) /\ N # 0
    BY <1>6, <1>8
  <2>4. CASE Of(calls, Shellish)
    <3>1. patch = <<>> /\ cmds \in Seq({CommandOf(c) : c \in ToSet(calls)})
      <4>1. KeepsCommands(step, calls, N)
        BY <2>1, <2>3, <2>4, MergedIs
      <4> QED
        BY <2>2, <4>1 DEF KeepsCommands
    <3>2. cmds \in Seq(ToSet(cmds))
      BY <3>1 DEF ToSet
    <3>3. IsPatch(patch)
      BY <3>1, SmallSteps
    <3> QED
      BY <3>1, <3>2, <3>3
  <2>5. CASE Of(calls, Writeish)
    <3>1. /\ cmds = <<>> /\ patch \in Seq({BlockOf(c) : c \in ToSet(calls)})
          /\ Len(patch) = N /\ \A i \in 1..N : patch[i] = BlockOf(calls[i])
      <4>1. KeepsBlocks(step, calls, N)
        BY <2>1, <2>3, <2>5, MergedIs
      <4> QED
        BY <2>2, <4>1 DEF KeepsBlocks
    <3>2. patch \in Seq(ToSet(patch)) /\ ToSet(patch) = {patch[i] : i \in 1..N}
      BY <3>1 DEF ToSet
    <3>3. \A i \in 1..N : calls[i] \in ToSet(calls)
      BY <2>3 DEF Batch
    <3>4. \A i \in 1..N : IsBlock(patch[i])
      BY <1>6, <2>5, <3>1, <3>3, BlockOfIs DEF Of
    <3>5. IsPatch(patch)
      BY <3>2, <3>4 DEF IsPatch
    <3>6. cmds \in Seq(ToSet(cmds))
      BY <3>1, SmallSteps
    <3> QED
      BY <3>1, <3>5, <3>6
  <2>6. CASE ~Of(calls, Shellish) /\ ~Of(calls, Writeish)
    <3>1. PICK c : c = calls[1]
      OBVIOUS
    <3>2. cmds = Normalized(c).cmds /\ patch = Normalized(c).patch
      BY <2>1, <2>2, <2>3, <2>6, <3>1, MergedIs
    <3>3. /\ c.tool \in Shellish \cup Writeish \cup Bookkeeping
          /\ c.hunks \in Seq(ToSet(c.hunks))
      <4>1. 1 \in 1..N
        BY <2>3 DEF Batch
      <4> QED
        BY <1>6, <3>1, <4>1
    <3>4. c.tool \in Writeish => IsBlock(BlockOf(c))
      BY <3>3, BlockOfIs
    <3> QED
      BY <3>2, <3>3, <3>4, NormalizedIs, SmallSteps
  <2> QED
    BY <2>4, <2>5, <2>6
<1> QED
  BY <1>7, <1>8

\* What happened while the calls of a batch were made, one by one.
Happened(u, f, calls, N) ==
    /\ u[0] = [files |-> f, failed |-> FALSE]
    /\ \A n \in 1..N : u[n] = Live(u[n - 1], calls[n])
    /\ Played(f, calls) = u[N]

\* At any time there is a workspace, and a failure now was none before it.
LEMMA HappenedIs ==
    ASSUME NEW f, NEW calls, NEW N, Batch(calls, N)
    PROVE  \E u : /\ Happened(u, f, calls, N)
                  /\ \A n \in 0..N : IsOutcome(u[n])
                  /\ ~u[N].failed => \A n \in 0..N : ~u[n].failed
<1>1. N \in Nat /\ N = Len(calls)
  BY DEF Batch
<1>2. PICK u : Happened(u, f, calls, N)
  <2>1. PICK u : /\ u[0] = [files |-> f, failed |-> FALSE]
                 /\ \A n \in 1..Len(calls) : u[n] = Live(u[n - 1], calls[n])
                 /\ Played(f, calls) = u[Len(calls)]
    BY <1>1, CallsGo, Zenon
  <2>2. Happened(u, f, calls, N)
    BY <1>1, <2>1 DEF Happened
  <2> QED
    BY <2>2
<1> DEFINE T == {n \in 0..N : IsOutcome(u[n]) /\ \A k \in 0..n : u[k].failed => u[n].failed}
<1>3. 0 \in T
  BY <1>1, <1>2, BeginningIsOutcome DEF Happened
<1>4. ASSUME NEW n \in 1..N, n - 1 \in T
      PROVE  n \in T
  <2>1. u[n] = Live(u[n - 1], calls[n])
    BY <1>2 DEF Happened
  <2>2. IsOutcome(u[n]) /\ (u[n - 1].failed => u[n].failed)
    BY <1>4, <2>1, LiveActs
  <2>3. \A k \in 0..n : k \in 0..(n - 1) \/ k = n
    OBVIOUS
  <2> QED
    BY <1>4, <2>2, <2>3
<1>5. \A n \in 0..N : n \in T
  <2> HIDE DEF T
  <2> QED
    BY <1>1, <1>3, <1>4, InductionTo
<1>6. /\ \A n \in 0..N : IsOutcome(u[n])
      /\ \A k \in 0..N : u[k].failed => u[N].failed
  BY <1>1, <1>5
<1> QED
  BY <1>2, <1>6

\* Shell and reading calls do what their commands do, and do not fail.
LEMMA ShellTurn ==
    ASSUME NEW f, NEW calls, NEW N, Batch(calls, N), Of(calls, Shellish),
           NEW cmds, Len(cmds) = N, \A i \in 1..N : cmds[i] = CommandOf(calls[i])
    PROVE  Played(f, calls) = [files |-> RunCommands(f, cmds), failed |-> FALSE]
<1>1. N \in Nat /\ ToSet(calls) = {calls[i] : i \in 1..N}
  BY DEF Batch
<1>2. PICK u : Happened(u, f, calls, N) /\ \A n \in 0..N : IsOutcome(u[n])
  BY HappenedIs
<1>3. PICK v : /\ v[0] = f /\ \A n \in 1..N : v[n] = Shell(v[n - 1], cmds[n])
               /\ RunCommands(f, cmds) = v[N]
  <2>1. PICK x : CommandsAlong(x, f, cmds, N)
    BY <1>1, CommandsGo
  <2> QED
    BY <2>1, Zenon DEF CommandsAlong
<1> DEFINE T == {n \in 0..N : u[n].files = v[n] /\ u[n].failed = FALSE}
<1>4. 0 \in T
  BY <1>1, <1>2, <1>3 DEF Happened
<1>5. ASSUME NEW n \in 1..N, n - 1 \in T
      PROVE  n \in T
  <2>1. u[n] = Live(u[n - 1], calls[n]) /\ IsOutcome(u[n - 1])
    BY <1>2 DEF Happened
  <2>2. calls[n].tool \in Shellish
    BY <1>1 DEF Of
  <2>3. u[n].files = Shell(u[n - 1].files, CommandOf(calls[n])) /\ u[n].failed = u[n - 1].failed
    BY <2>1, <2>2, LiveAsCommand
  <2>4. v[n] = Shell(v[n - 1], CommandOf(calls[n]))
    BY <1>3
  <2> QED
    BY <1>5, <2>3, <2>4
<1>6. \A n \in 0..N : n \in T
  <2> HIDE DEF T
  <2> QED
    BY <1>1, <1>4, <1>5, InductionTo
<1>7. u[N].files = v[N] /\ u[N].failed = FALSE /\ IsOutcome(u[N])
  BY <1>1, <1>2, <1>6
<1>8. Played(f, calls) = u[N]
  BY <1>2 DEF Happened
<1> QED
  BY <1>3, <1>7, <1>8 DEF IsOutcome

\* Writing calls that went through and wrote something do what their blocks do.
LEMMA WriteTurn ==
    ASSUME NEW f, NEW calls, NEW N, Batch(calls, N), Of(calls, Writeish),
           \A c \in ToSet(calls) : c.tool = "write" => c.text # <<>>,
           \A i \in 1..N : Len(calls[i].hunks) \in Nat,
           ~Played(f, calls).failed,
           NEW patch, Len(patch) = N, \A i \in 1..N : patch[i] = BlockOf(calls[i])
    PROVE  Played(f, calls) = ApplyPatch(f, patch)
<1>1. N \in Nat /\ ToSet(calls) = {calls[i] : i \in 1..N}
  BY DEF Batch
<1>2. PICK u : /\ Happened(u, f, calls, N) /\ \A n \in 0..N : IsOutcome(u[n])
               /\ ~u[N].failed => \A n \in 0..N : ~u[n].failed
  BY HappenedIs
<1>3. PICK v : /\ v[0] = [files |-> f, failed |-> FALSE]
               /\ \A n \in 1..N : v[n] = ApplyBlock(v[n - 1], patch[n])
               /\ ApplyPatch(f, patch) = v[N]
  <2>1. PICK v : /\ v[0] = [files |-> f, failed |-> FALSE]
                 /\ \A n \in 1..Len(patch) : v[n] = ApplyBlock(v[n - 1], patch[n])
                 /\ ApplyPatch(f, patch) = v[Len(patch)]
    <3>1. Len(patch) \in Nat
      BY <1>1
    <3> QED
      BY <3>1, PatchGoes, Zenon
  <2> QED
    BY <2>1
<1>4. \A n \in 0..N : ~u[n].failed
  BY <1>2 DEF Happened
<1> DEFINE T == {n \in 0..N : u[n] = v[n]}
<1>5. 0 \in T
  BY <1>1, <1>2, <1>3 DEF Happened
<1>6. ASSUME NEW n \in 1..N, n - 1 \in T
      PROVE  n \in T
  <2>1. /\ u[n] = Live(u[n - 1], calls[n]) /\ IsOutcome(u[n - 1])
        /\ ~u[n - 1].failed /\ ~Live(u[n - 1], calls[n]).failed
    BY <1>2, <1>4 DEF Happened
  <2>2. /\ calls[n].tool \in Writeish
        /\ calls[n].tool = "write" => calls[n].text # <<>>
    BY <1>1 DEF Of
  <2>3. Len(calls[n].hunks) \in Nat
    OBVIOUS
  <2>4. ApplyBlock(u[n - 1], BlockOf(calls[n])) = u[n]
    BY <2>1, <2>2, <2>3, LiveAsBlock
  <2>5. v[n] = ApplyBlock(v[n - 1], BlockOf(calls[n]))
    BY <1>3
  <2> QED
    BY <1>6, <2>4, <2>5
<1>7. \A n \in 0..N : n \in T
  <2> HIDE DEF T
  <2> QED
    BY <1>1, <1>5, <1>6, InductionTo
<1> QED
  BY <1>1, <1>2, <1>3, <1>7 DEF Happened

\* Bookkeeping does nothing.
LEMMA BookkeepingTurn ==
    ASSUME NEW f, NEW calls, NEW N, Batch(calls, N), Of(calls, Bookkeeping)
    PROVE  Played(f, calls) = [files |-> f, failed |-> FALSE]
<1>1. N \in Nat /\ ToSet(calls) = {calls[i] : i \in 1..N}
  BY DEF Batch
<1>2. PICK u : Happened(u, f, calls, N)
  BY HappenedIs
<1> DEFINE T == {n \in 0..N : u[n] = u[0]}
<1>3. 0 \in T
  BY <1>1
<1>4. ASSUME NEW n \in 1..N, n - 1 \in T
      PROVE  n \in T
  <2>1. u[n] = Live(u[n - 1], calls[n]) /\ calls[n].tool = "plan"
    BY <1>1, <1>2 DEF Happened, Of, Bookkeeping
  <2>2. Live(u[n - 1], calls[n]) = u[n - 1]
    BY <2>1 DEF Live
  <2> QED
    BY <1>4, <2>1, <2>2
<1>5. \A n \in 0..N : n \in T
  <2> HIDE DEF T
  <2> QED
    BY <1>1, <1>3, <1>4, InductionTo
<1> QED
  BY <1>1, <1>2, <1>5 DEF Happened

\* No commands leave everything.
LEMMA NoCommands ==
    ASSUME NEW f
    PROVE  RunCommands(f, <<>>) = f
<1>1. PICK none : none = <<>>
  OBVIOUS
<1>2. Len(none) = 0
  BY <1>1
<1>3. PICK v : v[0] = f /\ RunCommands(f, none) = v[0]
  BY <1>2, CommandsGo DEF CommandsAlong
<1> QED
  BY <1>1, <1>2, <1>3

\* A plain turn is recorded as a step that does the same again.
LEMMA PlainIsExact ==
    ASSUME NEW t \in Turn, Plain(t)
    PROVE  Exact(t)
<1>1. PICK calls : calls = t.calls
  OBVIOUS
<1>2. PICK N : N = Len(calls)
  OBVIOUS
<1>3. PICK s : s = StepOf(t)
  OBVIOUS
<1>4. /\ ~Played(files, calls).failed
      /\ \A c \in ToSet(calls) : c.tool = "write" => c.text # <<>>
      /\ Of(calls, Shellish) \/ Of(calls, Writeish) \/ Of(calls, Bookkeeping)
  <2>1. /\ ~Played(files, calls).failed
        /\ \E kind \in {Shellish, Writeish, Bookkeeping} :
              {c.tool : c \in ToSet(calls)} \subseteq kind
        /\ \A c \in ToSet(calls) : c.tool = "write" => c.text # <<>>
    BY <1>1, Zenon DEF Plain, Effect
  <2>2. PICK kind \in {Shellish, Writeish, Bookkeeping} :
            {c.tool : c \in ToSet(calls)} \subseteq kind
    BY <2>1
  <2>3. Of(calls, kind)
    BY <2>2 DEF Of
  <2>4. kind = Shellish \/ kind = Writeish \/ kind = Bookkeeping
    OBVIOUS
  <2> QED
    BY <2>1, <2>3, <2>4
<1>5. /\ Batch(calls, N) /\ (N = 0 <=> calls = <<>>)
      /\ \A i \in 1..N : calls[i].hunks \in Seq(ToSet(calls[i].hunks))
  BY <1>1, <1>2, TurnIsBatch
<1>6. SUFFICES Alone(s, files) = Played(files, calls)
  BY <1>1, <1>3, <1>4 DEF Exact, Effect
<1>7. ASSUME s.cmds = <<>>, s.patch = <<>>
      PROVE  Alone(s, files) = [files |-> files, failed |-> FALSE]
  BY <1>7, NoCommands DEF Alone
<1>8. CASE calls = <<>>
  <2>1. s.cmds = <<>> /\ s.patch = <<>>
    BY <1>1, <1>3, <1>8, StepKeeps
  <2>2. Of(calls, Bookkeeping)
    <3>1. ToSet(calls) = {}
      BY <1>8 DEF ToSet
    <3> QED
      BY <3>1 DEF Of
  <2> QED
    BY <1>5, <1>7, <2>1, <2>2, BookkeepingTurn
<1>9. CASE calls # <<>>
  <2>1. PICK step : step = MergedOf(calls)
    OBVIOUS
  <2>2. s.cmds = step.cmds /\ s.patch = step.patch
    BY <1>1, <1>3, <1>9, <2>1, StepKeeps
  <2>3. Batch(calls, N) /\ N # 0 /\ 1 \in 1..N /\ calls[1] \in ToSet(calls)
    BY <1>5, <1>9 DEF Batch
  <2>4. CASE Of(calls, Shellish)
    <3>1. /\ step.patch = <<>> /\ Len(step.cmds) = N
          /\ \A i \in 1..N : step.cmds[i] = CommandOf(calls[i])
      <4>1. KeepsCommands(step, calls, N)
        BY <2>1, <2>3, <2>4, MergedIs
      <4> QED
        BY <4>1 DEF KeepsCommands
    <3>2. Alone(s, files) = [files |-> RunCommands(files, step.cmds), failed |-> FALSE]
      BY <2>2, <3>1 DEF Alone
    <3> QED
      BY <2>3, <2>4, <3>1, <3>2, ShellTurn
  <2>5. CASE Of(calls, Writeish)
    <3>1. /\ step.patch \in Seq({BlockOf(c) : c \in ToSet(calls)}) /\ Len(step.patch) = N
          /\ \A i \in 1..N : step.patch[i] = BlockOf(calls[i])
      <4>1. KeepsBlocks(step, calls, N)
        BY <2>1, <2>3, <2>5, MergedIs
      <4> QED
        BY <4>1 DEF KeepsBlocks
    <3>2. step.patch # <<>>
      BY <2>3, <3>1, EmptySeq
    <3>3. Alone(s, files) = ApplyPatch(files, step.patch)
      BY <2>2, <3>2 DEF Alone
    <3>4. \A i \in 1..N : Len(calls[i].hunks) \in Nat
      BY <1>5
    <3>5. Played(files, calls) = ApplyPatch(files, step.patch)
      BY <1>4, <2>3, <2>5, <3>1, <3>4, WriteTurn
    <3> QED
      BY <3>3, <3>5
  <2>6. CASE Of(calls, Bookkeeping)
    <3>1. calls[1].tool = "plan"
      BY <2>3, <2>6 DEF Of, Bookkeeping
    <3>2. ~Of(calls, Shellish) /\ ~Of(calls, Writeish)
      BY <2>3, <3>1 DEF Of, Shellish, Writeish
    <3>3. step.cmds = <<>> /\ step.patch = <<>>
      BY <2>1, <2>3, <3>1, <3>2, MergedIs, NormalizedIs DEF Bookkeeping
    <3> QED
      BY <1>7, <2>2, <2>3, <2>6, <3>3, BookkeepingTurn
  <2> QED
    BY <1>4, <2>4, <2>5, <2>6
<1> QED
  BY <1>8, <1>9

-----------------------------------------------------------------------------
(***************************************************************************)
(* The workspace a session leads to, step after step.                      *)
(***************************************************************************)

Rebuilt(run) ==
    LET left[n \in 0..Len(run)] ==
            IF n = 0 THEN Workspace ELSE Alone(run[n], left[n - 1]).files
    IN  left

\* The recursion of Rebuilt defines a function.
LEMMA RebuiltIs ==
    ASSUME NEW run, NEW N \in Nat, N = Len(run)
    PROVE  /\ Rebuilt(run)[0] = Workspace
           /\ \A n \in 1..N : Rebuilt(run)[n] = Alone(run[n], Rebuilt(run)[n - 1]).files
<1> DEFINE Is(f) == f = [n \in 0..Len(run) |->
                           IF n = 0 THEN Workspace ELSE Alone(run[n], f[n - 1]).files]
<1>1. ASSUME NEW f PROVE Along(f, "alone", 0, Workspace, run) <=> Is(f)
  BY DEF Along, Does
<1>2. PICK f : f = CHOOSE g : Is(g)
  OBVIOUS
<1>3. Is(f)
  <2>1. Len(run) \in Nat
    OBVIOUS
  <2> HIDE DEF Is
  <2> QED
    BY <1>1, <1>2, <2>1, AlongExists
<1>4. Rebuilt(run) = f
  BY <1>2 DEF Rebuilt
<1>5. f = [n \in 0..N |-> IF n = 0 THEN Workspace ELSE Alone(run[n], f[n - 1]).files]
  BY <1>3
<1>6. 0 \in 0..N /\ \A n \in 1..N : n \in 0..N /\ n # 0
  OBVIOUS
<1>7. f[0] = Workspace /\ \A n \in 1..N : f[n] = Alone(run[n], f[n - 1]).files
  BY <1>5, <1>6, Zenon
<1> QED
  BY <1>4, <1>7

\* Where a session led to stays when it goes on.
LEMMA RebuiltOn ==
    ASSUME NEW X, NEW run \in Seq(X), NEW N \in Nat, N = Len(run), NEW s \in X
    PROVE  /\ \A n \in 0..N : Rebuilt(Append(run, s))[n] = Rebuilt(run)[n]
           /\ Rebuilt(Append(run, s))[N + 1] = Alone(s, Rebuilt(run)[N]).files
<1>1. PICK more : more = Append(run, s)
  OBVIOUS
<1>2. N + 1 \in Nat /\ N + 1 = Len(more) /\ more[N + 1] = s /\ \A n \in 1..N : more[n] = run[n]
  BY <1>1
<1>3. /\ Rebuilt(more)[0] = Workspace
      /\ \A n \in 1..(N + 1) : Rebuilt(more)[n] = Alone(more[n], Rebuilt(more)[n - 1]).files
  BY <1>2, RebuiltIs
<1>4. /\ Rebuilt(run)[0] = Workspace
      /\ \A n \in 1..N : Rebuilt(run)[n] = Alone(run[n], Rebuilt(run)[n - 1]).files
  BY RebuiltIs
<1> DEFINE T == {n \in 0..N : Rebuilt(more)[n] = Rebuilt(run)[n]}
<1>5. 0 \in T
  BY <1>3, <1>4
<1>6. ASSUME NEW n \in 1..N, n - 1 \in T
      PROVE  n \in T
  <2>1. n \in 1..(N + 1)
    OBVIOUS
  <2> QED
    BY <1>2, <1>3, <1>4, <1>6, <2>1
<1>7. \A n \in 0..N : n \in T
  <2> HIDE DEF T
  <2> QED
    BY <1>5, <1>6, InductionTo
<1>8. Rebuilt(more)[N + 1] = Alone(s, Rebuilt(run)[N]).files
  <2>1. N + 1 \in 1..(N + 1) /\ (N + 1) - 1 = N /\ N \in 0..N
    OBVIOUS
  <2> QED
    BY <1>2, <1>3, <1>7, <2>1
<1> QED
  BY <1>1, <1>7, <1>8

\* A session of N steps that led to the files left, none of the steps failing.
LeadsTo(run, N, left) ==
    /\ N \in Nat /\ N = Len(run) /\ DOMAIN run = 1..N
    /\ \A n \in 1..N : IsStep(run[n]) /\ ~Alone(run[n], Rebuilt(run)[n - 1]).failed
    /\ left = Rebuilt(run)[N]

\* Every step of it leaves files behind.
LEMMA RebuiltAreFiles ==
    ASSUME NEW run, NEW N, NEW left, LeadsTo(run, N, left)
    PROVE  \A n \in 0..N : AreFiles(Rebuilt(run)[n])
<1>1. N \in Nat /\ N = Len(run) /\ \A n \in 1..N : IsStep(run[n])
  BY DEF LeadsTo
<1>2. /\ Rebuilt(run)[0] = Workspace
      /\ \A n \in 1..N : Rebuilt(run)[n] = Alone(run[n], Rebuilt(run)[n - 1]).files
  BY <1>1, RebuiltIs
<1> DEFINE T == {n \in 0..N : AreFiles(Rebuilt(run)[n])}
<1>3. 0 \in T
  <2>1. AreFiles(Workspace)
    BY WorkspaceIsFiles DEF AreFiles
  <2> QED
    BY <1>1, <1>2, <2>1
<1>4. ASSUME NEW n \in 1..N, n - 1 \in T
      PROVE  n \in T
  BY <1>1, <1>2, <1>4, AloneActs
<1> HIDE DEF T
<1>5. \A n \in 0..N : n \in T
  BY <1>1, <1>3, <1>4, InductionTo
<1> QED
  BY <1>5 DEF T

\* What no step from m to n touches is the same before and after them.
LEMMA RebuiltBetween ==
    ASSUME NEW run, NEW N, NEW left, LeadsTo(run, N, left),
           \A i \in 1..N : OnePerPath(run[i].patch),
           NEW m \in 0..N, NEW p
    PROVE  \A n \in 0..N :
              m <= n /\ (\A i \in 1..N : m < i /\ i <= n => p \notin Touched(run[i]))
                  => At(Rebuilt(run)[n], p) = At(Rebuilt(run)[m], p)
<1>1. /\ N \in Nat /\ N = Len(run)
      /\ \A n \in 1..N : IsStep(run[n]) /\ ~Alone(run[n], Rebuilt(run)[n - 1]).failed
  BY DEF LeadsTo
<1>2. \A n \in 1..N : Rebuilt(run)[n] = Alone(run[n], Rebuilt(run)[n - 1]).files
  BY <1>1, RebuiltIs
<1> DEFINE Free(n) == \A i \in 1..N : m < i /\ i <= n => p \notin Touched(run[i])
           T == {n \in 0..N : m <= n /\ Free(n) =>
                                 At(Rebuilt(run)[n], p) = At(Rebuilt(run)[m], p)}
<1>3. 0 \in T
  <2>1. m <= 0 => m = 0
    OBVIOUS
  <2> QED
    BY <1>1, <2>1
<1>4. ASSUME NEW n \in 1..N, n - 1 \in T
      PROVE  n \in T
  <2> SUFFICES ASSUME m <= n, m # n, Free(n)
               PROVE  At(Rebuilt(run)[n], p) = At(Rebuilt(run)[m], p)
    BY <1>1
  <2>1. m <= n - 1 /\ Free(n - 1)
    BY <1>1
  <2>2. At(Rebuilt(run)[n - 1], p) = At(Rebuilt(run)[m], p)
    BY <1>4, <2>1
  <2>3. p \notin Touched(run[n])
    BY <1>1
  <2>4. At(Alone(run[n], Rebuilt(run)[n - 1]).files, p) = At(Rebuilt(run)[n - 1], p)
    BY <1>1, <2>3, AloneActs
  <2> QED
    BY <1>2, <2>2, <2>4
<1>5. \A n \in 0..N : n \in T
  <2> HIDE DEF T
  <2> QED
    BY <1>1, <1>3, <1>4, InductionTo
<1> QED
  BY <1>5

\* Each file is changed by one step, and each step is settled, of the files left.
SettledOver(run, N, left) ==
    /\ \A i, j \in 1..N : i # j => Touched(run[i]) \cap Touched(run[j]) = {}
    /\ \A i \in 1..N : SettledStep(run[i], left)

\* A step of a settled session finds its files as they were at first, and leaves them
\* as they are at last; what none touches is the same at first and at last.
LEMMA SettledSession ==
    ASSUME NEW run, NEW N, NEW left, LeadsTo(run, N, left), SettledOver(run, N, left)
    PROVE  /\ \A n \in 1..N : \A p \in Touched(run[n]) :
                 /\ At(Rebuilt(run)[n - 1], p) = At(Workspace, p)
                 /\ At(Rebuilt(run)[n], p) = At(left, p)
           /\ \A p : (\A i \in 1..N : p \notin Touched(run[i])) => At(left, p) = At(Workspace, p)
<1>1. N \in Nat /\ N = Len(run) /\ left = Rebuilt(run)[N]
  BY DEF LeadsTo
<1>2. Rebuilt(run)[0] = Workspace
  BY <1>1, RebuiltIs
<1>3. \A i \in 1..N : OnePerPath(run[i].patch)
  BY DEF SettledOver, SettledStep
<1>4. ASSUME NEW m \in 0..N, NEW n \in 0..N, m <= n, NEW p,
             \A i \in 1..N : m < i /\ i <= n => p \notin Touched(run[i])
      PROVE  At(Rebuilt(run)[n], p) = At(Rebuilt(run)[m], p)
  BY <1>3, <1>4, RebuiltBetween
<1>5. ASSUME NEW n \in 1..N, NEW p \in Touched(run[n])
      PROVE  /\ At(Rebuilt(run)[n - 1], p) = At(Workspace, p)
             /\ At(Rebuilt(run)[n], p) = At(left, p)
  <2>1. \A i \in 1..N : i # n => p \notin Touched(run[i])
    BY <1>5 DEF SettledOver
  <2>2. /\ 0 \in 0..N /\ n - 1 \in 0..N /\ n \in 0..N /\ N \in 0..N /\ 0 <= n - 1 /\ n <= N
        /\ \A i \in 1..N : 0 < i /\ i <= n - 1 => i # n
        /\ \A i \in 1..N : n < i /\ i <= N => i # n
    BY <1>1
  <2>3. At(Rebuilt(run)[n - 1], p) = At(Rebuilt(run)[0], p)
    BY <1>4, <2>1, <2>2
  <2>4. At(Rebuilt(run)[N], p) = At(Rebuilt(run)[n], p)
    BY <1>4, <2>1, <2>2
  <2> QED
    BY <1>1, <1>2, <2>3, <2>4
<1>6. ASSUME NEW p, \A i \in 1..N : p \notin Touched(run[i])
      PROVE  At(left, p) = At(Workspace, p)
  <2>1. 0 \in 0..N /\ N \in 0..N /\ 0 <= N
    BY <1>1
  <2>2. At(Rebuilt(run)[N], p) = At(Rebuilt(run)[0], p)
    BY <1>4, <1>6, <2>1
  <2> QED
    BY <1>1, <1>2, <2>2
<1> QED
  BY <1>5, <1>6

\* Everything is as at first or as at last.
Between(f, left) == \A p : At(f, p) = At(Workspace, p) \/ At(f, p) = At(left, p)

\* Whatever of a settled session has been replayed already, each step goes through
\* and leaves the files it touches as they are at last.
LEMMA SettledStepAgain ==
    ASSUME NEW run, NEW N, NEW left, LeadsTo(run, N, left), SettledOver(run, N, left),
           NEW n \in 1..N, NEW f, AreFiles(f), Between(f, left)
    PROVE  /\ ~Alone(run[n], f).failed
           /\ AreFiles(Alone(run[n], f).files) /\ Between(Alone(run[n], f).files, left)
           /\ \A p : At(f, p) = At(left, p) \/ p \in Touched(run[n])
                        => At(Alone(run[n], f).files, p) = At(left, p)
<1>1. PICK s : s = run[n]
  OBVIOUS
<1>2. PICK g : g = Rebuilt(run)[n - 1]
  OBVIOUS
<1>3. N \in Nat /\ N = Len(run) /\ IsStep(s) /\ ~Alone(s, g).failed
  BY <1>1, <1>2 DEF LeadsTo
<1>4. Rebuilt(run)[n] = Alone(s, g).files
  BY <1>1, <1>2, <1>3, RebuiltIs
<1>5. SettledStep(s, left) /\ OnePerPath(s.patch)
  BY <1>1 DEF SettledOver, SettledStep
<1>6. \A p \in Touched(s) : /\ At(g, p) = At(Workspace, p)
                            /\ At(Alone(s, g).files, p) = At(left, p)
  BY <1>1, <1>2, <1>4, SettledSession
<1>7. \A p \in Touched(s) : At(f, p) = At(g, p) \/ At(f, p) = At(left, p)
  BY <1>6 DEF Between
<1>8. /\ ~Alone(s, f).failed
      /\ \A p \in Touched(s) : At(Alone(s, f).files, p) = At(left, p)
  BY <1>3, <1>5, <1>6, <1>7, AloneAgain
<1>9. /\ AreFiles(Alone(s, f).files)
      /\ \A p : p \notin Touched(s) => At(Alone(s, f).files, p) = At(f, p)
  BY <1>3, <1>5, <1>8, AloneActs
<1>10. Between(Alone(s, f).files, left)
  BY <1>8, <1>9 DEF Between
<1> QED
  BY <1>1, <1>8, <1>9, <1>10

\* When all of it has been replayed, the files are those left.
LEMMA SettledEnd ==
    ASSUME NEW run, NEW N, NEW left, LeadsTo(run, N, left), SettledOver(run, N, left),
           NEW f, AreFiles(f), Between(f, left),
           \A i \in 1..N : \A p \in Touched(run[i]) : At(f, p) = At(left, p)
    PROVE  f = left
<1>1. \A p : At(f, p) = At(left, p)
  BY SettledSession DEF Between
<1>2. AreFiles(left)
  <2>1. N \in 0..N /\ left = Rebuilt(run)[N]
    BY DEF LeadsTo
  <2> QED
    BY <2>1, RebuiltAreFiles
<1> QED
  BY <1>1, <1>2, SameEverywhere

-----------------------------------------------------------------------------
(***************************************************************************)
(* The handler of a step.                                                  *)
(***************************************************************************)

HandlerFor(s) == [patch |-> s.patch, cmds |-> s.cmds]

\* No other patch or commands than those of the step are given to its handler.
OnlyOwn(given, s) ==
    /\ given.patch = <<>> \/ given.patch = s.patch
    /\ given.cmds # <<>> /\ s.cmds # <<>> => given.cmds = s.cmds

\* Given no other patch or commands than its own, it does what the step does alone,
\* unless that fails, and prints what the commands of the step print.
LEMMA HandlerDoes ==
    ASSUME NEW s, IsStep(s), NEW given, OnlyOwn(given, s),
           NEW f, NEW ran, ran = RunHandler(HandlerFor(s), given, f)
    PROVE  /\ ~Alone(s, f).failed => ran.files = Alone(s, f).files
           /\ Replayable(s) /\ ~Alone(s, f).failed => ran.ok
           /\ ran.cmds = <<>> \/ ran.cmds = s.cmds
           /\ AreFiles(f) => AreFiles(ran.files)
           /\ s.patch = <<>> /\ s.cmds # <<>> =>
                 ran.ok /\ ran.stdout = FlattenSeq(Printed(f, s.cmds))
<1>1. ran = RunHandler(HandlerFor(s), given, f)
  OBVIOUS
<1>2. HandlerFor(s).patch = s.patch /\ HandlerFor(s).cmds = s.cmds
  BY DEF HandlerFor
<1>3. CASE s.patch # <<>>
  <2>1. PICK d : d = RunPatch(f, s.patch)
    OBVIOUS
  <2>2. PICK ok : ok = ~d.failed
    OBVIOUS
  <2>3. Preferred(given.patch, s.patch) = s.patch
    BY DEF Preferred, OnlyOwn
  <2>4. ran = [files |-> d.files, ok |-> ok, cmds |-> <<>>, stdout |-> <<>>]
    BY <1>1, <1>2, <1>3, <2>1, <2>2, <2>3 DEF RunHandler
  <2>5. ran.files = d.files /\ ran.ok = ok /\ ran.cmds = <<>>
    BY <2>4
  <2>6. Alone(s, f) = ApplyPatch(f, s.patch)
    BY <1>3 DEF Alone
  <2>7. ~Alone(s, f).failed => d = Alone(s, f)
    BY <2>1, <2>6, RunPatchIs
  <2>8. AreFiles(f) => AreFiles(d.files)
    <3>1. IsPatch(s.patch)
      BY DEF IsStep
    <3> QED
      BY <2>1, <3>1, RunPatchIs
  <2> QED
    BY <1>1, <1>3, <2>2, <2>5, <2>7, <2>8
<1>4. CASE s.patch = <<>> /\ s.cmds # <<>>
  <2>1. Preferred(given.cmds, s.cmds) = s.cmds
    BY <1>4 DEF Preferred, OnlyOwn
  <2>2. PICK out : out = FlattenSeq(Printed(f, s.cmds))
    OBVIOUS
  <2>3. ran = [files |-> RunCommands(f, s.cmds), ok |-> TRUE, cmds |-> s.cmds,
               stdout |-> out]
    BY <1>1, <1>2, <1>4, <2>1, <2>2 DEF RunHandler
  <2>4. Alone(s, f) = [files |-> RunCommands(f, s.cmds), failed |-> FALSE]
    BY <1>4 DEF Alone
  <2>5. AreFiles(f) => AreFiles(RunCommands(f, s.cmds))
    BY CommandsAt DEF IsStep
  <2> QED
    BY <1>1, <2>2, <2>3, <2>4, <2>5
<1>5. CASE s.patch = <<>> /\ s.cmds = <<>>
  <2>1. ran = [files |-> f, ok |-> FALSE, cmds |-> <<>>, stdout |-> <<>>]
    BY <1>1, <1>2, <1>5 DEF RunHandler
  <2>2. Alone(s, f) = [files |-> f, failed |-> FALSE]
    BY <1>5, NoCommands DEF Alone
  <2> QED
    BY <1>1, <1>5, <2>1, <2>2 DEF Replayable
<1> QED
  BY <1>3, <1>4, <1>5

\* A step without commands or a patch leaves everything.
LEMMA NothingToReplay ==
    ASSUME NEW s, ~Replayable(s), NEW f
    PROVE  Alone(s, f) = [files |-> f, failed |-> FALSE]
BY NoCommands DEF Replayable, Alone

-----------------------------------------------------------------------------
(***************************************************************************)
(* The compilation of one session in which no action is taken twice.       *)
(***************************************************************************)

\* The steps of one run are those of the run.
LEMMA FlattenOne ==
    ASSUME NEW X, NEW run \in Seq(X)
    PROVE  FlattenSeq(<<run>>) = run
<1>1. PICK R : R = <<run>>
  OBVIOUS
<1>2. R \in Seq(Seq(X)) /\ Len(R) = 1 /\ R[1] = run
  BY <1>1
<1>3. PICK f \in [0..Len(R) -> Seq(X)] : Flattens(f, R) /\ FlattenSeq(R) = f[Len(R)]
  BY <1>2, FlattenSteps
<1>4. f[0] = <<>> /\ f[1] = f[0] \o run /\ FlattenSeq(R) = f[1]
  <2>1. f[0] = <<>> /\ \A n \in 1..Len(R) : f[n] = f[n - 1] \o R[n]
    BY <1>3 DEF Flattens
  <2>2. 1 \in 1..Len(R) /\ 1 - 1 = 0
    BY <1>2
  <2>3. f[1] = f[1 - 1] \o R[1]
    BY <2>1, <2>2
  <2> QED
    BY <1>2, <1>3, <2>1, <2>2, <2>3
<1>5. PICK none : none = <<>>
  OBVIOUS
<1>6. none \o run = run
  BY <1>5
<1> QED
  BY <1>1, <1>4, <1>5, <1>6

\* When as many actions are met as there are steps, they are those of the steps.
LEMMA MetInTurn ==
    ASSUME NEW X, NEW s \in Seq(X), NEW N \in Nat, N = Len(s),
           NEW f, Meets(f, s), Len(f[N]) = N
    PROVE  \A i \in 1..N : f[N][i] = s[i].action
<1>1. PICK A : \A x \in X : x.action \in A
  <2>1. \A x \in X : x.action \in {y.action : y \in X}
    OBVIOUS
  <2> QED
    BY <2>1
<1>2. \A n \in 0..N : f[n] \in Seq(A)
  BY <1>1, MetOnce
<1> DEFINE T == {n \in 0..N :
                   /\ Len(f[n]) <= n
                   /\ Len(f[n]) = n => \A i \in 1..n : f[n][i] = s[i].action}
<1>3. 0 \in T
  <2>1. f[0] = <<>>
    BY DEF Meets
  <2> QED
    BY <2>1
<1>4. ASSUME NEW n \in 1..N, n - 1 \in T
      PROVE  n \in T
  <2>1. PICK g : g = f[n - 1]
    OBVIOUS
  <2>2. PICK a : a = s[n].action
    OBVIOUS
  <2>3. f[n] = IF Contains(g, a) THEN g ELSE Append(g, a)
    BY <2>1, <2>2 DEF Meets
  <2>4. g \in Seq(A) /\ n - 1 \in 0..N
    BY <1>2, <2>1
  <2>5. a \in A
    <3>1. s[n] \in X
      OBVIOUS
    <3> QED
      BY <1>1, <2>2, <3>1
  <2>6. PICK m \in Nat : m = Len(g)
    BY <2>4
  <2>7. m <= n - 1 /\ (m = n - 1 => \A i \in 1..(n - 1) : g[i] = s[i].action)
    BY <1>4, <2>1, <2>6
  <2>8. CASE f[n] = g
    <3>1. Len(f[n]) = m /\ m < n
      BY <2>6, <2>7, <2>8
    <3> QED
      BY <3>1
  <2>9. CASE f[n] = Append(g, a)
    <3>1. PICK h : h = Append(g, a)
      OBVIOUS
    <3>2. Len(h) = m + 1 /\ h[m + 1] = a /\ \A i \in 1..m : h[i] = g[i]
      BY <2>4, <2>5, <2>6, <3>1
    <3>3. m + 1 <= n
      BY <2>7
    <3>4. ASSUME m + 1 = n
          PROVE  \A i \in 1..n : h[i] = s[i].action
      <4>1. \A i \in 1..n : i \in 1..m \/ i = m + 1
        BY <3>4
      <4>2. m = n - 1
        BY <3>4
      <4> QED
        BY <2>2, <2>7, <3>2, <4>1, <4>2
    <3> QED
      BY <2>9, <3>1, <3>2, <3>3, <3>4
  <2> QED
    BY <2>3, <2>8, <2>9
<1>5. \A n \in 0..N : n \in T
  <2> HIDE DEF T
  <2> QED
    BY <1>3, <1>4, InductionTo
<1> QED
  BY <1>5

\* The only step under a name is the step recorded under it.
LEMMA StepsOfOne ==
    ASSUME NEW X, NEW run \in Seq(X), NEW N \in Nat, N = Len(run), NEW i \in 1..N,
           \A j \in 1..N : run[j].action = run[i].action => j = i
    PROVE  StepsOf(<<run>>, run[i].action) = <<run[i]>>
<1>1. PICK a : a = run[i].action
  OBVIOUS
<1>2. PICK none : none = <<>>
  OBVIOUS
<1> DEFINE Goes(f, s) == f = [n \in 0..Len(s) |->
                               IF n = 0 THEN <<>>
                               ELSE IF s[n].action = a THEN Append(f[n - 1], s[n])
                               ELSE f[n - 1]]
           Is(f) == Goes(f, FlattenSeq(<<run>>))
<1>3. ASSUME NEW f PROVE Along(f, "named", a, none, run) <=> Is(f)
  <2>1. Along(f, "named", a, none, run) <=> Goes(f, run)
    BY <1>2 DEF Along, Does
  <2>2. FlattenSeq(<<run>>) = run
    BY FlattenOne
  <2> HIDE DEF Goes
  <2> QED
    BY <2>1, <2>2
<1>4. PICK f : f = CHOOSE g : Is(g)
  OBVIOUS
<1>5. Is(f)
  <2>1. Len(run) \in Nat
    OBVIOUS
  <2> HIDE DEF Is
  <2> QED
    BY <1>3, <1>4, <2>1, AlongExists
<1>6. StepsOf(<<run>>, a) = f[Len(run)]
  <2>1. FlattenSeq(<<run>>) = run
    BY FlattenOne
  <2>2. StepsOf(<<run>>, a) = f[Len(FlattenSeq(<<run>>))]
    BY <1>4 DEF StepsOf
  <2> QED
    BY <2>1, <2>2
<1>7. /\ f[0] = none
      /\ \A n \in 1..N : f[n] = IF run[n].action = a THEN Append(f[n - 1], run[n])
                                ELSE f[n - 1]
  <2>1. 0 \in 0..N /\ \A n \in 1..N : n \in 0..N /\ n # 0
    OBVIOUS
  <2>2. f = [n \in 0..N |-> IF n = 0 THEN none
                            ELSE IF run[n].action = a THEN Append(f[n - 1], run[n])
                            ELSE f[n - 1]]
    <3>1. FlattenSeq(<<run>>) = run
      BY FlattenOne
    <3>2. Goes(f, run)
      <4> HIDE DEF Goes
      <4> QED
        BY <1>5, <3>1
    <3> QED
      BY <1>2, <3>2
  <2> QED
    BY <2>1, <2>2, Zenon
<1>8. \A n \in 1..N : run[n].action = a <=> n = i
  BY <1>1
<1>9. PICK x : x = run[i]
  OBVIOUS
<1>10. Append(none, x) = <<x>>
  BY <1>2
<1>11. PICK one : one = <<x>>
  OBVIOUS
<1> DEFINE T == {n \in 0..N : f[n] = IF n < i THEN none ELSE one}
<1>12. 0 \in T
  BY <1>7
<1>13. ASSUME NEW n \in 1..N, n - 1 \in T
       PROVE  n \in T
  <2>1. f[n - 1] = IF n - 1 < i THEN none ELSE one
    BY <1>13
  <2>2. CASE n = i
    <3>1. f[n] = Append(f[n - 1], x)
      BY <1>7, <1>8, <1>9, <2>2
    <3>2. f[n - 1] = none
      BY <2>1, <2>2
    <3>3. f[n] = one
      BY <1>10, <1>11, <3>1, <3>2
    <3> QED
      BY <2>2, <3>3
  <2>3. CASE n # i
    <3>1. f[n] = f[n - 1]
      BY <1>7, <1>8, <2>3
    <3>2. n - 1 < i <=> n < i
      BY <2>3
    <3> QED
      BY <2>1, <3>1, <3>2
  <2> QED
    BY <2>2, <2>3
<1>14. \A n \in 0..N : n \in T
  <2> HIDE DEF T
  <2> QED
    BY <1>12, <1>13, InductionTo
<1>15. f[N] = one
  BY <1>14
<1> QED
  BY <1>1, <1>6, <1>9, <1>11, <1>15

\* What increases from 1 to N in 1..N stays where it is.
LEMMA IncreasingIsIdentity ==
    ASSUME NEW N \in Nat, NEW P, \A i \in 1..N : P[i] \in 1..N,
           \A i \in 2..N : P[i - 1] < P[i]
    PROVE  \A i \in 1..N : P[i] = i
<1> DEFINE Up == {n \in 0..N : n = 0 \/ P[n] >= n}
           Down == {n \in 0..N : n = N \/ P[N - n] <= N - n}
<1>1. \A n \in 0..N : n \in Up
  <2>1. 0 \in Up
    OBVIOUS
  <2>2. ASSUME NEW n \in 1..N, n - 1 \in Up
        PROVE  n \in Up
    <3>1. CASE n = 1
      BY <3>1
    <3>2. CASE n # 1
      <4>1. n \in 2..N /\ n - 1 \in 1..N
        BY <3>2
      <4>2. P[n - 1] \in 1..N /\ P[n] \in 1..N /\ P[n - 1] < P[n] /\ P[n - 1] >= n - 1
        BY <2>2, <4>1
      <4> QED
        BY <4>2
    <3> QED
      BY <3>1, <3>2
  <2> HIDE DEF Up
  <2> QED
    BY <2>1, <2>2, InductionTo
<1>2. \A n \in 0..N : n \in Down
  <2>1. 0 \in Down
    <3>1. CASE N = 0
      BY <3>1
    <3>2. CASE N # 0
      <4>1. N \in 1..N /\ N - 0 = N
        BY <3>2
      <4>2. P[N] \in 1..N
        BY <4>1
      <4> QED
        BY <4>1, <4>2
    <3> QED
      BY <3>1, <3>2
  <2>2. ASSUME NEW n \in 1..N, n - 1 \in Down
        PROVE  n \in Down
    <3>1. CASE n = N
      BY <3>1
    <3>2. CASE n # N
      <4>1. PICK k : k = N - n
        OBVIOUS
      <4>2. k \in 1..N /\ k + 1 \in 2..N /\ k + 1 \in 1..N /\ N - (n - 1) = k + 1 /\ n - 1 # N
            /\ (k + 1) - 1 = k
        BY <3>2, <4>1
      <4>3. P[k + 1] <= k + 1
        BY <2>2, <4>2
      <4>4. P[k] \in 1..N /\ P[k + 1] \in 1..N /\ P[k] < P[k + 1]
        BY <4>2
      <4>5. P[k] <= k
        BY <4>2, <4>3, <4>4
      <4> QED
        BY <4>1, <4>5
    <3> QED
      BY <3>1, <3>2
  <2> HIDE DEF Down
  <2> QED
    BY <2>1, <2>2, InductionTo
<1>3. ASSUME NEW i \in 1..N
      PROVE  P[i] = i
  <2>1. i \in 0..N /\ N - i \in 0..N /\ N - (N - i) = i /\ N - i # N
    OBVIOUS
  <2>2. P[i] >= i
    BY <1>1, <2>1
  <2>3. P[i] <= i
    BY <1>2, <2>1
  <2> QED
    BY <2>2, <2>3
<1> QED
  BY <1>3

\* A sequence is one of its elements.
LEMMA OfItsOwn ==
    ASSUME NEW A, NEW s \in Seq(A)
    PROVE  s \in Seq(ToSet(s))
BY DEF ToSet

\* Actions each of which depends on the one before it.
IsChain(actions, deps, N) ==
    /\ N \in Nat /\ N = Len(actions)
    /\ actions \in Seq(ToSet(actions)) /\ Distinct(actions)
    /\ \A i \in 2..N : actions[i - 1] \in deps[actions[i]]

\* An order of all actions in which each comes after the one before it is theirs.
LEMMA ChainHasOneOrder ==
    ASSUME NEW actions, NEW deps, NEW order, NEW N, IsChain(actions, deps, N),
           N = Len(order), order \in Seq(ToSet(actions)), Distinct(order), Respects(order, deps)
    PROVE  \A i \in 1..N : order[i] = actions[i]
<1>0. /\ N \in Nat /\ N = Len(actions)
      /\ actions \in Seq(ToSet(actions)) /\ Distinct(actions)
      /\ \A i \in 2..N : actions[i - 1] \in deps[actions[i]]
  BY DEF IsChain
<1>1. /\ IsFiniteSet(ToSet(actions)) /\ Cardinality(ToSet(actions)) = N
      /\ DOMAIN actions = 1..N
  BY <1>0, ActionsAreFinite
<1>2. order \in Seq(ToSet(order))
  BY <1>0, OfItsOwn
<1>3. /\ IsFiniteSet(ToSet(order)) /\ Cardinality(ToSet(order)) = N
      /\ DOMAIN order = 1..N
  BY <1>0, <1>2, ActionsAreFinite
<1>4. ToSet(order) \subseteq ToSet(actions)
  BY <1>3 DEF ToSet
<1>5. ToSet(order) = ToSet(actions)
  BY <1>1, <1>3, <1>4, FS_Subset
<1>6. \A i \in 1..N : \E j \in 1..N : order[j] = actions[i]
  <2>1. \A i \in 1..N : actions[i] \in ToSet(order)
    BY <1>1, <1>5 DEF ToSet
  <2> QED
    BY <1>3, <2>1 DEF ToSet
<1> DEFINE P == [i \in 1..N |-> CHOOSE j \in 1..N : order[j] = actions[i]]
<1>7. \A i \in 1..N : P[i] \in 1..N /\ order[P[i]] = actions[i]
  BY <1>6
<1>8. ASSUME NEW i \in 2..N
      PROVE  P[i - 1] < P[i]
  <2>1. i \in 1..N /\ i - 1 \in 1..N
    BY <1>0
  <2>2. /\ P[i] \in DOMAIN order /\ P[i - 1] \in DOMAIN order
        /\ order[P[i]] = actions[i] /\ order[P[i - 1]] = actions[i - 1]
    BY <1>3, <1>7, <2>1
  <2>3. order[P[i - 1]] \in deps[order[P[i]]]
    BY <1>0, <2>2
  <2> HIDE DEF P
  <2> QED
    BY <2>2, <2>3 DEF Respects
<1>9. \A i \in 1..N : P[i] = i
  <2> HIDE DEF P
  <2> QED
    BY <1>0, <1>7, <1>8, IncreasingIsIdentity
<1> HIDE DEF P
<1> QED
  BY <1>7, <1>9

\* A turn is recorded with what it keeps of its calls.
LEMMA StepHas ==
    ASSUME NEW t \in Turn
    PROVE  "cmds" \in DOMAIN StepOf(t) /\ "patch" \in DOMAIN StepOf(t)
<1>1. ASSUME NEW a, NEW c, NEW p, NEW shape
      PROVE  LET r == Joined([action |-> a, cmds |-> c, patch |-> p], shape)
             IN  "cmds" \in DOMAIN r /\ "patch" \in DOMAIN r
  BY DEF Joined
<1>2. PICK call : call = MergedOf(t.calls)
  OBVIOUS
<1>3. StepOf(t) = IF t.calls = <<>>
                  THEN Joined([action |-> t.action, cmds |-> <<>>, patch |-> <<>>], t.shape)
                  ELSE Joined([action |-> call.action, cmds |-> call.cmds,
                               patch |-> call.patch], t.shape)
  BY <1>2, Zenon DEF StepOf, MergedOf
<1>4. CASE t.calls = <<>>
  BY <1>1, <1>3, <1>4
<1>5. CASE t.calls # <<>>
  BY <1>1, <1>3, <1>5
<1> QED
  BY <1>4, <1>5

\* A recorded step is one, and says whether it is exact.
LEMMA RecordedStepIs ==
    ASSUME NEW s \in RecordedStep
    PROVE  IsStep(s) /\ s.exact \in BOOLEAN /\ s.plain \in BOOLEAN
<1>1. PICK e \in BOOLEAN, p \in BOOLEAN, t \in Turn :
          s = Joined([exact |-> e, plain |-> p], StepOf(t))
  BY DEF RecordedStep
<1>2. PICK r : r = StepOf(t)
  OBVIOUS
<1>3. "cmds" \in DOMAIN r /\ "patch" \in DOMAIN r
  BY <1>2, StepHas
<1>4. s.cmds = r.cmds /\ s.patch = r.patch /\ s.exact = e /\ s.plain = p
  BY <1>1, <1>2, <1>3 DEF Joined
<1>5. IsStep(r)
  BY <1>2, StepIsStep
<1> QED
  BY <1>4, <1>5 DEF IsStep

\* Before the first compilation there is nothing.
NothingYet == ir.status = "none" => ir = Nothing

\* A session compiled to its own steps, in order: each can be run, exactly, by the
\* handler of its action.
Replays(run, N) ==
    /\ N \in Nat /\ N = Len(run) /\ DOMAIN run = 1..N /\ runs = <<run>>
    /\ ir.status = "ok" /\ Len(ir.order) = N
    /\ \A i \in 1..N : /\ IsStep(run[i]) /\ run[i].exact
                       /\ ir.order[i] = run[i].action
                       /\ StepsOf(ir.of, run[i].action) = <<run[i]>>
                       /\ Replayable(run[i]) => ir.tier[run[i].action] = "code"
    /\ \A i, j \in 1..N : run[i].cmds # <<>> /\ run[j].cmds # <<>> => run[i].cmds = run[j].cmds

\* The order, when the actions are those of the steps in turn.
LEMMA StraightOrder ==
    ASSUME NEW X, NEW run \in Seq(X), NEW N \in Nat, N = Len(run),
           NEW actions, actions = ActionOrder(<<run>>), Len(actions) = N,
           NEW deps, deps = Dependencies(actions, <<run>>, {}),
           NEW order, order = TopologicalSort(actions, deps)
    PROVE  /\ IrAccepts(actions, deps) /\ Len(order) = N
           /\ \A i \in 1..N : actions[i] = run[i].action /\ order[i] = run[i].action
           /\ \A i, j \in 1..N : run[i].action = run[j].action => i = j
           /\ \A i \in 1..N : run[i].action \in ToSet(actions)
<1>1. PICK R : R = <<run>>
  OBVIOUS
<1>2. R \in Seq(Seq(X)) /\ Len(R) = 1 /\ R[1] = run
  BY <1>1
<1>3. PICK f : Meets(f, FlattenSeq(R)) /\ actions = f[Len(FlattenSeq(R))]
  BY <1>1, <1>2, ActionOrderMeets
<1>4. Meets(f, run) /\ actions = f[N]
  <2>1. FlattenSeq(R) = run
    BY <1>1, FlattenOne
  <2> QED
    BY <1>3, <2>1
<1>5. \A i \in 1..N : actions[i] = run[i].action
  BY <1>4, MetInTurn
<1>6. /\ actions \in Seq(ToSet(actions)) /\ Distinct(actions)
      /\ \A i \in 1..Len(R) : \A j \in 1..Len(R[i]) : R[i][j].action \in ToSet(actions)
  BY <1>1, <1>2, ActionOrderIs
<1>7. \A i \in 1..N : run[i].action \in ToSet(actions)
  BY <1>2, <1>6
<1>8. DOMAIN actions = 1..N
  BY <1>6
<1>9. \A i, j \in 1..N : run[i].action = run[j].action => i = j
  BY <1>5, <1>6, <1>8 DEF Distinct
<1>10. Graph(actions, deps) /\ Orderable(actions, deps)
  <2>1. Graph(actions, deps)
    BY <1>1, <1>2, DependenciesAreAGraph
  <2>2. Orderable(actions, deps)
    BY <1>1, <1>2, RecordingsAreOrderable
  <2> QED
    BY <2>1, <2>2
<1>11. /\ IrAccepts(actions, deps) /\ Respects(order, deps)
       /\ order \in Seq(ToSet(actions)) /\ Distinct(order)
  BY <1>10, BothAcceptTheOrderable
<1>12. Len(order) = N
  BY <1>11 DEF IrAccepts
<1>13. ASSUME NEW i \in 2..N
       PROVE  actions[i - 1] \in deps[actions[i]]
  <2>1. i \in 1..N /\ i - 1 \in 1..N /\ 1 \in 1..Len(R) /\ i \in 2..Len(R[1])
    BY <1>2
  <2>2. PICK e : e = <<actions[i - 1], actions[i]>>
    OBVIOUS
  <2>3. e[1] = actions[i - 1] /\ e[2] = actions[i]
    BY <2>2
  <2>4. e = <<R[1][i - 1].action, R[1][i].action>>
    BY <1>2, <1>5, <2>1, <2>2
  <2>5. Follows(e, R[1])
    BY <2>1, <2>4 DEF Follows
  <2>6. e \in Succeeds(R)
    BY <1>2, <2>1, <2>5, SucceedsIs
  <2>7. Index(actions, actions[i]) = i
    BY <1>6, <2>1, IndexIs
  <2>8. Index(actions, actions[i - 1]) = i - 1
    BY <1>6, <2>1, IndexIs
  <2>9. e \in Forward(actions, R)
    <3>1. Index(actions, e[1]) < Index(actions, e[2])
      BY <2>3, <2>7, <2>8
    <3> QED
      BY <2>6, <3>1, Zenon DEF Forward
  <2>10. e \in Recorded(actions, R)
    BY <2>9 DEF Recorded
  <2>11. actions[i] \in ToSet(actions)
    BY <1>8, <2>1 DEF ToSet
  <2>12. actions[i - 1] \in Dependencies(actions, R, {})[actions[i]]
    BY <2>3, <2>10, <2>11, DependenciesAre
  <2> QED
    BY <1>1, <2>12
<1>14. \A i \in 1..N : order[i] = actions[i]
  <2>1. IsChain(actions, deps, N)
    BY <1>6, <1>13 DEF IsChain
  <2> QED
    BY <1>11, <1>12, <2>1, ChainHasOneOrder
<1> QED
  BY <1>5, <1>7, <1>9, <1>11, <1>12, <1>14

\* A set with at most one member has no two.
LEMMA AtMostOne ==
    ASSUME NEW S, IsFiniteSet(S), Cardinality(S) <= 1, NEW x \in S, NEW y \in S
    PROVE  x = y
<1>1. SUFFICES ASSUME x # y PROVE FALSE
  OBVIOUS
<1>2. Cardinality({x}) = 1 /\ IsFiniteSet({x})
  BY FS_Singleton
<1>3. {x} \in SUBSET S
  OBVIOUS
<1>4. Cardinality({x}) <= Cardinality(S) /\ (Cardinality(S) = Cardinality({x}) => S = {x})
  BY <1>3, FS_Subset
<1>5. Cardinality(S) \in Nat
  BY FS_CardinalityType
<1>6. S = {x}
  BY <1>2, <1>4, <1>5
<1> QED
  BY <1>1, <1>6

\* A straight session is compiled to its own steps, in order.
LEMMA StraightReplays ==
    ASSUME IInv, NothingYet, Straight
    PROVE  Replays(runs[1], Len(runs[1])) /\ runs[1] \in Seq(RecordedStep)
<1>1. PICK run : run = runs[1]
  OBVIOUS
<1>2. /\ ir.of = runs /\ Len(ir.of) = 1 /\ StatedBy(behaviors) = {}
      /\ \A s \in ToSet(run) : s.exact /\ "gate" \notin WordsOf(s.action)
      /\ Len(ir.actions) = Len(run)
      /\ Cardinality({s.cmds : s \in ToSet(run)} \ {<<>>}) <= 1
  BY <1>1, Zenon DEF Straight
<1>3. runs \in Seq(Seq(RecordedStep))
  BY DEF IInv, RunsAreRecorded
<1>4. run \in Seq(RecordedStep) /\ runs = <<run>>
  <2>1. Len(runs) = 1
    BY <1>2
  <2>2. PICK Y : Y = Seq(RecordedStep)
    OBVIOUS
  <2>3. runs \in Seq(Y)
    BY <1>3, <2>2
  <2>4. runs[1] \in Y /\ runs = <<runs[1]>>
    BY <2>1, <2>3
  <2> QED
    BY <1>1, <2>2, <2>4
<1>5. PICK N \in Nat : N = Len(run) /\ DOMAIN run = 1..N
  BY <1>4
<1>6. ir.status # "none"
  <2>1. ASSUME ir.status = "none"
        PROVE  FALSE
    <3>1. ir.of = <<>>
      BY <2>1 DEF NothingYet, Nothing
    <3>2. PICK none : none = <<>>
      OBVIOUS
    <3>3. Len(none) = 0
      BY <3>2
    <3> QED
      BY <1>2, <3>1, <3>2, <3>3
  <2> QED
    BY <2>1
<1>7. /\ ir.actions = ActionOrder(<<run>>)
      /\ ir.deps = Dependencies(ir.actions, <<run>>, {})
      /\ ir.status = IF IrAccepts(ir.actions, ir.deps) THEN "ok" ELSE "rejected"
      /\ ir.order = TopologicalSort(ir.actions, ir.deps)
      /\ ir.tier = [a \in ToSet(ir.actions) |->
                      Lowered(a, StepsOf(<<run>>, a), WordsOf(a),
                              GovernedBy(behaviors, a, WordsOf(a)))]
  BY <1>2, <1>4, <1>6 DEF IInv, CompilationStands
<1>8. /\ IrAccepts(ir.actions, ir.deps) /\ Len(ir.order) = N
      /\ \A i \in 1..N : ir.order[i] = run[i].action
      /\ \A i, j \in 1..N : run[i].action = run[j].action => i = j
      /\ \A i \in 1..N : run[i].action \in ToSet(ir.actions)
  BY <1>2, <1>4, <1>5, <1>7, StraightOrder
<1>9. \A i \in 1..N : run[i] \in RecordedStep /\ run[i] \in ToSet(run)
  BY <1>4, <1>5 DEF ToSet
<1>10. ASSUME NEW i \in 1..N
       PROVE  StepsOf(<<run>>, run[i].action) = <<run[i]>>
  BY <1>4, <1>5, <1>8, StepsOfOne
<1>11. ASSUME NEW i \in 1..N, Replayable(run[i])
       PROVE  ir.tier[run[i].action] = "code"
  <2>1. PICK a : a = run[i].action
    OBVIOUS
  <2>2. PICK x : x = run[i]
    OBVIOUS
  <2>3. ir.tier[a] = Lowered(a, <<x>>, WordsOf(a), GovernedBy(behaviors, a, WordsOf(a)))
    BY <1>7, <1>8, <1>10, <2>1, <2>2
  <2>4. AllReplayable(<<x>>)
    <3>1. ToSet(<<x>>) = {x} /\ <<x>> # <<>>
      BY DEF ToSet
    <3> QED
      BY <1>11, <2>2, <3>1 DEF AllReplayable
  <2>5. "gate" \notin WordsOf(a)
    BY <1>2, <1>9, <2>1
  <2>6. Deterministic(a, <<x>>, WordsOf(a), GovernedBy(behaviors, a, WordsOf(a))) = "code"
    BY <2>4 DEF Deterministic
  <2> QED
    BY <2>1, <2>3, <2>5, <2>6 DEF Lowered
<1>12. ASSUME NEW i \in 1..N, NEW j \in 1..N, run[i].cmds # <<>>, run[j].cmds # <<>>
       PROVE  run[i].cmds = run[j].cmds
  <2>1. PICK S : S = {s.cmds : s \in ToSet(run)} \ {<<>>}
    OBVIOUS
  <2>2. run[i].cmds \in S /\ run[j].cmds \in S
    BY <1>9, <1>12, <2>1
  <2>3. IsFiniteSet(S)
    <3>1. IsFiniteSet({run[k].cmds : k \in 1..N})
      <4>1. IsFiniteSet(1..N)
        BY FS_Interval
      <4> DEFINE f == [k \in 1..N |-> run[k].cmds]
      <4>2. f \in Surjection(1..N, {run[k].cmds : k \in 1..N})
        BY DEF Surjection
      <4> HIDE DEF f
      <4> QED
        BY <4>1, <4>2, FS_Surjection
    <3>2. S \subseteq {run[k].cmds : k \in 1..N}
      BY <1>5, <2>1 DEF ToSet
    <3> QED
      BY <3>1, <3>2, FS_Subset
  <2>4. Cardinality(S) <= 1
    BY <1>2, <2>1
  <2> QED
    BY <2>2, <2>3, <2>4, AtMostOne
<1>13. \A i \in 1..N : IsStep(run[i]) /\ run[i].exact
  BY <1>2, <1>9, RecordedStepIs
<1>14. Replays(run, N)
  <2>1. ir.status = "ok" /\ Len(ir.order) = N
    BY <1>7, <1>8
  <2>2. \A i \in 1..N : /\ IsStep(run[i]) /\ run[i].exact
                        /\ ir.order[i] = run[i].action
                        /\ StepsOf(ir.of, run[i].action) = <<run[i]>>
                        /\ Replayable(run[i]) => ir.tier[run[i].action] = "code"
    BY <1>2, <1>4, <1>8, <1>10, <1>11, <1>13
  <2> QED
    BY <1>4, <1>5, <1>12, <2>1, <2>2 DEF Replays
<1> QED
  BY <1>1, <1>4, <1>5, <1>14

-----------------------------------------------------------------------------
(***************************************************************************)
(* The invariant of recording: the session being recorded leads to the     *)
(* agent's files when each of its steps is exact.                          *)
(***************************************************************************)

Faithful == {s \in RecordedStep : s.plain => s.exact}

\* What the agent was told of the calls behind a step that has no patch, in the files f
\* it found: when it came in whole lines, what the commands of the step print there.
Told(s, f, said) ==
    s.patch = <<>> /\ said # <<>> /\ (\A i \in DOMAIN said : Whole(said[i]))
        => s.cmds # <<>> /\ said = Printed(f, s.cmds)

SessionStands ==
    /\ runs \in Seq(Seq(Faithful)) /\ runs # <<>>
    /\ (\A i \in 1..Len(runs[Len(runs)]) : runs[Len(runs)][i].exact)
          => /\ LeadsTo(runs[Len(runs)], Len(runs[Len(runs)]), files)
             /\ \A i \in 1..Len(runs[Len(runs)]) :
                   Told(runs[Len(runs)][i], Rebuilt(runs[Len(runs)])[i - 1], answers[i])

\* A session goes on by one more step.
LEMMA LeadsToMore ==
    ASSUME NEW X, NEW run \in Seq(X), NEW N, NEW left, LeadsTo(run, N, left),
           NEW s \in X, IsStep(s), ~Alone(s, left).failed
    PROVE  LeadsTo(Append(run, s), N + 1, Alone(s, left).files)
<1>1. PICK more : more = Append(run, s)
  OBVIOUS
<1>2. /\ N \in Nat /\ N = Len(run) /\ left = Rebuilt(run)[N]
      /\ \A n \in 1..N : IsStep(run[n]) /\ ~Alone(run[n], Rebuilt(run)[n - 1]).failed
  BY DEF LeadsTo
<1>3. /\ N + 1 \in Nat /\ N + 1 = Len(more) /\ DOMAIN more = 1..(N + 1)
      /\ more[N + 1] = s /\ \A n \in 1..N : more[n] = run[n]
  BY <1>1, <1>2
<1>4. /\ \A n \in 0..N : Rebuilt(more)[n] = Rebuilt(run)[n]
      /\ Rebuilt(more)[N + 1] = Alone(s, left).files
  BY <1>1, <1>2, RebuiltOn
<1>5. ASSUME NEW n \in 1..(N + 1)
      PROVE  IsStep(more[n]) /\ ~Alone(more[n], Rebuilt(more)[n - 1]).failed
  <2>1. CASE n = N + 1
    <3>1. Rebuilt(more)[n - 1] = left /\ more[n] = s
      BY <1>2, <1>3, <1>4, <2>1
    <3> QED
      BY <3>1
  <2>2. CASE n # N + 1
    <3>1. n \in 1..N /\ n - 1 \in 0..N
      BY <1>2, <2>2
    <3> QED
      BY <1>2, <1>3, <1>4, <3>1
  <2> QED
    BY <2>1, <2>2
<1>6. LeadsTo(more, N + 1, Alone(s, left).files)
  BY <1>3, <1>4, <1>5 DEF LeadsTo
<1> QED
  BY <1>1, <1>6

\* A session begins where there is nothing but the workspace.
LEMMA LeadsToStart == LeadsTo(<<>>, 0, Workspace)
<1>1. PICK none : none = <<>>
  OBVIOUS
<1>2. Len(none) = 0 /\ DOMAIN none = 1..0
  BY <1>1
<1>3. Rebuilt(none)[0] = Workspace
  BY <1>2, RebuiltIs
<1> QED
  BY <1>1, <1>2, <1>3 DEF LeadsTo

\* The first calls of a batch are a batch.
LEMMA FirstCalls ==
    ASSUME NEW calls, NEW N, Batch(calls, N), NEW n \in 1..N,
           NEW first, first \in Seq(ToSet(calls)), Len(first) = n - 1,
           \A i \in 1..(n - 1) : first[i] = calls[i],
           NEW kind, Of(calls, kind)
    PROVE  Batch(first, n - 1) /\ Of(first, kind)
<1>1. /\ N \in Nat /\ N = Len(calls) /\ calls \in Seq(ToSet(calls))
      /\ ToSet(calls) = {calls[i] : i \in 1..N}
  BY DEF Batch
<1>2. DOMAIN first = 1..(n - 1) /\ n - 1 \in Nat
  BY <1>1
<1>3. ToSet(first) = {first[i] : i \in 1..(n - 1)}
  BY <1>2 DEF ToSet
<1>4. first \in Seq(ToSet(first))
  BY <1>2, <1>3
<1>5. Batch(first, n - 1)
  BY <1>2, <1>3, <1>4 DEF Batch
<1>6. \A c \in ToSet(first) : c \in ToSet(calls)
  BY <1>1, <1>3
<1> QED
  BY <1>5, <1>6 DEF Of

\* A call the agent was answered in whole lines ran a command, and was answered what
\* the command prints.
LEMMA AnswerIsPrinted ==
    ASSUME NEW f, NEW c, Whole(Answer(f, c))
    PROVE  c.tool \in Shellish /\ Answer(f, c) = Prints(f, CommandOf(c))
<1>1. ~Whole(Notice)
  BY DEF Whole, Notice, NL, Last
<1>2. CASE c.tool = "bash"
  <2>1. CommandOf(c) = [program |-> c.program, path |-> c.path]
    BY <1>2 DEF CommandOf
  <2> QED
    BY <1>2, <2>1 DEF Answer, Shellish
<1>3. CASE c.tool = "read" /\ c.path \in DOMAIN f
  <2>1. CommandOf(c).program = "cat" /\ CommandOf(c).path = c.path
    BY <1>3 DEF CommandOf
  <2>2. Answer(f, c) = f[c.path]
    BY <1>3 DEF Answer
  <2> QED
    BY <1>3, <2>1, <2>2 DEF Prints, Shellish
<1>4. CASE c.tool # "bash" /\ ~(c.tool = "read" /\ c.path \in DOMAIN f)
  BY <1>1, <1>4 DEF Answer
<1> QED
  BY <1>2, <1>3, <1>4

\* A turn answered in whole lines was a batch of commands, all kept by its step, which
\* prints there what the agent was told.
LEMMA TurnAnswers ==
    ASSUME NEW t \in Turn, NEW f, NEW s, s.cmds = StepOf(t).cmds,
           NEW said, said = Answers(f, t.calls)
    PROVE  Told(s, f, said)
<1>1. PICK calls : calls = t.calls
  OBVIOUS
<1>2. PICK N : N = Len(calls)
  OBVIOUS
<1>3. Batch(calls, N) /\ (N = 0 <=> calls = <<>>)
  BY <1>1, <1>2, TurnIsBatch
<1>4. N \in Nat /\ ToSet(calls) = {calls[i] : i \in 1..N}
  BY <1>3 DEF Batch
<1> DEFINE before(n) == Played(f, SubSeq(calls, 1, n - 1)).files
<1>5. said = [n \in 1..N |-> Answer(before(n), calls[n])]
  BY <1>1, <1>2 DEF Answers
<1> SUFFICES ASSUME said # <<>>, \A i \in DOMAIN said : Whole(said[i])
             PROVE  s.cmds # <<>> /\ said = Printed(f, s.cmds)
  BY DEF Told
<1>6. DOMAIN said = 1..N /\ \A n \in 1..N : said[n] = Answer(before(n), calls[n])
  <2> HIDE DEF before
  <2> QED
    BY <1>5
<1>7. N # 0
  <2>1. ASSUME N = 0
        PROVE  FALSE
    <3>1. PICK none : none = <<>>
      OBVIOUS
    <3>2. none = [n \in 1..0 |-> Answer(before(n), calls[n])]
      <4> HIDE DEF before
      <4> QED
        BY <3>1
    <3> HIDE DEF before
    <3> QED
      BY <1>5, <2>1, <3>1, <3>2
  <2> QED
    BY <2>1
<1>8. \A n \in 1..N : /\ calls[n].tool \in Shellish
                      /\ said[n] = Prints(before(n), CommandOf(calls[n]))
  BY <1>6, AnswerIsPrinted
<1>9. Of(calls, Shellish)
  BY <1>4, <1>8 DEF Of
<1>10. PICK cmds : cmds = s.cmds
  OBVIOUS
<1>11. /\ cmds \in Seq({CommandOf(c) : c \in ToSet(calls)}) /\ Len(cmds) = N
       /\ \A i \in 1..N : cmds[i] = CommandOf(calls[i])
  <2>1. PICK step : step = MergedOf(calls)
    OBVIOUS
  <2>2. KeepsCommands(step, calls, N)
    BY <1>3, <1>7, <1>9, <2>1, MergedIs
  <2>3. cmds = step.cmds
    BY <1>1, <1>3, <1>7, <1>10, <2>1, StepKeeps
  <2> QED
    BY <2>2, <2>3 DEF KeepsCommands
<1>12. cmds # <<>>
  BY <1>7, <1>11, EmptySeq
<1>13. ASSUME NEW n \in 1..N
       PROVE  before(n) = RunCommands(f, SubSeq(cmds, 1, n - 1))
  <2>1. PICK first : first = SubSeq(calls, 1, n - 1)
    OBVIOUS
  <2>2. /\ Batch(first, n - 1) /\ Of(first, Shellish)
        /\ \A i \in 1..(n - 1) : first[i] = calls[i]
    <3>1. PICK X : X = ToSet(calls)
      OBVIOUS
    <3>2. calls \in Seq(X) /\ N = Len(calls)
      BY <1>3, <3>1 DEF Batch
    <3>3. /\ first \in Seq(X) /\ Len(first) = n - 1
          /\ \A i \in 1..(n - 1) : first[i] = calls[i]
      BY <1>4, <2>1, <3>2
    <3> HIDE DEF before
    <3> QED
      BY <1>3, <1>9, <3>1, <3>3, FirstCalls
  <2>3. PICK those : those = SubSeq(cmds, 1, n - 1)
    OBVIOUS
  <2>4. Len(those) = n - 1 /\ \A i \in 1..(n - 1) : those[i] = cmds[i]
    BY <1>4, <1>11, <2>3
  <2>5. \A i \in 1..(n - 1) : those[i] = CommandOf(first[i])
    BY <1>4, <1>11, <2>2, <2>4
  <2>6. Played(f, first) = [files |-> RunCommands(f, those), failed |-> FALSE]
    BY <2>2, <2>4, <2>5, ShellTurn
  <2> QED
    BY <2>1, <2>3, <2>6
<1>14. Printed(f, cmds) = [n \in 1..N |-> Prints(RunCommands(f, SubSeq(cmds, 1, n - 1)), cmds[n])]
  BY <1>11 DEF Printed
<1>15. said = Printed(f, cmds)
  <2>1. \A n \in 1..N : said[n] = Prints(RunCommands(f, SubSeq(cmds, 1, n - 1)), cmds[n])
    BY <1>8, <1>11, <1>13
  <2>2. said = [n \in 1..N |-> said[n]]
    <3> HIDE DEF before
    <3> QED
      BY <1>5, <1>6
  <2> QED
    BY <1>14, <2>1, <2>2
<1> QED
  BY <1>10, <1>12, <1>15

\* A turn is recorded as one of the recorded steps, exact when it is plain.
LEMMA RecordsStep ==
    ASSUME NEW t \in Turn, NEW s,
           s = Joined([exact |-> Exact(t), plain |-> Plain(t)], StepOf(t))
    PROVE  /\ s \in Faithful /\ s.exact = Exact(t)
           /\ s.exact => /\ ~Alone(s, files).failed
                         /\ Alone(s, files).files = Effect(t).files
           /\ s.cmds = StepOf(t).cmds
<1>1. PICK e \in BOOLEAN : e = Exact(t)
  BY DEF Exact
<1>2. PICK p \in BOOLEAN : p = Plain(t)
  BY DEF Plain
<1>3. s = Joined([exact |-> e, plain |-> p], StepOf(t))
  BY <1>1, <1>2
<1>4. s \in RecordedStep
  BY <1>3 DEF RecordedStep
<1>5. PICK r : r = StepOf(t)
  OBVIOUS
<1>6. s.exact = e /\ s.plain = p
  BY <1>3 DEF Joined
<1>7. p => e
  BY <1>1, <1>2, PlainIsExact
<1>8. s.cmds = r.cmds /\ s.patch = r.patch
  <2>1. "cmds" \in DOMAIN r /\ "patch" \in DOMAIN r
    BY <1>5, StepHas
  <2> QED
    BY <1>3, <1>5, <2>1 DEF Joined
<1>9. Alone(s, files) = Alone(r, files)
  BY <1>8 DEF Alone
<1>10. ASSUME e
       PROVE  ~Alone(s, files).failed /\ Alone(s, files).files = Effect(t).files
  BY <1>1, <1>5, <1>9, <1>10 DEF Exact
<1> QED
  BY <1>1, <1>4, <1>5, <1>6, <1>7, <1>8, <1>10 DEF Faithful

\* Recording keeps it.
LEMMA SessionRecords ==
    ASSUME SessionStands, NEW t \in Turn, Record(t)
    PROVE  SessionStands'
<1>1. PICK s : s = Joined([exact |-> Exact(t), plain |-> Plain(t)], StepOf(t))
  OBVIOUS
<1>2. /\ runs' = [runs EXCEPT ![Len(runs)] = Append(@, s)] /\ files' = Effect(t).files
  BY <1>1 DEF Record
<1>3. /\ s \in Faithful
      /\ s.exact => ~Alone(s, files).failed /\ Alone(s, files).files = Effect(t).files
      /\ s.cmds = StepOf(t).cmds
  BY <1>1, RecordsStep
<1>4. runs \in Seq(Seq(Faithful)) /\ runs # <<>>
  BY DEF SessionStands
<1>5. runs' \in Seq(Seq(Faithful)) /\ runs' # <<>>
  BY <1>2, <1>3, <1>4, RecordingOn
<1>6. PICK M \in Nat : M = Len(runs) /\ M # 0
  BY <1>4, EmptySeq
<1>7. PICK run : run = runs[M]
  OBVIOUS
<1>8. run \in Seq(Faithful)
  BY <1>4, <1>6, <1>7
<1>9. PICK more : more = Append(run, s)
  OBVIOUS
<1>10. Len(runs') = M /\ runs'[M] = more
  BY <1>2, <1>4, <1>6, <1>7, <1>9
<1>11. PICK N \in Nat : N = Len(run)
  BY <1>8
<1>12. Len(more) = N + 1 /\ more[N + 1] = s /\ \A i \in 1..N : more[i] = run[i]
  BY <1>3, <1>8, <1>9, <1>11
<1>13. ASSUME \A i \in 1..Len(more) : more[i].exact
       PROVE  /\ LeadsTo(more, Len(more), files')
              /\ \A i \in 1..Len(more) : Told(more[i], Rebuilt(more)[i - 1], answers'[i])
  <2>1. s.exact /\ \A i \in 1..N : run[i].exact
    <3>1. N + 1 \in 1..(N + 1) /\ \A i \in 1..N : i \in 1..(N + 1)
      OBVIOUS
    <3> QED
      BY <1>12, <1>13, <3>1
  <2>2. /\ LeadsTo(run, N, files)
        /\ \A i \in 1..N : Told(run[i], Rebuilt(run)[i - 1], answers[i])
    BY <1>6, <1>7, <1>11, <2>1 DEF SessionStands
  <2>3. IsStep(s) /\ ~Alone(s, files).failed /\ files' = Alone(s, files).files
    BY <1>2, <1>3, <2>1, RecordedStepIs DEF Faithful
  <2>4. LeadsTo(more, N + 1, files')
    BY <1>3, <1>8, <1>9, <2>2, <2>3, LeadsToMore
  <2>5. \A n \in 0..N : Rebuilt(more)[n] = Rebuilt(run)[n]
    BY <1>3, <1>8, <1>9, <1>11, RebuiltOn
  <2>6. /\ \A i \in 1..N : answers'[i] = answers[i]
        /\ answers'[N + 1] = Answers(files, t.calls)
    <3>1. Len(Last(runs)) = N
      BY <1>6, <1>7, <1>11 DEF Last
    <3>2. answers' = [n \in 1..N + 1 |-> IF n <= N THEN answers[n]
                                         ELSE Answers(files, t.calls)]
      BY <3>1 DEF Record
    <3> QED
      BY <1>11, <3>2
  <2>7. ASSUME NEW i \in 1..N + 1
        PROVE  Told(more[i], Rebuilt(more)[i - 1], answers'[i])
    <3>1. CASE i = N + 1
      <4>1. Rebuilt(more)[i - 1] = files
        BY <1>11, <2>2, <2>5, <3>1 DEF LeadsTo
      <4>2. Told(s, files, answers'[N + 1])
        BY <1>3, <2>6, TurnAnswers
      <4> QED
        BY <1>12, <3>1, <4>1, <4>2
    <3>2. CASE i # N + 1
      <4>1. i \in 1..N /\ i - 1 \in 0..N
        BY <1>11, <3>2
      <4> QED
        BY <1>12, <2>2, <2>5, <2>6, <4>1
    <3> QED
      BY <3>1, <3>2
  <2> QED
    BY <1>12, <2>4, <2>7
<1> QED
  BY <1>5, <1>10, <1>13 DEF SessionStands

\* So does beginning another run.
LEMMA SessionBegins ==
    ASSUME SessionStands, NextRun
    PROVE  SessionStands'
<1>1. PICK none : none = <<>>
  OBVIOUS
<1>2. runs' = Append(runs, none) /\ files' = Workspace
  BY <1>1 DEF NextRun
<1>3. runs \in Seq(Seq(Faithful))
  BY DEF SessionStands
<1>4. runs' \in Seq(Seq(Faithful)) /\ runs' # <<>>
  BY <1>1, <1>2, <1>3, BeginningARun
<1>5. PICK M \in Nat : M = Len(runs)
  BY <1>3
<1>6. none \in Seq(Faithful) /\ Len(none) = 0
  BY <1>1
<1>7. Len(runs') = M + 1 /\ runs'[M + 1] = none
  BY <1>2, <1>3, <1>5, <1>6
<1>8. LeadsTo(none, 0, Workspace)
  BY <1>1, LeadsToStart
<1> QED
  BY <1>2, <1>4, <1>6, <1>7, <1>8 DEF SessionStands

\* At first nothing is recorded.
LEMMA SessionInit ==
    ASSUME Init
    PROVE  SessionStands
<1>1. PICK none : none = <<>>
  OBVIOUS
<1>2. none \in Seq(Faithful) /\ Len(none) = 0
  BY <1>1
<1>3. PICK one : one = <<none>>
  OBVIOUS
<1>4. one \in Seq(Seq(Faithful)) /\ Len(one) = 1 /\ one[1] = none
  BY <1>2, <1>3
<1>5. runs = one /\ files = Workspace
  BY <1>1, <1>3 DEF Init
<1>6. one # <<>>
  BY <1>4, EmptySeq
<1>7. LeadsTo(none, 0, Workspace)
  BY <1>1, LeadsToStart
<1>8. \A i \in 1..Len(none) : Told(none[i], Rebuilt(none)[i - 1], answers[i])
  BY <1>2
<1> QED
  BY <1>2, <1>4, <1>5, <1>6, <1>7, <1>8 DEF SessionStands

\* Every step of the system keeps what the session being recorded leads to.
LEMMA SessionNext == SessionStands /\ [Next]_vars => SessionStands'
<1> SUFFICES ASSUME SessionStands, [Next]_vars
             PROVE  SessionStands'
  OBVIOUS
<1>1. ASSUME UNCHANGED <<runs, files, answers>>
      PROVE  SessionStands'
  BY <1>1 DEF SessionStands
<1>2. CASE \E t \in Turn : Record(t)
  BY <1>2, SessionRecords
<1>3. CASE NextRun
  BY <1>3, SessionBegins
<1>4. CASE Compile
  BY <1>1, <1>4 DEF Compile
<1>5. CASE Start(MaxStarts)
  BY <1>1, <1>5 DEF Start
<1>6. CASE ReplayStep
  BY <1>1, <1>6 DEF ReplayStep
<1>7. CASE Crash
  BY <1>1, <1>7 DEF Crash
<1>8. CASE UNCHANGED vars
  BY <1>1, <1>8 DEF vars
<1> QED
  BY <1>2, <1>3, <1>4, <1>5, <1>6, <1>7, <1>8 DEF Next

-----------------------------------------------------------------------------
(***************************************************************************)
(* The invariant of replaying: how far the replay of a straight session    *)
(* has come on the disk d.                                                 *)
(***************************************************************************)

ReplayOf(run, N, left, d, r) ==
    /\ r.at \in 0..N /\ AreFiles(d)
    /\ r.given = <<>> \/ \E i \in 1..N : r.given = run[i].cmds
    /\ r.phase = "done" => r.at = N
    /\ r.starts = 1 => d = Rebuilt(run)[r.at]
    /\ SettledOver(run, N, left) =>
          /\ Between(d, left)
          /\ r.phase \in {"running", "done"} =>
                \A i \in 1..r.at : \A p \in Touched(run[i]) : At(d, p) = At(left, p)
          /\ r.phase = "failed" => r.at \in 1..N /\ ~Replayable(run[r.at])

\* Nothing has been replayed before the first start; from then on nothing is recorded
\* or compiled.
ReplayStands ==
    /\ NothingYet
    /\ replay.starts \in Nat
    /\ replay = [phase |-> replay.phase, at |-> replay.at, given |-> replay.given,
                 starts |-> replay.starts]
    /\ replay.starts = 0 => disk = Workspace /\ replay.phase = "idle"
    /\ replay.starts # 0 /\ Straight =>
          ReplayOf(runs[1], Len(runs[1]), files, disk, replay)

AllInv == IInv /\ SessionStands /\ ReplayStands

\* The step that is replayed does what it does alone.
LEMMA OutcomeIs ==
    ASSUME NEW run, NEW N, Replays(run, N), NEW n \in 1..N, n = replay.at + 1,
           replay.given = <<>> \/ \E i \in 1..N : replay.given = run[i].cmds
    PROVE  /\ ~Alone(run[n], disk).failed =>
                 /\ Outcome.files = Alone(run[n], disk).files
                 /\ Replayable(run[n]) => Outcome.ok
           /\ Outcome.cmds = <<>> \/ Outcome.cmds = run[n].cmds
           /\ AreFiles(disk) => AreFiles(Outcome.files)
<1>1. PICK s : s = run[n]
  OBVIOUS
<1>2. /\ IsStep(s) /\ Doing = s.action /\ StepsOf(ir.of, Doing) = <<s>>
      /\ Replayable(s) => ir.tier[Doing] = "code"
  BY <1>1 DEF Replays, Doing
<1>3. HandlerOf(StepsOf(ir.of, Doing)) = HandlerFor(s)
  <2>1. Head(<<s>>) = s
    OBVIOUS
  <2> QED
    BY <1>2, <2>1 DEF HandlerOf, HandlerFor
<1>4. replay.given # <<>> /\ s.cmds # <<>> => replay.given = s.cmds
  BY <1>1 DEF Replays
<1>5. PICK given : given = [patch |-> <<>>, cmds |-> replay.given]
  OBVIOUS
<1>6. PICK ran : ran = RunHandler(HandlerFor(s), given, disk)
  OBVIOUS
<1>7. /\ ~Alone(s, disk).failed => /\ ran.files = Alone(s, disk).files
                                   /\ Replayable(s) => ran.ok
      /\ ran.cmds = <<>> \/ ran.cmds = s.cmds
      /\ AreFiles(disk) => AreFiles(ran.files)
  <2>1. OnlyOwn(given, s)
    BY <1>4, <1>5 DEF OnlyOwn
  <2>2. IsStep(s)
    BY <1>2
  <2> QED
    BY <1>6, <2>1, <2>2, HandlerDoes
<1>8. CASE ir.tier[Doing] = "code"
  <2>1. Outcome = ran
    BY <1>3, <1>5, <1>6, <1>8 DEF Outcome
  <2> QED
    BY <1>1, <1>7, <2>1
<1>9. CASE ir.tier[Doing] # "code"
  <2>1. Outcome = [files |-> disk, ok |-> TRUE, cmds |-> <<>>, stdout |-> <<>>]
    BY <1>9 DEF Outcome
  <2>2. ~Replayable(s) /\ Alone(s, disk) = [files |-> disk, failed |-> FALSE]
    BY <1>2, <1>9, NothingToReplay
  <2> QED
    BY <1>1, <2>1, <2>2
<1> QED
  BY <1>8, <1>9

\* Replaying a step keeps it.
LEMMA ReplayGoesOn ==
    ASSUME NEW run, NEW N, Replays(run, N), LeadsTo(run, N, files),
           ReplayOf(run, N, files, disk, replay),
           replay = [phase |-> replay.phase, at |-> replay.at, given |-> replay.given,
                     starts |-> replay.starts],
           ReplayStep
    PROVE  /\ ReplayOf(run, N, files, disk', replay')
           /\ replay'.starts = replay.starts
           /\ replay' = [phase |-> replay'.phase, at |-> replay'.at, given |-> replay'.given,
                         starts |-> replay'.starts]
<1>1. PICK n : n = replay.at + 1
  OBVIOUS
<1>2. N \in Nat /\ Len(ir.order) = N
  BY DEF Replays
<1>3. n \in 1..N /\ n - 1 \in 0..N /\ replay.at = n - 1 /\ replay.phase = "running"
  BY <1>1, <1>2 DEF ReplayOf, ReplayStep
<1>4. PICK s : s = run[n]
  OBVIOUS
<1>5. PICK out : out = Outcome
  OBVIOUS
<1>6. /\ ~Alone(s, disk).failed => /\ out.files = Alone(s, disk).files
                                   /\ Replayable(s) => out.ok
      /\ out.cmds = <<>> \/ out.cmds = s.cmds
      /\ AreFiles(disk) => AreFiles(out.files)
  BY <1>1, <1>3, <1>4, <1>5, OutcomeIs DEF ReplayOf
<1>7. PICK phase : phase = IF ~out.ok THEN "failed" ELSE IF n = N THEN "done" ELSE "running"
  OBVIOUS
<1>8. PICK given : given = IF out.cmds # <<>> THEN out.cmds ELSE replay.given
  OBVIOUS
<1>9. disk' = out.files /\ replay' = [phase |-> phase, at |-> n, given |-> given,
                                      starts |-> replay.starts]
  <2>1. disk' = out.files
    BY <1>5 DEF ReplayStep
  <2>2. replay' = [replay EXCEPT !.phase = phase, !.at = replay.at + 1, !.given = given]
    BY <1>1, <1>2, <1>5, <1>7, <1>8 DEF ReplayStep
  <2> QED
    BY <1>1, <2>1, <2>2
<1>10. /\ replay'.phase = phase /\ replay'.at = n /\ replay'.given = given
       /\ replay'.starts = replay.starts
  BY <1>9
<1>11. ~Alone(s, Rebuilt(run)[n - 1]).failed
  BY <1>3, <1>4 DEF LeadsTo
<1>12. AreFiles(disk')
  BY <1>6, <1>9 DEF ReplayOf
<1>13. given = <<>> \/ \E i \in 1..N : given = run[i].cmds
  BY <1>3, <1>4, <1>6, <1>8 DEF ReplayOf
<1>14. phase = "done" => n = N
  BY <1>7
<1>15. replay.starts = 1 => disk' = Rebuilt(run)[n]
  <2>1. Rebuilt(run)[n] = Alone(s, Rebuilt(run)[n - 1]).files
    BY <1>2, <1>3, <1>4, RebuiltIs DEF Replays
  <2> QED
    BY <1>3, <1>6, <1>9, <1>11, <2>1 DEF ReplayOf
<1>16. ASSUME SettledOver(run, N, files)
       PROVE  /\ Between(disk', files)
              /\ phase \in {"running", "done"} =>
                    \A i \in 1..n : \A p \in Touched(run[i]) : At(disk', p) = At(files, p)
              /\ phase = "failed" => n \in 1..N /\ ~Replayable(run[n])
  <2>1. /\ ~Alone(s, disk).failed /\ Between(disk', files)
        /\ \A p : At(disk, p) = At(files, p) \/ p \in Touched(s) => At(disk', p) = At(files, p)
    <3>1. AreFiles(disk) /\ Between(disk, files)
      BY <1>16 DEF ReplayOf
    <3>2. /\ ~Alone(s, disk).failed /\ Between(Alone(s, disk).files, files)
          /\ \A p : At(disk, p) = At(files, p) \/ p \in Touched(s)
                      => At(Alone(s, disk).files, p) = At(files, p)
      BY <1>3, <1>4, <1>16, <3>1, SettledStepAgain
    <3> QED
      BY <1>6, <1>9, <3>2
  <2>2. ASSUME NEW i \in 1..n, NEW p \in Touched(run[i])
        PROVE  At(disk', p) = At(files, p)
    <3>1. CASE i = n
      BY <1>4, <2>1, <3>1
    <3>2. CASE i # n
      <4>1. i \in 1..replay.at
        BY <1>3, <3>2
      <4>2. At(disk, p) = At(files, p)
        BY <1>3, <1>16, <4>1 DEF ReplayOf
      <4> QED
        BY <2>1, <4>2
    <3> QED
      BY <3>1, <3>2
  <2>3. phase = "failed" => ~Replayable(s)
    BY <1>6, <1>7, <2>1
  <2> QED
    BY <1>3, <1>4, <2>1, <2>2, <2>3
<1>17. ReplayOf(run, N, files, disk', replay')
  BY <1>3, <1>10, <1>12, <1>13, <1>14, <1>15, <1>16 DEF ReplayOf
<1> QED
  BY <1>9, <1>10, <1>17

\* A start keeps it.
LEMMA ReplayStarts ==
    ASSUME NEW run, NEW N, Replays(run, N), LeadsTo(run, N, files), NEW r,
           r.phase = "running" /\ r.at = 0 /\ r.given = <<>>,
           \/ disk = Workspace
           \/ r.starts # 1 /\ ReplayOf(run, N, files, disk, replay)
    PROVE  ReplayOf(run, N, files, disk, r)
<1>1. N \in Nat /\ N = Len(run)
  BY DEF LeadsTo
<1>2. Rebuilt(run)[0] = Workspace
  BY <1>1, RebuiltIs
<1>3. AreFiles(disk)
  BY WorkspaceIsFiles DEF AreFiles, ReplayOf
<1>4. SettledOver(run, N, files) => Between(disk, files)
  BY DEF Between, ReplayOf
<1>5. 0 \in 0..N /\ 1..0 = {}
  BY <1>1
<1> QED
  BY <1>2, <1>3, <1>4, <1>5 DEF ReplayOf

\* Nothing is replayed at first.
LEMMA ReplayInit == Init => ReplayStands
<1> SUFFICES ASSUME Init
             PROVE  ReplayStands
  OBVIOUS
<1>1. ir = Nothing /\ disk = Workspace
      /\ replay = [phase |-> "idle", at |-> 0, given |-> <<>>, starts |-> 0]
  BY DEF Init
<1>2. replay.starts = 0 /\ replay.phase = "idle" /\ replay.at = 0 /\ replay.given = <<>>
  BY <1>1
<1> QED
  BY <1>1, <1>2 DEF ReplayStands, NothingYet

\* A straight session leads to the agent's files.
LEMMA StraightLeads ==
    ASSUME IInv, SessionStands, NothingYet, Straight
    PROVE  /\ Replays(runs[1], Len(runs[1]))
           /\ LeadsTo(runs[1], Len(runs[1]), files)
           /\ \A i \in 1..Len(runs[1]) :
                 Told(runs[1][i], Rebuilt(runs[1])[i - 1], answers[i])
<1>1. PICK run : run = runs[1]
  OBVIOUS
<1>2. PICK N : N = Len(run)
  OBVIOUS
<1>3. Replays(run, N)
  BY <1>1, <1>2, StraightReplays
<1>4. Len(runs) = 1 /\ \A i \in 1..N : run[i].exact
  BY <1>3 DEF Replays, Straight
<1>5. /\ LeadsTo(run, N, files)
      /\ \A i \in 1..N : Told(run[i], Rebuilt(run)[i - 1], answers[i])
  BY <1>1, <1>2, <1>4 DEF SessionStands
<1> QED
  BY <1>1, <1>2, <1>3, <1>5

\* Every step of the system keeps the replay on the recording it follows.
LEMMA ReplayNext == AllInv /\ [Next]_vars => ReplayStands'
<1> SUFFICES ASSUME AllInv, [Next]_vars
             PROVE  ReplayStands'
  OBVIOUS
<1>1. IInv /\ SessionStands /\ ReplayStands
  BY DEF AllInv
<1>2. ASSUME replay.starts = 0, UNCHANGED <<disk, replay>>, NothingYet'
      PROVE  ReplayStands'
  BY <1>1, <1>2 DEF ReplayStands
<1>3. ASSUME NEW t \in Turn, Record(t)
      PROVE  ReplayStands'
  BY <1>1, <1>2, <1>3 DEF Record, ReplayStands, NothingYet
<1>4. CASE NextRun
  BY <1>1, <1>2, <1>4 DEF NextRun, ReplayStands, NothingYet
<1>5. CASE Compile
  <2>1. ir'.status # "none"
    BY <1>5 DEF Compile, Compilation
  <2> QED
    BY <1>2, <1>5, <2>1 DEF Compile, NothingYet
<1>6. ASSUME UNCHANGED <<runs, behaviors, files, ir>>
      PROVE  /\ NothingYet' /\ (Straight' <=> Straight)
             /\ Straight => /\ Replays(runs[1], Len(runs[1]))
                            /\ LeadsTo(runs[1], Len(runs[1]), files)
  <2>1. NothingYet
    BY <1>1 DEF ReplayStands
  <2>2. NothingYet'
    BY <1>6, <2>1 DEF NothingYet
  <2>3. Straight' <=> Straight
    BY <1>6 DEF Straight
  <2> QED
    BY <1>1, <2>1, <2>2, <2>3, StraightLeads
<1>7. CASE Start(MaxStarts)
  <2>1. /\ UNCHANGED <<runs, behaviors, files, ir>> /\ disk' = disk
        /\ replay' = [phase |-> "running", at |-> 0, given |-> <<>>,
                      starts |-> replay.starts + 1]
    BY <1>7 DEF Start
  <2>2. /\ replay'.phase = "running" /\ replay'.at = 0 /\ replay'.given = <<>>
        /\ replay'.starts = replay.starts + 1
    BY <2>1
  <2>3. replay.starts \in Nat
    BY <1>1 DEF ReplayStands
  <2>4. replay'.starts \in Nat /\ replay'.starts # 0 /\ (replay.starts # 0 => replay'.starts # 1)
    BY <2>2, <2>3
  <2>5. ASSUME Straight
        PROVE  ReplayOf(runs[1], Len(runs[1]), files, disk, replay')
    <3>1. Replays(runs[1], Len(runs[1])) /\ LeadsTo(runs[1], Len(runs[1]), files)
      BY <1>6, <2>1, <2>5
    <3>2. \/ disk = Workspace
          \/ replay'.starts # 1 /\ ReplayOf(runs[1], Len(runs[1]), files, disk, replay)
      BY <1>1, <2>4, <2>5 DEF ReplayStands
    <3> QED
      BY <2>2, <3>1, <3>2, ReplayStarts
  <2> QED
    BY <1>6, <2>1, <2>2, <2>4, <2>5 DEF ReplayStands
<1>8. CASE ReplayStep
  <2>1. UNCHANGED <<runs, behaviors, files, ir>> /\ replay.phase = "running"
    BY <1>8 DEF ReplayStep
  <2>2. /\ replay.starts \in Nat /\ replay.starts # 0
        /\ replay = [phase |-> replay.phase, at |-> replay.at, given |-> replay.given,
                     starts |-> replay.starts]
    BY <1>1, <2>1 DEF ReplayStands
  <2>3. /\ replay'.starts = replay.starts
        /\ replay' = [phase |-> replay'.phase, at |-> replay'.at, given |-> replay'.given,
                      starts |-> replay'.starts]
    <3>1. PICK phase, at, given : replay' = [replay EXCEPT !.phase = phase, !.at = at, !.given = given]
      BY <1>8 DEF ReplayStep
    <3>2. replay' = [phase |-> phase, at |-> at, given |-> given, starts |-> replay.starts]
      BY <2>2, <3>1
    <3> QED
      BY <3>2
  <2>4. ASSUME Straight
        PROVE  ReplayOf(runs[1], Len(runs[1]), files, disk', replay')
    <3>1. Replays(runs[1], Len(runs[1])) /\ LeadsTo(runs[1], Len(runs[1]), files)
      BY <1>6, <2>1, <2>4
    <3>2. ReplayOf(runs[1], Len(runs[1]), files, disk, replay)
      BY <1>1, <2>2, <2>4 DEF ReplayStands
    <3> QED
      BY <1>8, <2>2, <3>1, <3>2, ReplayGoesOn
  <2> QED
    BY <1>6, <2>1, <2>2, <2>3, <2>4 DEF ReplayStands
<1>9. CASE Crash
  <2>1. UNCHANGED <<runs, behaviors, files, ir, disk>> /\ replay.phase = "running"
    BY <1>9 DEF Crash
  <2>2. /\ replay.starts \in Nat /\ replay.starts # 0
        /\ replay = [phase |-> replay.phase, at |-> replay.at, given |-> replay.given,
                     starts |-> replay.starts]
    BY <1>1, <2>1 DEF ReplayStands
  <2>3. replay' = [phase |-> "idle", at |-> replay.at, given |-> replay.given,
                   starts |-> replay.starts]
    <3>1. replay' = [replay EXCEPT !.phase = "idle"]
      BY <1>9 DEF Crash
    <3> QED
      BY <2>2, <3>1
  <2>4. /\ replay'.phase = "idle" /\ replay'.at = replay.at /\ replay'.given = replay.given
        /\ replay'.starts = replay.starts
    BY <2>3
  <2>5. ASSUME Straight
        PROVE  ReplayOf(runs[1], Len(runs[1]), files, disk, replay')
    <3>1. ReplayOf(runs[1], Len(runs[1]), files, disk, replay)
      BY <1>1, <2>2, <2>5 DEF ReplayStands
    <3> QED
      BY <2>4, <3>1 DEF ReplayOf
  <2> QED
    BY <1>6, <2>1, <2>2, <2>3, <2>4, <2>5 DEF ReplayStands
<1>10. CASE UNCHANGED vars
  <2>1. UNCHANGED <<runs, behaviors, files, answers, ir, disk, replay>>
    BY <1>10 DEF vars
  <2> QED
    BY <1>1, <1>6, <2>1 DEF ReplayStands
<1> QED
  BY <1>3, <1>4, <1>5, <1>7, <1>8, <1>9, <1>10 DEF Next

-----------------------------------------------------------------------------
\* At any time: the compilation stands, the session being recorded leads to the agent's
\* files when it is exact, and the replay of a straight session has come as far as it
\* says.
THEOREM ReplayIsInvariant == Spec => []AllInv
<1>1. Init => AllInv
  BY InitEstablishes, SessionInit, ReplayInit DEF AllInv
<1>2. AllInv /\ [Next]_vars => AllInv'
  BY NextPreserves, SessionNext, ReplayNext DEF AllInv
<1> QED
  BY <1>1, <1>2, PTL DEF Spec

\* A turn whose calls all went through, all of one kind and none of them writing
\* an empty file, is recorded as a step that does the same again: normalising and
\* merging the calls in adapters/proxy/tools.py loses nothing that matters.
THEOREM PlainTurnsReplayHolds == Spec => []PlainTurnsReplay
<1>1. ASSUME AllInv
      PROVE  PlainTurnsReplay
  <2>1. runs \in Seq(Seq(Faithful))
    BY <1>1 DEF AllInv, SessionStands
  <2>2. FlattenSeq(runs) \in Seq(Faithful)
    BY <2>1, FlattenTyped
  <2>3. ToSet(FlattenSeq(runs)) \subseteq Faithful
    BY <2>2 DEF ToSet
  <2> QED
    BY <2>3 DEF PlainTurnsReplay, Faithful
<1> QED
  BY <1>1, ReplayIsInvariant, PTL

\* What is known of a straight session.
LEMMA StraightKnown ==
    ASSUME AllInv, Straight
    PROVE  /\ Replays(runs[1], Len(runs[1]))
           /\ LeadsTo(runs[1], Len(runs[1]), files)
           /\ \A i \in 1..Len(runs[1]) :
                 Told(runs[1][i], Rebuilt(runs[1])[i - 1], answers[i])
           /\ Settled(runs[1]) => SettledOver(runs[1], Len(runs[1]), files)
           /\ replay.starts # 0 => ReplayOf(runs[1], Len(runs[1]), files, disk, replay)
<1>1. /\ Replays(runs[1], Len(runs[1]))
      /\ LeadsTo(runs[1], Len(runs[1]), files)
      /\ \A i \in 1..Len(runs[1]) :
            Told(runs[1][i], Rebuilt(runs[1])[i - 1], answers[i])
  BY StraightLeads DEF AllInv, ReplayStands
<1>2. PICK run : run = runs[1]
  OBVIOUS
<1>3. PICK N : N = Len(run)
  OBVIOUS
<1>4. DOMAIN run = 1..N
  BY <1>1, <1>2, <1>3 DEF LeadsTo
<1>5. ASSUME Settled(run)
      PROVE  SettledOver(run, N, files)
  <2>1. \A i \in 1..N : run[i] \in ToSet(run)
    BY <1>4 DEF ToSet
  <2>2. ASSUME NEW s \in ToSet(run)
        PROVE  SettledStep(s, files)
    <3>1. OnePerPath(s.patch)
      BY <1>5 DEF Settled, OnePerPath
    <3>2. \A b \in ToSet(s.patch) : SettledBlock(b, files)
      BY <1>5 DEF Settled, SettledBlock
    <3> QED
      BY <3>1, <3>2 DEF SettledStep
  <2>3. \A i, j \in 1..N : i # j => Touched(run[i]) \cap Touched(run[j]) = {}
    BY <1>4, <1>5 DEF Settled
  <2> QED
    BY <2>1, <2>2, <2>3 DEF SettledOver
<1> QED
  BY <1>1, <1>2, <1>3, <1>5 DEF AllInv, ReplayStands

\* The first replay of a straight session leaves the files the agent left.
THEOREM StraightSessionRebuildsHolds == Spec => []StraightSessionRebuilds
<1>1. ASSUME AllInv
      PROVE  StraightSessionRebuilds
  <2> SUFFICES ASSUME Straight, replay.phase = "done", replay.starts = 1
               PROVE  disk = files
    BY DEF StraightSessionRebuilds
  <2>1. PICK run : run = runs[1]
    OBVIOUS
  <2>2. PICK N : N = Len(run)
    OBVIOUS
  <2>3. LeadsTo(run, N, files) /\ ReplayOf(run, N, files, disk, replay)
    BY <1>1, <2>1, <2>2, StraightKnown
  <2>4. disk = Rebuilt(run)[N]
    BY <2>3 DEF ReplayOf
  <2> QED
    BY <2>3, <2>4 DEF LeadsTo
<1> QED
  BY <1>1, ReplayIsInvariant, PTL

\* However often the replay of a straight, settled session is started, after crashes
\* or full runs: it stops only at an action that has nothing to run, and when it is
\* done the files are those the agent left.
THEOREM RestartsConvergeHolds == Spec => []RestartsConverge
<1>1. ASSUME AllInv
      PROVE  RestartsConverge
  <2> SUFFICES ASSUME Straight, Settled(runs[1])
               PROVE  /\ replay.phase = "failed" => NotEmitted
                      /\ replay.phase = "done" => disk = files
    BY DEF RestartsConverge
  <2>1. PICK run : run = runs[1]
    OBVIOUS
  <2>2. PICK N : N = Len(run)
    OBVIOUS
  <2>3. Replays(run, N) /\ LeadsTo(run, N, files) /\ SettledOver(run, N, files)
    BY <1>1, <2>1, <2>2, StraightKnown
  <2>4. ASSUME replay.phase # "idle"
        PROVE  ReplayOf(run, N, files, disk, replay)
    <3>1. replay.starts # 0
      BY <1>1, <2>4 DEF AllInv, ReplayStands
    <3> QED
      BY <1>1, <2>1, <2>2, <3>1, StraightKnown
  <2>5. ASSUME replay.phase = "failed"
        PROVE  NotEmitted
    <3>1. replay.at \in 1..N /\ ~Replayable(run[replay.at])
      BY <2>3, <2>4, <2>5 DEF ReplayOf
    <3>2. PICK s : s = run[replay.at]
      OBVIOUS
    <3>3. StepsOf(ir.of, ir.order[replay.at]) = <<s>>
      BY <2>3, <3>1, <3>2 DEF Replays
    <3>4. Head(<<s>>) = s
      OBVIOUS
    <3> QED
      BY <3>1, <3>2, <3>3, <3>4 DEF NotEmitted, Replayable
  <2>6. ASSUME replay.phase = "done"
        PROVE  disk = files
    <3>1. /\ AreFiles(disk) /\ Between(disk, files)
          /\ \A i \in 1..N : \A p \in Touched(run[i]) : At(disk, p) = At(files, p)
      BY <2>3, <2>4, <2>6 DEF ReplayOf
    <3> QED
      BY <2>3, <3>1, SettledEnd
  <2> QED
    BY <2>5, <2>6
<1> QED
  BY <1>1, ReplayIsInvariant, PTL

\* Answers that come in whole lines are the tool result as they are.
LEMMA WholeResult ==
    ASSUME NEW said, \A i \in DOMAIN said : Whole(said[i]),
           NEW f, NEW cmds, Len(cmds) \in Nat, said = Printed(f, cmds)
    PROVE  ToolResult(said) = FlattenSeq(said)
<1>1. PICK ended : ended = [n \in DOMAIN said |-> Ended(said[n])]
  OBVIOUS
<1>2. \A n \in DOMAIN said : Ended(said[n]) = said[n]
  BY DEF Ended
<1>3. said = [n \in DOMAIN said |-> said[n]]
  BY DEF Printed
<1>4. ended = said
  BY <1>1, <1>2, <1>3
<1> QED
  BY <1>1, <1>4 DEF ToolResult

\* One step of the benchmark of a straight, settled session in which the agent was
\* told nothing but whole lines.
LEMMA BenchStepMatches ==
    ASSUME NEW run, NEW N, Replays(run, N), LeadsTo(run, N, files),
           SettledOver(run, N, files), NEW n \in 1..N, NEW said,
           Told(run[n], Rebuilt(run)[n - 1], said),
           run[n].patch = <<>> => \A i \in DOMAIN said : Whole(said[i])
    PROVE  BenchStep([files |-> Rebuilt(run)[n - 1], match |-> TRUE], run[n], said)
               = [files |-> Rebuilt(run)[n], match |-> TRUE]
<1>1. PICK s : s = run[n]
  OBVIOUS
<1>2. PICK g : g = Rebuilt(run)[n - 1]
  OBVIOUS
<1>3. /\ N \in Nat /\ N = Len(run) /\ IsStep(s) /\ ~Alone(s, g).failed
      /\ Replayable(s) => ir.tier[s.action] = "code"
      /\ StepsOf(ir.of, s.action) = <<s>>
  BY <1>1, <1>2 DEF LeadsTo, Replays
<1>4. Rebuilt(run)[n] = Alone(s, g).files
  BY <1>1, <1>2, <1>3, RebuiltIs
<1>5. PICK st : st = [files |-> g, match |-> TRUE]
  OBVIOUS
<1>6. PICK given : given = [patch |-> s.patch, cmds |-> s.cmds]
  OBVIOUS
<1>7. PICK ran : ran = RunHandler(HandlerFor(s), given, g)
  OBVIOUS
<1>8. /\ ran.files = Alone(s, g).files
      /\ s.patch = <<>> /\ s.cmds # <<>> =>
            ran.ok /\ ran.stdout = FlattenSeq(Printed(g, s.cmds))
  <2>1. OnlyOwn(given, s)
    BY <1>6 DEF OnlyOwn
  <2> QED
    BY <1>3, <1>7, <2>1, HandlerDoes
<1>9. HandlerOf(StepsOf(ir.of, s.action)) = HandlerFor(s)
  <2>1. Head(<<s>>) = s
    OBVIOUS
  <2> QED
    BY <1>3, <2>1 DEF HandlerOf, HandlerFor
<1> DEFINE Printing == s.patch = <<>> /\ said # <<>> =>
                           ran.ok /\ SameLines(ToolResult(said), ran.stdout)
<1>10. BenchStep(st, s, said) =
          IF ir.tier[s.action] # "code" THEN st
          ELSE [files |-> ran.files,
                match |-> /\ st.match
                          /\ s.patch # <<>> => VerifyPatch(ran.files, s.patch)
                          /\ Printing]
  <2>1. st.files = g
    BY <1>5
  <2> QED
    BY <1>6, <1>7, <1>9, <2>1, Zenon DEF BenchStep
<1>11. CASE ir.tier[s.action] # "code"
  <2>1. Alone(s, g).files = g
    BY <1>3, <1>11, NothingToReplay
  <2> HIDE DEF Printing
  <2> QED
    BY <1>1, <1>2, <1>4, <1>5, <1>10, <1>11, <2>1
<1>12. CASE ir.tier[s.action] = "code"
  <2>1. s.patch # <<>> => VerifyPatch(ran.files, s.patch)
    <3>1. SettledStep(s, files)
      BY <1>1 DEF SettledOver
    <3>2. \A p \in Touched(s) : At(Alone(s, g).files, p) = At(files, p)
      BY <1>1, <1>4, SettledSession
    <3> QED
      BY <1>3, <1>8, <3>1, <3>2, AloneVerifies
  <2>2. Printing
    <3> SUFFICES ASSUME s.patch = <<>>, said # <<>>
                 PROVE  ran.ok /\ SameLines(ToolResult(said), ran.stdout)
      OBVIOUS
    <3>1. \A i \in DOMAIN said : Whole(said[i])
      BY <1>1
    <3>2. s.cmds # <<>> /\ said = Printed(g, s.cmds)
      BY <1>1, <1>2, <3>1 DEF Told
    <3>3. ToolResult(said) = FlattenSeq(said)
      BY <1>3, <3>1, <3>2, WholeResult DEF IsStep
    <3>4. ran.ok /\ ran.stdout = ToolResult(said)
      BY <1>8, <3>2, <3>3
    <3> QED
      BY <3>4 DEF SameLines
  <2>3. (/\ st.match
         /\ s.patch # <<>> => VerifyPatch(ran.files, s.patch)
         /\ Printing) = TRUE
    <3> HIDE DEF Printing
    <3> QED
      BY <1>5, <2>1, <2>2
  <2>4. BenchStep(st, s, said) = [files |-> ran.files, match |-> TRUE]
    <3> HIDE DEF Printing
    <3> QED
      BY <1>10, <1>12, <2>3
  <2> QED
    BY <1>1, <1>2, <1>4, <1>5, <1>8, <2>4
<1> QED
  BY <1>11, <1>12

\* The benchmark of a straight, settled session in which the agent was told nothing but
\* whole lines matches at every step and ends with the agent's files.
THEOREM BenchmarkMatchesHolds == Spec => []BenchmarkMatches
<1>1. ASSUME AllInv
      PROVE  BenchmarkMatches
  <2> SUFFICES ASSUME Straight, Settled(runs[1]), Shown(runs[1])
               PROVE  Benchmark(runs[1]) = [files |-> files, match |-> TRUE]
    BY DEF BenchmarkMatches
  <2>1. PICK run : run = runs[1]
    OBVIOUS
  <2>2. PICK N : N = Len(run)
    OBVIOUS
  <2>3. /\ Replays(run, N) /\ LeadsTo(run, N, files) /\ SettledOver(run, N, files)
        /\ \A n \in 1..N : Told(run[n], Rebuilt(run)[n - 1], answers[n])
    BY <1>1, <2>1, <2>2, StraightKnown
  <2>4. N \in Nat /\ N = Len(run) /\ files = Rebuilt(run)[N]
    BY <2>3 DEF LeadsTo
  <2>5. Rebuilt(run)[0] = Workspace
    BY <2>4, RebuiltIs
  <2>6. PICK u : /\ u[0] = [files |-> Workspace, match |-> TRUE]
                 /\ \A n \in 1..N : u[n] = BenchStep(u[n - 1], run[n], answers[n])
                 /\ Benchmark(run) = u[N]
    BY <2>4, BenchmarkGoes, Zenon
  <2> DEFINE T == {n \in 0..N : u[n] = [files |-> Rebuilt(run)[n], match |-> TRUE]}
  <2>7. 0 \in T
    <3>1. 0 \in 0..N
      BY <2>4
    <3>2. u[0] = [files |-> Rebuilt(run)[0], match |-> TRUE]
      BY <2>5, <2>6
    <3> QED
      BY <3>1, <3>2
  <2>8. ASSUME NEW n \in 1..N, n - 1 \in T
        PROVE  n \in T
    <3>1. u[n - 1] = [files |-> Rebuilt(run)[n - 1], match |-> TRUE]
      BY <2>8
    <3>2. u[n] = BenchStep(u[n - 1], run[n], answers[n])
      BY <2>6
    <3>3. Told(run[n], Rebuilt(run)[n - 1], answers[n])
      BY <2>3
    <3>4. run[n].patch = <<>> => \A i \in DOMAIN answers[n] : Whole(answers[n][i])
      BY <2>1, <2>3 DEF Shown, LeadsTo
    <3>5. BenchStep([files |-> Rebuilt(run)[n - 1], match |-> TRUE], run[n], answers[n])
              = [files |-> Rebuilt(run)[n], match |-> TRUE]
      BY <2>3, <3>3, <3>4, BenchStepMatches
    <3> QED
      BY <2>4, <3>1, <3>2, <3>5
  <2>9. N \in T
    <3>1. \A n \in 0..N : n \in T
      <4> HIDE DEF T
      <4> QED
        BY <2>4, <2>7, <2>8, InductionTo
    <3> QED
      BY <2>4, <3>1
  <2> QED
    BY <2>1, <2>4, <2>6, <2>9
<1> QED
  BY <1>1, ReplayIsInvariant, PTL
=============================================================================
