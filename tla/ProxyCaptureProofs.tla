------------------------- MODULE ProxyCaptureProofs -------------------------
(***************************************************************************)
(* What the traces of the proxy hold, for any agents, keys and bounds.     *)
(*                                                                         *)
(* The inductive invariant relates each relay to the conversation of its   *)
(* agent (RelayOK), each step of a trace to that conversation (StepOK),    *)
(* and the steps of one agent to each other (OncePerTurn, InOrder).  A     *)
(* request changes the sessions by opening one, a capture by attaching     *)
(* results and appending a step: the relations Opened and Intercepted say  *)
(* all that the proofs use of them.                                        *)
(***************************************************************************)
EXTENDS ProxyCapture, TLAPS

USE ProxyAssumption

Keys == {Key[a] : a \in Agents} \cup {NoKey}
Call == [agent : Agents, turn : Nat, attempt : Nat, number : Nat]
SessionId == [key : Keys, number : Nat]
Relay == [agent : Agents, turn : Nat, attempt : Nat, carried : SUBSET Call,
          session : SessionId, client : {"waits", "served", "left"}]
Results == UNION {[C -> 0..1] : C \in SUBSET Call}
Step == [agent : Agents, turn : Nat, complete : BOOLEAN, results : Results]
Session == [id : SessionId, steps : Seq(Step)]

\* The conversations are well typed, and the calls answered are those of the turn.
Conversations ==
    /\ turn \in [Agents -> Nat] /\ attempt \in [Agents -> Nat]
    /\ \A a \in Agents : turn[a] >= 1
    /\ DOMAIN answered = Agents
    /\ \A a \in Agents : answered[a] \in [1..MaxTurns[a] -> SUBSET Call]
    /\ \A a \in Agents : \A t \in 1..MaxTurns[a] :
          \A c \in answered[a][t] : c.agent = a /\ c.turn = t

\* An attempt that will never be the one that answered the turn.
Broken(a, t, k) ==
    \/ t < turn[a] /\ \A c \in answered[a][t] : c.attempt # k
    \/ t = turn[a] /\ k < attempt[a]

OpenIn(S, id) == \E i \in DOMAIN S : S[i].id = id

\* A relay carries results of calls that its agent's earlier turns made.  The one
\* whose client waits is at its agent's turn; a served one has a completed turn, and
\* the turn of one whose client left will be, or was, answered by another attempt.
RelayOK(S, r) ==
    /\ r.turn \in 1..MaxTurns[r.agent]
    /\ OpenIn(S, r.session) /\ r.session.key = Key[r.agent]
    /\ \A c \in r.carried : c.agent = r.agent /\ c.turn \in 1..(r.turn - 1)
                            /\ c \in answered[r.agent][c.turn]
    /\ r.turn <= turn[r.agent]
    /\ r.client = "waits" =>
          /\ r.turn = turn[r.agent] /\ r.attempt = attempt[r.agent]
          /\ r.carried = Carried(r.agent)
    /\ r.client = "served" => r.agent \in Eager /\ r.turn < turn[r.agent]
    /\ r.client = "left" => Broken(r.agent, r.turn, r.attempt)

\* Two relays of one agent do not both wait, and do not both serve the same turn.  A
\* session opened for a request without a key has no other relay.
RelaysDiffer(R) ==
    \A q, r \in R :
        /\ q.agent = r.agent /\ q.client = "waits" /\ r.client = "waits" => q = r
        /\ q.agent = r.agent /\ q.client = "served" /\ r.client = "served"
              /\ q.turn = r.turn => q = r
        /\ q.session = r.session /\ r.session.key = NoKey => q = r

\* A place in a trace.
Place(S, i, j) == i \in DOMAIN S /\ j \in DOMAIN S[i].steps

\* A step of a trace is what is known of its turn: a completed one has the calls that
\* the agent's next requests answer, one of a broken reply calls that none does.
StepOK(s) ==
    /\ s.complete =>
          /\ s.turn \in 1..MaxTurns[s.agent]
          /\ s.turn < turn[s.agent]
          /\ DOMAIN s.results = answered[s.agent][s.turn]
          /\ turn[s.agent] > s.turn + 1 /\ s.agent \notin Eager /\ Key[s.agent] # NoKey
                => \A c \in DOMAIN s.results : s.results[c] = 1
    /\ ~s.complete =>
          \A c \in DOMAIN s.results :
              /\ c.agent = s.agent /\ c.turn \in 1..MaxTurns[s.agent]
              /\ Broken(c.agent, c.turn, c.attempt)
    /\ ~s.complete \/ Key[s.agent] = NoKey =>
          \A c \in DOMAIN s.results : s.results[c] = 0

\* Sessions have different ids, numbered by their place when they have no key.
SessionsOK(S) ==
    /\ \A i \in DOMAIN S :
          S[i].id.number = IF S[i].id.key = NoKey THEN i ELSE 0
    /\ \A i, k \in DOMAIN S : S[i].id = S[k].id => i = k

\* Every step is one of its session's agents; a session without a key has one step at
\* most, and none while its relay runs.
StepsOK(S, R) ==
    /\ \A i, j : Place(S, i, j) =>
          StepOK(S[i].steps[j]) /\ S[i].id.key = Key[S[i].steps[j].agent]
    /\ \A i \in DOMAIN S : S[i].id.key = NoKey =>
          /\ Len(S[i].steps) <= 1
          /\ \A r \in R : r.session = S[i].id => S[i].steps = <<>>

\* The step at (i, j) is that of a turn its agent completed.
Done(S, i, j, a) ==
    Place(S, i, j) /\ S[i].steps[j].agent = a /\ S[i].steps[j].complete

\* No completed turn is captured twice, also by the served relays that still run.
OncePerTurn(S, R) ==
    /\ \A a \in Agents : \A i, j, k, l :
          Done(S, i, j, a) /\ Done(S, k, l, a)
              /\ S[i].steps[j].turn = S[k].steps[l].turn => i = k /\ j = l
    /\ \A a \in Agents : \A i, j : Done(S, i, j, a) =>
          \A r \in R : r.agent = a /\ r.client = "served" =>
              r.turn # S[i].steps[j].turn

\* The completed turns of a patient agent are captured, in order; the relay it waits
\* for without a key has a session behind those of its earlier turns.
InOrder(S, R) ==
    \A a \in Agents \ Eager :
        /\ \A t \in 1..(turn[a] - 1) : \E i, j :
              Done(S, i, j, a) /\ S[i].steps[j].turn = t
        /\ \A i, j, k, l :
              Done(S, i, j, a) /\ Done(S, k, l, a) /\ (i < k \/ (i = k /\ j < l))
              => S[i].steps[j].turn < S[k].steps[l].turn
        /\ Key[a] = NoKey => \A i, j : Done(S, i, j, a) =>
              \A r \in R : r.agent = a /\ r.client = "waits" => i < r.session.number

Inv(S, R) ==
    /\ S \in Seq(Session) /\ R \in SUBSET Relay
    /\ \A r \in R : RelayOK(S, r)
    /\ RelaysDiffer(R)
    /\ SessionsOK(S) /\ StepsOK(S, R)
    /\ OncePerTurn(S, R) /\ InOrder(S, R)

IInv == Conversations /\ Inv(sessions, relays)

----------------------------------------------------------------------------
(* What opening a session and capturing a turn do to the traces.            *)

\* T is S, with an empty session for id at its end if S has none.
Opened(S, T, id) ==
    /\ \A i \in DOMAIN S : i \in DOMAIN T /\ T[i] = S[i]
    /\ \A i \in DOMAIN T \ DOMAIN S :
          /\ i = Len(S) + 1 /\ T[i].id = id /\ T[i].steps = <<>>
          /\ \A k \in DOMAIN S : S[k].id # id
    /\ \E i \in DOMAIN T : T[i].id = id

\* The step t is s after the results in carried were attached to it.
Attached(s, t, carried) ==
    /\ t.agent = s.agent /\ t.turn = s.turn /\ t.complete = s.complete
    /\ DOMAIN t.results = DOMAIN s.results
    /\ \A c \in DOMAIN s.results :
          t.results[c] = IF c \in carried /\ s.results[c] = 0 THEN 1 ELSE s.results[c]

\* T is S, with the results a request carried attached in its session and a new
\* step at the end of it.
Intercepted(S, T, r, step) ==
    /\ DOMAIN T = DOMAIN S
    /\ \A i \in DOMAIN S : T[i].id = S[i].id
    /\ \A i \in DOMAIN S : S[i].id # r.session => T[i].steps = S[i].steps
    /\ \A i \in DOMAIN S : S[i].id = r.session =>
          /\ Len(T[i].steps) = Len(S[i].steps) + 1
          /\ T[i].steps[Len(S[i].steps) + 1] = step
          /\ \A j \in DOMAIN S[i].steps :
                Attached(S[i].steps[j], T[i].steps[j], r.carried)

NewStep(r, calls, complete) ==
    [agent |-> r.agent, turn |-> r.turn, complete |-> complete,
     results |-> [c \in calls |-> 0]]

\* The members of a sequence have its type.
LEMMA SequenceMembers ==
    ASSUME NEW X, NEW s \in Seq(X)
    PROVE  /\ Len(s) \in Nat /\ DOMAIN s = 1..Len(s)
           /\ \A i \in DOMAIN s : s[i] \in X
OBVIOUS

\* A function on 1..n is a sequence.
LEMMA SequenceOf ==
    ASSUME NEW X, NEW n \in Nat, NEW s, s \in [1..n -> X]
    PROVE  s \in Seq(X) /\ Len(s) = n
OBVIOUS

\* Append keeps the members and adds one.
LEMMA Appended ==
    ASSUME NEW X, NEW s \in Seq(X), NEW e \in X
    PROVE  LET t == Append(s, e)
           IN  /\ t \in Seq(X) /\ Len(t) = Len(s) + 1
               /\ DOMAIN t = DOMAIN s \cup {Len(s) + 1}
               /\ t[Len(s) + 1] = e
               /\ \A i \in DOMAIN s : t[i] = s[i]
OBVIOUS

\* get_or_create_interceptor opens at most one session, at the end.
LEMMA OpenOpens ==
    ASSUME sessions \in Seq(Session), NEW id \in SessionId
    PROVE  Open(id) \in Seq(Session) /\ Opened(sessions, Open(id), id)
<1>1. CASE IsOpen(id)
  BY <1>1 DEF IsOpen, Open, Opened
<1>2. CASE ~IsOpen(id)
  <2> DEFINE e == [id |-> id, steps |-> <<>>]
             T == Append(sessions, e)
  <2>1. e \in Session
    BY DEF Session
  <2>2. /\ T \in Seq(Session) /\ T[Len(sessions) + 1] = e
        /\ DOMAIN T = DOMAIN sessions \cup {Len(sessions) + 1}
        /\ \A i \in DOMAIN sessions : T[i] = sessions[i]
    BY <2>1, Appended
  <2>3. Open(id) = T
    BY <1>2 DEF Open
  <2>4. e.id = id /\ e.steps = <<>>
    OBVIOUS
  <2> HIDE DEF T, e
  <2> QED
    BY <1>2, <2>2, <2>3, <2>4 DEF IsOpen, Opened
<1> QED
  BY <1>1, <1>2

\* _attach changes nothing of a step but its results.
LEMMA AttachAttaches ==
    ASSUME NEW steps \in Seq(Step), NEW carried
    PROVE  /\ Attach(steps, carried) \in Seq(Step)
           /\ Len(Attach(steps, carried)) = Len(steps)
           /\ \A j \in DOMAIN steps :
                 Attached(steps[j], Attach(steps, carried)[j], carried)
<1> DEFINE T == Attach(steps, carried)
           f(j) == [c \in DOMAIN steps[j].results |->
                       IF c \in carried /\ steps[j].results[c] = 0 THEN 1
                       ELSE steps[j].results[c]]
<1>1. /\ DOMAIN T = DOMAIN steps
      /\ \A j \in DOMAIN steps : T[j] = [steps[j] EXCEPT !.results = f(j)]
  BY DEF Attach
<1>2. ASSUME NEW j \in DOMAIN steps
      PROVE  T[j] \in Step /\ Attached(steps[j], T[j], carried)
  <2>1. steps[j] \in Step
    OBVIOUS
  <2>2. PICK C \in SUBSET Call : steps[j].results \in [C -> 0..1]
    BY <2>1 DEF Step, Results
  <2>3. f(j) \in [C -> 0..1] /\ DOMAIN f(j) = DOMAIN steps[j].results
    BY <2>2
  <2>4. f(j) \in Results
    BY <2>3 DEF Results
  <2>5. /\ T[j].results = f(j) /\ T[j].agent = steps[j].agent
        /\ T[j].turn = steps[j].turn /\ T[j].complete = steps[j].complete
    BY <1>1, <2>1 DEF Step
  <2>6. T[j] \in Step
    BY <1>1, <2>1, <2>4 DEF Step
  <2> QED
    BY <2>5, <2>6 DEF Attached
<1>3. T \in Seq(Step) /\ Len(T) = Len(steps)
  <2>1. Len(steps) \in Nat /\ DOMAIN steps = 1..Len(steps)
    BY SequenceMembers
  <2>2. T \in [1..Len(steps) -> Step]
    BY <1>2, <2>1 DEF Attach
  <2> QED
    BY <2>1, <2>2, SequenceOf
<1> QED
  BY <1>2, <1>3

\* intercept_turn attaches and appends in the relay's own session only.
LEMMA InterceptIntercepts ==
    ASSUME NEW S \in Seq(Session), NEW r \in Relay, NEW calls \in SUBSET Call,
           NEW complete \in BOOLEAN, Intercept(S, r, calls, complete)
    PROVE  /\ sessions' \in Seq(Session)
           /\ Intercepted(S, sessions', r, NewStep(r, calls, complete))
<1> DEFINE e == NewStep(r, calls, complete)
           new(i) == Append(Attach(S[i].steps, r.carried), e)
<1>1. e \in Step
  <2>1. [c \in calls |-> 0] \in Results
    BY DEF Results
  <2> QED
    BY <2>1 DEF NewStep, Step, Relay
<1>2. /\ DOMAIN sessions' = DOMAIN S
      /\ \A i \in DOMAIN S :
            sessions'[i] = IF S[i].id # r.session THEN S[i]
                           ELSE [S[i] EXCEPT !.steps = new(i)]
  BY DEF Intercept, NewStep
<1>3. ASSUME NEW i \in DOMAIN S, S[i].id = r.session
      PROVE  /\ sessions'[i] \in Session /\ sessions'[i].id = S[i].id
             /\ Len(sessions'[i].steps) = Len(S[i].steps) + 1
             /\ sessions'[i].steps[Len(S[i].steps) + 1] = e
             /\ \A j \in DOMAIN S[i].steps :
                   Attached(S[i].steps[j], sessions'[i].steps[j], r.carried)
  <2> DEFINE A == Attach(S[i].steps, r.carried)
  <2>1. S[i] \in Session /\ S[i].steps \in Seq(Step)
    <3>1. S[i] \in Session
      BY SequenceMembers
    <3> QED
      BY <3>1 DEF Session
  <2>2. /\ A \in Seq(Step) /\ Len(A) = Len(S[i].steps)
        /\ \A j \in DOMAIN S[i].steps : Attached(S[i].steps[j], A[j], r.carried)
    BY <2>1, AttachAttaches
  <2>3. sessions'[i].steps = Append(A, e) /\ sessions'[i].id = S[i].id
        /\ sessions'[i] \in Session
    <3>1. Append(A, e) \in Seq(Step)
      BY <1>1, <2>2
    <3> HIDE DEF A, e
    <3> QED
      BY <1>2, <1>3, <2>1, <3>1 DEF Session, A, e
  <2>4. DOMAIN S[i].steps = 1..Len(A)
    BY <2>1, <2>2
  <2> HIDE DEF A, e
  <2> QED
    BY <1>1, <2>2, <2>3, <2>4
<1>4. ASSUME NEW i \in DOMAIN S, S[i].id # r.session
      PROVE  sessions'[i] = S[i]
  BY <1>2, <1>4
<1>5. sessions' \in Seq(Session)
  <2>1. \A i \in 1..Len(S) : sessions'[i] \in Session
    BY <1>3, <1>4
  <2>2. sessions' = [i \in 1..Len(S) |-> sessions'[i]]
    BY DEF Intercept
  <2> QED
    BY <2>1, <2>2
<1> HIDE DEF e
<1> QED
  BY <1>2, <1>3, <1>4, <1>5 DEF Intercepted, e

----------------------------------------------------------------------------
(* How the conversations go on.                                             *)

Stays == UNCHANGED <<turn, attempt, answered>>

\* The conversations of the other agents stay, that of a keeps its earlier turns.
Forward(a) ==
    /\ Conversations'
    /\ \A b \in Agents \ {a} :
          turn'[b] = turn[b] /\ attempt'[b] = attempt[b] /\ answered'[b] = answered[b]
    /\ turn[a] <= turn'[a]
    /\ \A t \in 1..MaxTurns[a] : t < turn[a] => answered'[a][t] = answered[a][t]
    /\ \A t \in 1..MaxTurns[a], k \in Nat : Broken(a, t, k) => Broken(a, t, k)'

\* A call of a reply names its agent, turn and attempt.
LEMMA CallsOfType ==
    ASSUME NEW r \in Relay, NEW n \in Nat
    PROVE  /\ CallsOf(r, n) \in SUBSET Call
           /\ \A c \in CallsOf(r, n) :
                 c.agent = r.agent /\ c.turn = r.turn /\ c.attempt = r.attempt
BY DEF CallsOf, Relay, Call

\* No step of the conversations is one forward.
LEMMA StaysForward ==
    ASSUME Conversations, Stays, NEW a \in Agents
    PROVE  Forward(a)
BY DEF Conversations, Stays, Forward, Broken

\* The turn fails and is repeated under the next attempt.
LEMMA RepeatsForward ==
    ASSUME Conversations, NEW r \in Relay, Repeats(r)
    PROVE  Forward(r.agent)
BY DEF Conversations, Repeats, Forward, Broken, Relay

\* The turn is answered by the attempt the relay belongs to.
LEMMA GoesOnForward ==
    ASSUME Conversations, NEW r \in Relay, NEW n \in Nat,
           r.turn \in 1..MaxTurns[r.agent], r.turn = turn[r.agent],
           r.attempt = attempt[r.agent], GoesOn(r, CallsOf(r, n))
    PROVE  /\ Forward(r.agent)
           /\ turn'[r.agent] = turn[r.agent] + 1
           /\ answered'[r.agent][r.turn] = CallsOf(r, n)
<1> DEFINE a == r.agent
           calls == CallsOf(r, n)
<1>1. a \in Agents /\ calls \in SUBSET Call
      /\ \A c \in calls : c.agent = a /\ c.turn = r.turn /\ c.attempt = r.attempt
  BY CallsOfType DEF Relay
<1> HIDE DEF calls
<1>2. /\ turn' = [turn EXCEPT ![a] = @ + 1] /\ attempt' = [attempt EXCEPT ![a] = 0]
      /\ answered' = [answered EXCEPT ![a] = [answered[a] EXCEPT ![r.turn] = calls]]
  BY DEF GoesOn, calls
<1>3. /\ turn'[a] = turn[a] + 1 /\ answered'[a] = [answered[a] EXCEPT ![r.turn] = calls]
      /\ \A b \in Agents \ {a} :
            turn'[b] = turn[b] /\ attempt'[b] = attempt[b] /\ answered'[b] = answered[b]
  BY <1>1, <1>2 DEF Conversations
<1>4. /\ answered'[a][r.turn] = calls
      /\ \A t \in 1..MaxTurns[a] : t # r.turn => answered'[a][t] = answered[a][t]
  BY <1>1, <1>3 DEF Conversations
<1>5. Conversations'
  <2>1. turn' \in [Agents -> Nat] /\ attempt' \in [Agents -> Nat]
        /\ \A b \in Agents : turn'[b] >= 1
    BY <1>1, <1>2 DEF Conversations
  <2>2. DOMAIN answered' = Agents
    BY <1>2 DEF Conversations
  <2>3. ASSUME NEW b \in Agents
        PROVE  /\ answered'[b] \in [1..MaxTurns[b] -> SUBSET Call]
               /\ \A t \in 1..MaxTurns[b] : \A c \in answered'[b][t] :
                     c.agent = b /\ c.turn = t
    <3>1. CASE b = a
      <4>1. answered'[a] \in [1..MaxTurns[a] -> SUBSET Call]
        BY <1>1, <1>3 DEF Conversations
      <4>2. ASSUME NEW t \in 1..MaxTurns[a], NEW c \in answered'[a][t]
            PROVE  c.agent = a /\ c.turn = t
        <5>1. CASE t = r.turn
          BY <1>1, <1>4, <4>2, <5>1
        <5>2. CASE t # r.turn
          BY <1>1, <1>4, <4>2, <5>2 DEF Conversations
        <5> QED
          BY <5>1, <5>2
      <4> QED
        BY <3>1, <4>1, <4>2
    <3>2. CASE b # a
      BY <1>3, <3>2 DEF Conversations
    <3> QED
      BY <3>1, <3>2
  <2> QED
    BY <2>1, <2>2, <2>3 DEF Conversations
<1>6. ASSUME NEW t \in 1..MaxTurns[a], NEW k \in Nat, Broken(a, t, k)
      PROVE  Broken(a, t, k)'
  BY <1>1, <1>3, <1>4, <1>6 DEF Broken, Conversations
<1> QED
  BY <1>1, <1>3, <1>4, <1>5, <1>6 DEF Forward, Conversations, calls

\* No conversation goes back, and none loses the calls of an earlier turn.
LEMMA ForwardTurns ==
    ASSUME Conversations, NEW a \in Agents, Forward(a), NEW b \in Agents
    PROVE  /\ turn[b] <= turn'[b] /\ turn[b] \in Nat /\ turn'[b] \in Nat
           /\ \A t \in 1..MaxTurns[b] :
                 t < turn[b] => answered'[b][t] = answered[b][t]
<1>1. turn[b] \in Nat /\ turn'[b] \in Nat
  BY DEF Forward, Conversations
<1>2. CASE b = a
  BY <1>1, <1>2 DEF Forward
<1>3. CASE b # a
  BY <1>1, <1>3 DEF Forward
<1> QED
  BY <1>1, <1>2, <1>3

\* The results a request carries depend on its agent's conversation only.
LEMMA CarriedStays ==
    ASSUME NEW b \in Agents, turn'[b] = turn[b], answered'[b] = answered[b]
    PROVE  Carried(b)' = Carried(b)
BY DEF Carried

\* A relay other than the waiting one of the agent that goes on stays as it is.
LEMMA RelayStays ==
    ASSUME Conversations, NEW a \in Agents, Forward(a), NEW S, NEW q \in Relay,
           RelayOK(S, q), q.client = "waits" => q.agent # a \/ Stays,
           NEW T, \A id : OpenIn(S, id) => OpenIn(T, id)
    PROVE  RelayOK(T, q)'
<1> DEFINE b == q.agent
<1>1. b \in Agents /\ q.turn \in Nat /\ q.attempt \in Nat
  BY DEF Relay
<1>2. turn[b] <= turn'[b] /\ turn[b] \in Nat /\ turn'[b] \in Nat
      /\ \A t \in 1..MaxTurns[b] : t < turn[b] => answered'[b][t] = answered[b][t]
  BY <1>1, ForwardTurns
<1>3. Broken(b, q.turn, q.attempt) => Broken(b, q.turn, q.attempt)'
  <2>1. CASE b = a
    BY <1>1, <2>1 DEF Forward, RelayOK
  <2>2. CASE b # a
    BY <1>1, <2>2 DEF Forward, Broken
  <2> QED
    BY <2>1, <2>2
<1>4. q.client = "waits" =>
         turn'[b] = turn[b] /\ attempt'[b] = attempt[b] /\ answered'[b] = answered[b]
  BY <1>1 DEF Stays, Forward
<1>5. q.client = "waits" => Carried(b)' = Carried(b)
  BY <1>1, <1>4, CarriedStays
<1>6. ASSUME NEW c \in q.carried
      PROVE  c.agent = b /\ c.turn \in 1..(q.turn - 1) /\ c \in answered'[b][c.turn]
  <2>1. c.agent = b /\ c.turn \in 1..(q.turn - 1) /\ c \in answered[b][c.turn]
    BY <1>6 DEF RelayOK
  <2>2. c.turn \in 1..MaxTurns[b] /\ c.turn < turn[b]
    BY <1>1, <1>2, <2>1 DEF RelayOK
  <2> QED
    BY <1>2, <2>1, <2>2
<1>7. OpenIn(S, q.session) /\ q.session.key = Key[b]
  BY DEF RelayOK
<1>11. OpenIn(T, q.session)
  BY <1>7
<1>8. q.turn \in 1..MaxTurns[b] /\ q.turn <= turn'[b]
  BY <1>1, <1>2 DEF RelayOK
<1>9. q.client = "waits" =>
         q.turn = turn'[b] /\ q.attempt = attempt'[b] /\ q.carried = Carried(b)'
  BY <1>4, <1>5 DEF RelayOK
<1>10. /\ q.client = "served" => b \in Eager /\ q.turn < turn'[b]
       /\ q.client = "left" => Broken(b, q.turn, q.attempt)'
  BY <1>1, <1>2, <1>3 DEF RelayOK
<1> QED
  BY <1>6, <1>7, <1>8, <1>9, <1>10, <1>11 DEF RelayOK, OpenIn

\* A step stays what is known of its turn when results of its agent's turns are
\* attached to it, all of them if the agent goes on with the turn after the next.
LEMMA StepStays ==
    ASSUME Conversations, NEW a \in Agents, Forward(a), NEW s \in Step, StepOK(s),
           NEW t, NEW carried, Attached(s, t, carried),
           ~s.complete => DOMAIN s.results \cap carried = {},
           Key[s.agent] = NoKey => DOMAIN s.results \cap carried = {},
           /\ s.complete /\ s.agent \notin Eager /\ Key[s.agent] # NoKey
           /\ turn[s.agent] <= s.turn + 1 /\ turn'[s.agent] > s.turn + 1
           => DOMAIN s.results \subseteq carried
    PROVE  StepOK(t)'
<1> DEFINE b == s.agent
<1>1. b \in Agents /\ s.turn \in Nat /\ s.complete \in BOOLEAN
  BY DEF Step
<1>2. PICK C \in SUBSET Call : s.results \in [C -> 0..1]
  BY DEF Step, Results
<1>3. /\ t.agent = b /\ t.turn = s.turn /\ t.complete = s.complete
      /\ DOMAIN t.results = DOMAIN s.results
      /\ \A c \in DOMAIN s.results :
            t.results[c] = IF c \in carried /\ s.results[c] = 0 THEN 1 ELSE s.results[c]
  BY DEF Attached
<1>4. turn[b] <= turn'[b] /\ turn[b] \in Nat /\ turn'[b] \in Nat
      /\ \A n \in 1..MaxTurns[b] : n < turn[b] => answered'[b][n] = answered[b][n]
  BY <1>1, ForwardTurns
<1>5. ASSUME s.complete
      PROVE  /\ t.turn \in 1..MaxTurns[b] /\ t.turn < turn'[b]
             /\ DOMAIN t.results = answered'[b][t.turn]
             /\ turn'[b] > t.turn + 1 /\ b \notin Eager /\ Key[b] # NoKey
                   => \A c \in DOMAIN t.results : t.results[c] = 1
  <2>1. t.turn \in 1..MaxTurns[b] /\ t.turn < turn'[b]
        /\ DOMAIN t.results = answered'[b][t.turn]
    BY <1>1, <1>3, <1>4, <1>5 DEF StepOK
  <2>2. ASSUME turn'[b] > s.turn + 1, b \notin Eager, Key[b] # NoKey,
               NEW c \in DOMAIN s.results
        PROVE  t.results[c] = 1
    <3>1. CASE turn[b] > s.turn + 1
      BY <1>3, <1>5, <2>2, <3>1 DEF StepOK
    <3>2. CASE turn[b] <= s.turn + 1
      BY <1>2, <1>3, <1>5, <2>2, <3>2
    <3> QED
      BY <1>1, <1>4, <3>1, <3>2
  <2> QED
    BY <1>3, <2>1, <2>2
<1>6. ASSUME ~s.complete, NEW c \in DOMAIN s.results
      PROVE  /\ c.agent = b /\ c.turn \in 1..MaxTurns[b]
             /\ Broken(c.agent, c.turn, c.attempt)'
  <2>1. /\ c.agent = b /\ c.turn \in 1..MaxTurns[b]
        /\ Broken(b, c.turn, c.attempt) /\ c \in Call
    BY <1>2, <1>6 DEF StepOK
  <2>2. c.turn \in Nat /\ c.attempt \in Nat
    BY <2>1 DEF Call
  <2>3. CASE b = a
    BY <2>1, <2>2, <2>3 DEF Forward
  <2>4. CASE b # a
    BY <1>1, <2>1, <2>4 DEF Forward, Broken
  <2> QED
    BY <2>1, <2>3, <2>4
<1>7. ASSUME ~s.complete \/ Key[b] = NoKey, NEW c \in DOMAIN s.results
      PROVE  t.results[c] = 0
  BY <1>3, <1>7 DEF StepOK
<1> QED
  BY <1>3, <1>5, <1>6, <1>7 DEF StepOK

----------------------------------------------------------------------------
(* A request opens a session and adds a relay.                              *)

\* The place of a step has an index of its trace.
LEMMA PlaceType ==
    ASSUME NEW S \in Seq(Session), NEW i, NEW j, Place(S, i, j)
    PROVE  /\ i \in 1..Len(S) /\ j \in 1..Len(S[i].steps)
           /\ S[i].id \in SessionId /\ S[i].steps \in Seq(Step)
           /\ S[i].steps[j] \in Step
<1>1. i \in 1..Len(S) /\ S[i] \in Session
  BY SequenceMembers DEF Place
<1>2. S[i].id \in SessionId /\ S[i].steps \in Seq(Step)
  BY <1>1 DEF Session
<1> QED
  BY <1>1, <1>2, SequenceMembers DEF Place

\* An empty session at the end moves no step.
LEMMA OpenedPlaces ==
    ASSUME NEW S \in Seq(Session), NEW T \in Seq(Session), NEW id, Opened(S, T, id),
           NEW i, NEW j
    PROVE  /\ Place(T, i, j) <=> Place(S, i, j)
           /\ Place(S, i, j) => T[i] = S[i]
           /\ \A a : Done(T, i, j, a) <=> Done(S, i, j, a)
<1>1. Place(S, i, j) => Place(T, i, j) /\ T[i] = S[i]
  BY DEF Opened, Place
<1>2. ASSUME Place(T, i, j)
      PROVE  Place(S, i, j)
  <2>1. CASE i \in DOMAIN S
    BY <1>2, <2>1 DEF Opened, Place
  <2>2. CASE i \notin DOMAIN S
    <3>1. T[i].steps = <<>>
      BY <1>2, <2>2 DEF Opened, Place
    <3> QED
      BY <1>2, <3>1 DEF Place
  <2> QED
    BY <2>1, <2>2
<1> QED
  BY <1>1, <1>2 DEF Done

\* Opening a session keeps what is known of the relays and the traces.
LEMMA OpenedKeeps ==
    ASSUME NEW S, NEW R, Inv(S, R), NEW T \in Seq(Session), NEW id \in SessionId,
           Opened(S, T, id),
           id.number = IF id.key = NoKey THEN Len(S) + 1 ELSE 0
    PROVE  Inv(T, R)
<1> USE DEF Inv
<1>1. DOMAIN S = 1..Len(S) /\ Len(S) \in Nat /\ DOMAIN T = 1..Len(T)
  BY SequenceMembers
<1>2. ASSUME NEW r \in R
      PROVE  RelayOK(T, r)
  <2>1. OpenIn(T, r.session)
    BY DEF RelayOK, OpenIn, Opened
  <2> QED
    BY <2>1 DEF RelayOK
<1>3. SessionsOK(T)
  <2>1. ASSUME NEW i \in DOMAIN T
        PROVE  T[i].id.number = IF T[i].id.key = NoKey THEN i ELSE 0
    BY DEF Opened, SessionsOK
  <2>2. ASSUME NEW i \in DOMAIN T, NEW k \in DOMAIN T, T[i].id = T[k].id
        PROVE  i = k
    BY <2>2 DEF Opened, SessionsOK
  <2> QED
    BY <2>1, <2>2 DEF SessionsOK
<1>4. StepsOK(T, R)
  <2>1. ASSUME NEW i, NEW j, Place(T, i, j)
        PROVE  StepOK(T[i].steps[j]) /\ T[i].id.key = Key[T[i].steps[j].agent]
    BY <2>1, OpenedPlaces DEF StepsOK
  <2>2. ASSUME NEW i \in DOMAIN T, T[i].id.key = NoKey
        PROVE  /\ Len(T[i].steps) <= 1
               /\ \A r \in R : r.session = T[i].id => T[i].steps = <<>>
    <3>1. CASE i \in DOMAIN S
      BY <2>2, <3>1 DEF Opened, StepsOK
    <3>2. CASE i \notin DOMAIN S
      <4>1. T[i].steps = <<>>
        BY <3>2 DEF Opened
      <4> QED
        BY <4>1
    <3> QED
      BY <3>1, <3>2
  <2> QED
    BY <2>1, <2>2 DEF StepsOK
<1>5. OncePerTurn(T, R)
  <2>1. \A i, j, a : Done(T, i, j, a) => Done(S, i, j, a) /\ T[i] = S[i]
    BY OpenedPlaces DEF Done
  <2>2. ASSUME NEW a \in Agents, NEW i, NEW j, NEW k, NEW l,
               Done(T, i, j, a), Done(T, k, l, a),
               T[i].steps[j].turn = T[k].steps[l].turn
        PROVE  i = k /\ j = l
    <3>1. Done(S, i, j, a) /\ Done(S, k, l, a)
          /\ S[i].steps[j].turn = S[k].steps[l].turn
      <4>1. Done(S, i, j, a) /\ T[i] = S[i] /\ Done(S, k, l, a) /\ T[k] = S[k]
        BY <2>1, <2>2
      <4> QED
        BY <2>2, <4>1
    <3>2. OncePerTurn(S, R)
      OBVIOUS
    <3> QED
      BY <3>1, <3>2 DEF OncePerTurn
  <2>3. ASSUME NEW a \in Agents, NEW i, NEW j, Done(T, i, j, a),
               NEW r \in R, r.agent = a, r.client = "served"
        PROVE  r.turn # T[i].steps[j].turn
    BY <2>1, <2>3 DEF OncePerTurn
  <2> QED
    BY <2>2, <2>3 DEF OncePerTurn
<1>6. InOrder(T, R)
  <2>1. \A i, j, a : Done(T, i, j, a) <=> Done(S, i, j, a)
    BY OpenedPlaces
  <2>2. \A i, j, a : Done(T, i, j, a) => T[i] = S[i]
    BY OpenedPlaces DEF Done
  <2>3. ASSUME NEW a \in Agents \ Eager
        PROVE  \A t \in 1..(turn[a] - 1) : \E i, j :
                  Done(T, i, j, a) /\ T[i].steps[j].turn = t
    <3>1. ASSUME NEW t \in 1..(turn[a] - 1)
          PROVE  \E i, j : Done(T, i, j, a) /\ T[i].steps[j].turn = t
      <4>1. PICK i, j : Done(S, i, j, a) /\ S[i].steps[j].turn = t
        BY DEF InOrder
      <4>2. Done(T, i, j, a) /\ T[i] = S[i]
        BY <2>1, <2>2, <4>1
      <4> QED
        BY <4>1, <4>2
    <3> QED
      BY <3>1
  <2>4. ASSUME NEW a \in Agents \ Eager
        PROVE  \A i, j, k, l :
                  Done(T, i, j, a) /\ Done(T, k, l, a) /\ (i < k \/ (i = k /\ j < l))
                  => T[i].steps[j].turn < T[k].steps[l].turn
    BY <2>1, <2>2 DEF InOrder
  <2>5. ASSUME NEW a \in Agents \ Eager, Key[a] = NoKey, NEW i, NEW j,
               Done(T, i, j, a), NEW r \in R, r.agent = a, r.client = "waits"
        PROVE  i < r.session.number
    BY <2>1, <2>5 DEF InOrder
  <2> QED
    BY <2>3, <2>4, <2>5 DEF InOrder
<1> QED
  BY <1>2, <1>3, <1>4, <1>5, <1>6

\* What an agent's request carries are the calls of its earlier turns.
LEMMA CarriedType ==
    ASSUME Conversations, NEW a \in Agents, turn[a] <= MaxTurns[a]
    PROVE  /\ Carried(a) \in SUBSET Call
           /\ \A c \in Carried(a) : c.agent = a /\ c.turn \in 1..(turn[a] - 1)
                                    /\ c \in answered[a][c.turn]
           /\ turn[a] > 1 => answered[a][turn[a] - 1] \subseteq Carried(a)
<1>1. turn[a] \in Nat /\ turn[a] >= 1 /\ MaxTurns[a] \in Nat
  BY DEF Conversations
<1>2. ASSUME NEW t \in 1..(turn[a] - 1)
      PROVE  /\ answered[a][t] \subseteq Call
             /\ \A c \in answered[a][t] : c.agent = a /\ c.turn = t
  <2>1. t \in 1..MaxTurns[a] /\ answered[a] \in [1..MaxTurns[a] -> SUBSET Call]
    BY <1>1 DEF Conversations
  <2>2. answered[a][t] \in SUBSET Call
    BY <2>1
  <2> QED
    BY <2>1, <2>2 DEF Conversations
<1>3. CASE a \in FullHistory
  <2>1. Carried(a) = UNION {answered[a][t] : t \in 1..(turn[a] - 1)}
    BY <1>3 DEF Carried
  <2>2. ASSUME NEW c \in Carried(a)
        PROVE  c \in Call /\ c.agent = a /\ c.turn \in 1..(turn[a] - 1)
               /\ c \in answered[a][c.turn]
    <3>1. PICK t \in 1..(turn[a] - 1) : c \in answered[a][t]
      BY <2>1
    <3> QED
      BY <1>2, <3>1
  <2>3. turn[a] > 1 => answered[a][turn[a] - 1] \subseteq Carried(a)
    <3>1. turn[a] > 1 => turn[a] - 1 \in 1..(turn[a] - 1)
      BY <1>1
    <3> QED
      BY <2>1, <3>1
  <2> QED
    BY <2>2, <2>3
<1>4. CASE a \notin FullHistory
  <2>1. Carried(a) = IF turn[a] > 1 THEN answered[a][turn[a] - 1] ELSE {}
    BY <1>4 DEF Carried
  <2>2. turn[a] > 1 => turn[a] - 1 \in 1..(turn[a] - 1)
    BY <1>1
  <2> QED
    BY <1>2, <2>1, <2>2
<1> QED
  BY <1>3, <1>4

\* The relay of a new request joins the others: its agent has no other that waits, and
\* without a key its session is new.
LEMMA AskKeeps ==
    ASSUME IInv, NEW a \in Agents, Asks(a), NEW q, q = Request(a, "waits")
    PROVE  /\ q \in Relay /\ q \notin relays
           /\ Open(q.session) \in Seq(Session)
           /\ Inv(Open(q.session), relays \cup {q})
<1> DEFINE id == SessionOf(a)
           T == Open(id)
           R == relays \cup {q}
<1>1. /\ Conversations /\ Inv(sessions, relays)
      /\ sessions \in Seq(Session) /\ Len(sessions) \in Nat
      /\ DOMAIN sessions = 1..Len(sessions)
  BY SequenceMembers DEF IInv, Inv
<1>2. /\ turn[a] \in Nat /\ turn[a] >= 1 /\ attempt[a] \in Nat
      /\ turn[a] <= MaxTurns[a] /\ MaxTurns[a] \in Nat
      /\ \A r \in relays : r.agent = a => r.client # "waits"
  BY <1>1 DEF Conversations, Asks
<1>3. /\ id \in SessionId /\ id.key = Key[a]
      /\ id.number = IF id.key = NoKey THEN Len(sessions) + 1 ELSE 0
  BY <1>1 DEF SessionOf, KeyedId, SessionId, Keys
<1>4. /\ q.agent = a /\ q.turn = turn[a] /\ q.attempt = attempt[a]
      /\ q.carried = Carried(a) /\ q.session = id /\ q.client = "waits"
  BY DEF Request
<1>5. q \in Relay
  <2>1. Carried(a) \in SUBSET Call
    BY <1>1, <1>2, CarriedType
  <2> QED
    BY <1>2, <1>3, <2>1 DEF Request, Relay
<1>6. T \in Seq(Session) /\ Opened(sessions, T, id)
  BY <1>1, <1>3, OpenOpens
<1> HIDE DEF id, T
<1>7. Inv(T, relays)
  BY <1>1, <1>3, <1>6, OpenedKeeps
<1>8. RelayOK(T, q)
  <2>1. OpenIn(T, id)
    BY <1>6 DEF Opened, OpenIn
  <2>2. \A c \in Carried(a) : c.agent = a /\ c.turn \in 1..(turn[a] - 1)
                              /\ c \in answered[a][c.turn]
    BY <1>1, <1>2, CarriedType
  <2> QED
    BY <1>2, <1>3, <1>4, <2>1, <2>2 DEF RelayOK
<1>9. ASSUME Key[a] = NoKey
      PROVE  /\ \A r \in relays : r.session # id
             /\ \A i \in DOMAIN T : T[i].id = id => T[i].steps = <<>>
  <2>1. \A i \in DOMAIN sessions : sessions[i].id # id
    BY <1>1, <1>3, <1>9 DEF Inv, SessionsOK
  <2>2. \A r \in relays : OpenIn(sessions, r.session)
    BY <1>1 DEF Inv, RelayOK
  <2>3. \A i \in DOMAIN T : T[i].id = id => T[i].steps = <<>>
    BY <1>6, <2>1 DEF Opened
  <2> QED
    BY <2>1, <2>2, <2>3 DEF OpenIn
<1>10. RelaysDiffer(R)
  <2>1. RelaysDiffer(relays)
    BY <1>1 DEF Inv
  <2> QED
    BY <1>2, <1>3, <1>4, <1>9, <2>1 DEF RelaysDiffer
<1>11. StepsOK(T, R)
  <2>1. StepsOK(T, relays)
    BY <1>7 DEF Inv
  <2>2. ASSUME NEW i \in DOMAIN T, T[i].id.key = NoKey, q.session = T[i].id
        PROVE  T[i].steps = <<>>
    BY <1>3, <1>4, <1>9, <2>2
  <2> QED
    BY <2>1, <2>2 DEF StepsOK
<1>12. OncePerTurn(T, R)
  BY <1>4, <1>7 DEF Inv, OncePerTurn
<1>13. InOrder(T, R)
  <2>1. InOrder(T, relays)
    BY <1>7 DEF Inv
  <2>2. ASSUME Key[a] = NoKey, NEW i, NEW j, Done(T, i, j, a)
        PROVE  i < q.session.number
    <3>1. Place(sessions, i, j)
      BY <1>1, <1>6, <2>2, OpenedPlaces DEF Done
    <3>2. i \in 1..Len(sessions)
      BY <1>1, <3>1 DEF Place
    <3> QED
      BY <1>1, <1>3, <1>4, <2>2, <3>2
  <2>3. ASSUME NEW b \in Agents \ Eager
        PROVE  /\ \A t \in 1..(turn[b] - 1) : \E i, j :
                      Done(T, i, j, b) /\ T[i].steps[j].turn = t
               /\ \A i, j, k, l :
                      Done(T, i, j, b) /\ Done(T, k, l, b) /\ (i < k \/ (i = k /\ j < l))
                      => T[i].steps[j].turn < T[k].steps[l].turn
    BY <2>1 DEF InOrder
  <2>4. ASSUME NEW b \in Agents \ Eager, Key[b] = NoKey, NEW i, NEW j,
               Done(T, i, j, b), NEW r \in R, r.agent = b, r.client = "waits"
        PROVE  i < r.session.number
    <3>1. CASE r = q
      BY <1>4, <2>2, <2>4, <3>1
    <3>2. CASE r # q
      BY <2>1, <2>4, <3>2 DEF InOrder
    <3> QED
      BY <3>1, <3>2
  <2> QED
    BY <2>3, <2>4 DEF InOrder
<1>14. q \notin relays
  BY <1>2, <1>4
<1>15. \A r \in R : RelayOK(T, r)
  BY <1>7, <1>8 DEF Inv
<1>16. SessionsOK(T) /\ R \in SUBSET Relay
  BY <1>5, <1>7 DEF Inv
<1>17. Inv(T, R)
  BY <1>6, <1>10, <1>11, <1>12, <1>13, <1>15, <1>16 DEF Inv
<1> QED
  BY <1>4, <1>5, <1>6, <1>14, <1>17 DEF T

----------------------------------------------------------------------------
(* A capture attaches results and adds a step.                              *)

\* Every step stays at its place, and the new one is the last of its session h.
LEMMA InterceptedPlaces ==
    ASSUME NEW S \in Seq(Session), NEW T \in Seq(Session), NEW r, NEW step,
           Intercepted(S, T, r, step), SessionsOK(S),
           NEW h \in DOMAIN S, S[h].id = r.session,
           NEW n, n = Len(S[h].steps) + 1
    PROVE  /\ n \in Nat /\ Place(T, h, n) /\ T[h].steps[n] = step
           /\ \A j : Place(S, h, j) => j \in Nat /\ j < n
           /\ \A i, j : Place(T, i, j) <=> Place(S, i, j) \/ (i = h /\ j = n)
           /\ \A i, j : Place(S, i, j) =>
                 Attached(S[i].steps[j], T[i].steps[j],
                          IF i = h THEN r.carried ELSE {})
<1>1. DOMAIN T = DOMAIN S /\ \A i \in DOMAIN S : S[i].id = r.session => i = h
  BY DEF Intercepted, SessionsOK
<1>2. ASSUME NEW i \in DOMAIN S
      PROVE  S[i].steps \in Seq(Step) /\ T[i].steps \in Seq(Step)
  <2>1. S[i] \in Session /\ T[i] \in Session
    BY <1>1, SequenceMembers
  <2> QED
    BY <2>1 DEF Session
<1>3. /\ DOMAIN S[h].steps = 1..Len(S[h].steps) /\ Len(S[h].steps) \in Nat
      /\ DOMAIN T[h].steps = 1..Len(T[h].steps)
  BY <1>2, SequenceMembers
<1>4. Len(T[h].steps) = n /\ T[h].steps[n] = step
  BY DEF Intercepted
<1>5. \A i \in DOMAIN S : i # h => T[i].steps = S[i].steps
  BY <1>1 DEF Intercepted
<1>6. ASSUME NEW i, NEW j
      PROVE  Place(T, i, j) <=> Place(S, i, j) \/ (i = h /\ j = n)
  <2>1. CASE i = h
    <3>1. 1..n = (1..Len(S[h].steps)) \cup {n}
      BY <1>3
    <3> QED
      BY <1>1, <1>3, <1>4, <2>1, <3>1 DEF Place
  <2>2. CASE i # h
    BY <1>1, <1>5, <2>2 DEF Place
  <2> QED
    BY <2>1, <2>2
<1>7. ASSUME NEW i, NEW j, Place(S, i, j)
      PROVE  Attached(S[i].steps[j], T[i].steps[j], IF i = h THEN r.carried ELSE {})
  <2>1. CASE i = h
    BY <1>7, <2>1 DEF Place, Intercepted
  <2>2. CASE i # h
    BY <1>5, <1>7, <2>2 DEF Place, Attached
  <2> QED
    BY <2>1, <2>2
<1>8. \A j : Place(S, h, j) => j \in Nat /\ j < n
  BY <1>3 DEF Place
<1>9. Place(T, h, n)
  BY <1>6
<1> QED
  BY <1>3, <1>4, <1>6, <1>7, <1>8, <1>9

\* The steps of an agent with a key stand in its relays' session.
LEMMA KeyedSession ==
    ASSUME NEW S \in Seq(Session), SessionsOK(S), NEW h \in DOMAIN S,
           NEW i \in DOMAIN S, S[i].id.key = S[h].id.key, S[h].id.key # NoKey
    PROVE  i = h
<1>1. S[i].id \in SessionId /\ S[h].id \in SessionId
  <2>1. S[i] \in Session /\ S[h] \in Session
    BY SequenceMembers
  <2> QED
    BY <2>1 DEF Session
<1>2. S[i].id.number = S[h].id.number
  BY DEF SessionsOK
<1>3. ASSUME NEW x \in SessionId, NEW y \in SessionId, x.key = y.key, x.number = y.number
      PROVE  x = y
  BY <1>3 DEF SessionId
<1>4. S[i].id = S[h].id
  BY <1>1, <1>2, <1>3
<1> QED
  BY <1>4 DEF SessionsOK

\* A capture keeps what is known of the relays and the traces, whoever else shares the
\* session: if the reply is whole its client waits, or has it and the turn is counted,
\* and only the agent that waited for it goes on.
LEMMA CaptureKeeps ==
    ASSUME Conversations, NEW S, NEW R, Inv(S, R), NEW r \in R,
           NEW calls \in SUBSET Call, NEW complete \in BOOLEAN,
           Intercept(S, r, calls, complete), Forward(r.agent),
           Stays \/ r.client = "waits",
           turn'[r.agent] # turn[r.agent] =>
               r.client = "waits" /\ complete /\ turn'[r.agent] = turn[r.agent] + 1,
           complete => r.client # "left",
           StepOK(NewStep(r, calls, complete))', NEW T, T = sessions'
    PROVE  Inv(T, R \ {r})'
<1> DEFINE a == r.agent
           step == NewStep(r, calls, complete)
<1>1. /\ S \in Seq(Session) /\ R \in SUBSET Relay /\ RelaysDiffer(R)
      /\ \A q \in R : RelayOK(S, q)
      /\ SessionsOK(S) /\ StepsOK(S, R) /\ OncePerTurn(S, R) /\ InOrder(S, R)
  BY DEF Inv
<1>2. /\ r \in Relay /\ RelayOK(S, r) /\ a \in Agents /\ r.turn \in Nat
      /\ r.client \in {"waits", "served", "left"} /\ r.session \in SessionId
  BY <1>1 DEF Relay
<1>3. T \in Seq(Session) /\ Intercepted(S, T, r, step)
  BY <1>1, <1>2, InterceptIntercepts
<1>4. /\ step.agent = a /\ step.turn = r.turn /\ step.complete = complete
  BY DEF NewStep
<1>5. PICK h \in DOMAIN S : S[h].id = r.session
  BY <1>2 DEF RelayOK, OpenIn
<1>6. PICK n : n = Len(S[h].steps) + 1
  OBVIOUS
<1> HIDE DEF step
<1>7. /\ n \in Nat /\ Place(T, h, n) /\ T[h].steps[n] = step
      /\ \A j : Place(S, h, j) => j \in Nat /\ j < n
      /\ \A i, j : Place(T, i, j) <=> Place(S, i, j) \/ (i = h /\ j = n)
      /\ \A i, j : Place(S, i, j) =>
            Attached(S[i].steps[j], T[i].steps[j], IF i = h THEN r.carried ELSE {})
  BY <1>1, <1>3, <1>5, <1>6, InterceptedPlaces, Z3
<1>8. ASSUME NEW i, NEW j, NEW b, Done(T, i, j, b)
      PROVE  \/ Done(S, i, j, b) /\ T[i].steps[j].turn = S[i].steps[j].turn
             \/ i = h /\ j = n /\ b = a /\ complete /\ T[i].steps[j].turn = r.turn
  BY <1>4, <1>7, <1>8 DEF Done, Attached
<1>9. ASSUME NEW i, NEW j, NEW b, Done(S, i, j, b)
      PROVE  Done(T, i, j, b) /\ T[i].steps[j].turn = S[i].steps[j].turn
  BY <1>7, <1>9 DEF Done, Attached
<1>10. /\ DOMAIN T = DOMAIN S
       /\ \A i \in DOMAIN S : T[i].id = S[i].id
       /\ \A i \in DOMAIN S : S[i].id = r.session => i = h
  BY <1>1, <1>3, <1>5 DEF Intercepted, SessionsOK
<1>11. /\ turn[a] \in Nat /\ turn'[a] \in Nat
       /\ \A b \in Agents \ {a} : turn'[b] = turn[b]
       /\ r.client = "waits" => r.turn = turn[a]
       /\ r.session.key = Key[a] /\ r.turn <= turn[a]
  BY <1>2 DEF RelayOK, Forward, Conversations
<1>12. ASSUME NEW i, NEW j, Done(S, i, j, a)
       PROVE  /\ S[i].id.key = Key[a] /\ S[i].steps[j].turn \in Nat
              /\ S[i].steps[j].turn < turn[a]
  <2>1. Place(S, i, j) /\ S[i].steps[j].complete /\ S[i].steps[j].agent = a
    BY <1>12 DEF Done
  <2>2. StepOK(S[i].steps[j]) /\ S[i].id.key = Key[a]
    BY <1>1, <2>1 DEF StepsOK
  <2> QED
    BY <2>1, <2>2 DEF StepOK
<1>13. h \in Nat /\ \A k \in DOMAIN S : k \in Nat
  BY <1>1, SequenceMembers
<1>20. ASSUME NEW q \in R \ {r}
       PROVE  RelayOK(T, q)'
  <2>1. q \in Relay /\ RelayOK(S, q)
    BY <1>1
  <2>2. q.client = "waits" => q.agent # a \/ Stays
    BY <1>1 DEF RelaysDiffer
  <2>3. \A id : OpenIn(S, id) => OpenIn(T, id)
    BY <1>10 DEF OpenIn
  <2> QED
    BY <1>2, <2>1, <2>2, <2>3, RelayStays
<1>21. RelaysDiffer(R \ {r})
  BY <1>1 DEF RelaysDiffer
<1>22. SessionsOK(T)
  BY <1>1, <1>10 DEF SessionsOK
<1>23. StepsOK(T, R \ {r})'
  <2>1. ASSUME NEW i, NEW j, Place(T, i, j)
        PROVE  StepOK(T[i].steps[j])' /\ T[i].id.key = Key[T[i].steps[j].agent]
    <3>1. CASE i = h /\ j = n
      BY <1>4, <1>5, <1>7, <1>10, <1>11, <3>1 DEF step
    <3>2. CASE ~(i = h /\ j = n)
      <4> DEFINE s == S[i].steps[j]
                 carried == IF i = h THEN r.carried ELSE {}
      <4>1. Place(S, i, j) /\ Attached(s, T[i].steps[j], carried)
        BY <1>7, <2>1, <3>2
      <4>2. s \in Step /\ i \in DOMAIN S
        BY <1>1, <4>1, PlaceType DEF Place
      <4>3. StepOK(s) /\ S[i].id.key = Key[s.agent]
        BY <1>1, <4>1 DEF StepsOK
      <4>4. /\ s.agent \in Agents /\ s.turn \in Nat /\ s.complete \in BOOLEAN
        BY <4>2 DEF Step
      <4> HIDE DEF s
      <4>5. carried # {} => S[i].id = r.session /\ carried = r.carried
        BY <1>5
      <4>6. ASSUME ~s.complete
            PROVE  DOMAIN s.results \cap carried = {}
        <5>1. ASSUME NEW c \in DOMAIN s.results, c \in carried
              PROVE  FALSE
          <6>1. /\ c.agent = s.agent /\ c.turn \in 1..MaxTurns[s.agent]
                /\ Broken(c.agent, c.turn, c.attempt)
            BY <4>3, <4>6, <5>1 DEF StepOK
          <6>2. c.agent = a /\ c.turn \in 1..(r.turn - 1) /\ c \in answered[a][c.turn]
            BY <1>2, <4>5, <5>1 DEF RelayOK
          <6> QED
            BY <1>2, <1>11, <6>1, <6>2 DEF Broken
        <5> QED
          BY <5>1
      <4>7. ASSUME Key[s.agent] = NoKey
            PROVE  DOMAIN s.results \cap carried = {}
        <5>1. i # h
          BY <1>1, <1>5, <1>6, <1>7, <4>1, <4>2, <4>3, <4>7 DEF StepsOK, Place
        <5> QED
          BY <5>1
      <4>8. ASSUME s.complete, s.agent \notin Eager, Key[s.agent] # NoKey,
                   turn[s.agent] <= s.turn + 1, turn'[s.agent] > s.turn + 1
            PROVE  DOMAIN s.results \subseteq carried
        <5>1. /\ s.turn < turn[s.agent] /\ turn[s.agent] \in Nat
              /\ DOMAIN s.results = answered[s.agent][s.turn]
              /\ s.turn \in 1..MaxTurns[s.agent]
          BY <4>3, <4>4, <4>8 DEF StepOK, Conversations
        <5>2. s.agent = a
          BY <1>11, <4>4, <4>8, <5>1
        <5>3. /\ r.client = "waits" /\ s.turn = turn[a] - 1 /\ turn[a] > 1
              /\ turn[a] <= MaxTurns[a]
          BY <1>2, <1>11, <4>4, <4>8, <5>1, <5>2 DEF RelayOK
        <5>4. r.carried = Carried(a)
          BY <1>2, <5>3 DEF RelayOK
        <5>5. answered[a][turn[a] - 1] \subseteq r.carried
          BY <1>2, <5>3, <5>4, CarriedType
        <5>6. i = h
          BY <1>1, <1>5, <1>11, <4>2, <4>3, <4>8, <5>2, KeyedSession
        <5> QED
          BY <5>1, <5>2, <5>3, <5>5, <5>6
      <4> HIDE DEF carried
      <4>9. StepOK(T[i].steps[j])'
        BY <1>2, <4>1, <4>2, <4>3, <4>6, <4>7, <4>8, StepStays
      <4> QED
        BY <1>10, <4>1, <4>2, <4>3, <4>9 DEF Attached
    <3> QED
      BY <3>1, <3>2
  <2>2. ASSUME NEW i \in DOMAIN T, T[i].id.key = NoKey
        PROVE  /\ Len(T[i].steps) <= 1
               /\ \A q \in R \ {r} : q.session = T[i].id => T[i].steps = <<>>
    <3>1. CASE i = h
      <4>1. S[h].steps = <<>>
        BY <1>1, <1>5, <1>10, <2>2, <3>1 DEF StepsOK
      <4>2. Len(T[h].steps) = 1
        <5>1. Len(T[h].steps) = Len(S[h].steps) + 1
          BY <1>3, <1>5 DEF Intercepted
        <5> QED
          BY <4>1, <5>1
      <4>3. \A q \in R \ {r} : q.session # T[i].id
        BY <1>1, <1>5, <1>10, <2>2, <3>1 DEF RelaysDiffer
      <4> QED
        BY <3>1, <4>2, <4>3
    <3>2. CASE i # h
      <4>1. T[i].steps = S[i].steps /\ T[i].id = S[i].id /\ i \in DOMAIN S
        BY <1>3, <1>10, <3>2 DEF Intercepted
      <4> QED
        BY <1>1, <2>2, <4>1 DEF StepsOK
    <3> QED
      BY <3>1, <3>2
  <2> QED
    BY <2>1, <2>2 DEF StepsOK, Place
<1>24. OncePerTurn(T, R \ {r})
  <2>1. ASSUME NEW i, NEW j, Done(S, i, j, a), complete
        PROVE  S[i].steps[j].turn # r.turn
    <3>1. CASE r.client = "waits"
      BY <1>11, <1>12, <2>1, <3>1
    <3>2. CASE r.client = "served"
      BY <1>1, <1>2, <2>1, <3>2 DEF OncePerTurn
    <3> QED
      BY <1>2, <2>1, <3>1, <3>2
  <2>2. ASSUME NEW b \in Agents, NEW i, NEW j, NEW k, NEW l,
               Done(T, i, j, b), Done(T, k, l, b),
               T[i].steps[j].turn = T[k].steps[l].turn
        PROVE  i = k /\ j = l
    <3>1. CASE Done(S, i, j, b) /\ Done(S, k, l, b)
      <4>1. S[i].steps[j].turn = S[k].steps[l].turn
        BY <1>9, <2>2, <3>1
      <4> QED
        BY <1>1, <3>1, <4>1 DEF OncePerTurn
    <3>2. CASE ~Done(S, i, j, b)
      <4>1. i = h /\ j = n /\ b = a /\ complete /\ T[i].steps[j].turn = r.turn
        BY <1>8, <2>2, <3>2
      <4>2. Done(S, k, l, b) => S[k].steps[l].turn = r.turn
        BY <1>9, <2>2, <4>1
      <4> QED
        BY <1>8, <2>1, <2>2, <4>1, <4>2
    <3>3. CASE ~Done(S, k, l, b)
      <4>1. k = h /\ l = n /\ b = a /\ complete /\ T[k].steps[l].turn = r.turn
        BY <1>8, <2>2, <3>3
      <4>2. Done(S, i, j, b) => S[i].steps[j].turn = r.turn
        BY <1>9, <2>2, <4>1
      <4> QED
        BY <1>8, <2>1, <2>2, <4>1, <4>2
    <3> QED
      BY <3>1, <3>2, <3>3
  <2>3. ASSUME NEW b \in Agents, NEW i, NEW j, Done(T, i, j, b),
               NEW q \in R \ {r}, q.agent = b, q.client = "served"
        PROVE  q.turn # T[i].steps[j].turn
    <3>1. CASE Done(S, i, j, b)
      BY <1>1, <1>9, <2>3, <3>1 DEF OncePerTurn
    <3>2. CASE ~Done(S, i, j, b)
      <4>1. b = a /\ complete /\ T[i].steps[j].turn = r.turn
        BY <1>8, <2>3, <3>2
      <4>2. CASE r.client = "waits"
        <5>1. q.turn < turn[a] /\ q.turn \in Nat
          BY <1>1, <2>3, <4>1 DEF RelayOK, Relay
        <5> QED
          BY <1>11, <4>1, <4>2, <5>1
      <4>3. CASE r.client = "served"
        BY <1>1, <2>3, <4>1, <4>3 DEF RelaysDiffer
      <4> QED
        BY <1>2, <4>1, <4>2, <4>3
    <3> QED
      BY <3>1, <3>2
  <2> QED
    BY <2>2, <2>3 DEF OncePerTurn
<1>25. InOrder(T, R \ {r})'
  <2>1. ASSUME NEW b \in Agents \ Eager, NEW t \in 1..(turn'[b] - 1)
        PROVE  \E i, j : Done(T, i, j, b) /\ T[i].steps[j].turn = t
    <3>1. CASE t \in 1..(turn[b] - 1)
      <4>1. PICK i, j : Done(S, i, j, b) /\ S[i].steps[j].turn = t
        BY <1>1, <3>1 DEF InOrder
      <4> QED
        BY <1>9, <4>1
    <3>2. CASE t \notin 1..(turn[b] - 1)
      <4>1. b = a
        BY <1>11, <2>1, <3>2
      <4>2. r.client = "waits" /\ complete /\ t = r.turn
        BY <1>11, <2>1, <3>2, <4>1
      <4>3. Done(T, h, n, b) /\ T[h].steps[n].turn = t
        BY <1>4, <1>7, <4>1, <4>2 DEF Done
      <4> QED
        BY <4>3
    <3> QED
      BY <3>1, <3>2
  <2>2. ASSUME NEW b \in Agents \ Eager, NEW i, NEW j, NEW k, NEW l,
               Done(T, i, j, b), Done(T, k, l, b), i < k \/ (i = k /\ j < l)
        PROVE  T[i].steps[j].turn < T[k].steps[l].turn
    <3>1. CASE Done(S, i, j, b) /\ Done(S, k, l, b)
      <4>1. S[i].steps[j].turn < S[k].steps[l].turn
        BY <1>1, <2>2, <3>1 DEF InOrder
      <4> QED
        BY <1>9, <3>1, <4>1
    <3>2. CASE ~Done(S, k, l, b)
      <4>1. k = h /\ l = n /\ b = a /\ complete /\ T[k].steps[l].turn = r.turn
        BY <1>8, <2>2, <3>2
      <4>2. r.client = "waits"
        BY <1>2, <2>2, <4>1 DEF RelayOK
      <4>3. Done(S, i, j, b) /\ T[i].steps[j].turn = S[i].steps[j].turn
        BY <1>7, <1>8, <1>13, <2>2, <4>1
      <4> QED
        BY <1>11, <1>12, <4>1, <4>2, <4>3
    <3>3. CASE ~Done(S, i, j, b) /\ Done(S, k, l, b)
      <4>1. i = h /\ j = n /\ b = a /\ complete
        BY <1>8, <2>2, <3>3
      <4>2. /\ k \in DOMAIN S /\ Place(S, k, l)
            /\ S[k].id.key = Key[a]
        BY <1>12, <3>3, <4>1 DEF Done, Place
      <4>3. k # h
        BY <1>7, <1>13, <2>2, <4>1, <4>2
      <4>4. Key[a] = NoKey
        BY <1>1, <1>5, <1>11, <4>2, <4>3, KeyedSession
      <4>5. k < r.session.number
        <5>1. r.client = "waits"
          BY <1>2, <2>2, <4>1 DEF RelayOK
        <5> QED
          BY <1>1, <2>2, <3>3, <4>1, <4>4, <5>1 DEF InOrder
      <4>6. r.session.number = h
        BY <1>1, <1>5, <1>11, <4>4 DEF SessionsOK
      <4> QED
        BY <1>13, <2>2, <4>1, <4>2, <4>3, <4>5, <4>6
    <3> QED
      BY <3>1, <3>2, <3>3
  <2>3. ASSUME NEW b \in Agents \ Eager, Key[b] = NoKey, NEW i, NEW j,
               Done(T, i, j, b), NEW q \in R \ {r}, q.agent = b, q.client = "waits"
        PROVE  i < q.session.number
    <3>1. CASE Done(S, i, j, b)
      BY <1>1, <2>3, <3>1 DEF InOrder
    <3>2. CASE ~Done(S, i, j, b)
      <4>1. b = a /\ complete
        BY <1>8, <2>3, <3>2
      <4>2. r.client = "waits"
        BY <1>2, <2>3, <4>1 DEF RelayOK
      <4> QED
        BY <1>1, <2>3, <4>1, <4>2 DEF RelaysDiffer
    <3> QED
      BY <3>1, <3>2
  <2> QED
    BY <2>1, <2>2, <2>3 DEF InOrder, Done, Place
<1> QED
  BY <1>1, <1>3, <1>20, <1>21, <1>22, <1>23, <1>24, <1>25 DEF Inv

----------------------------------------------------------------------------
(* The steps that capture nothing.                                          *)

\* What is known of relays and traces depends on the conversations only.
LEMMA StayingKeeps ==
    ASSUME Conversations, Stays, NEW S, NEW R, Inv(S, R)
    PROVE  Inv(S, R)'
<1>1. turn' = turn /\ attempt' = attempt /\ answered' = answered
  BY DEF Stays
<1>2. ASSUME NEW q \in R
      PROVE  RelayOK(S, q)'
  <2>1. q \in Relay /\ q.agent \in Agents /\ RelayOK(S, q)
    BY DEF Inv, Relay
  <2> QED
    BY <2>1, StaysForward, RelayStays
<1>3. StepsOK(S, R)'
  <2>1. ASSUME NEW s, StepOK(s)
        PROVE  StepOK(s)'
    BY <1>1, <2>1 DEF StepOK, Broken
  <2> QED
    BY <2>1 DEF Inv, StepsOK, Place
<1>4. InOrder(S, R)'
  BY <1>1 DEF Inv, InOrder, Done, Place
<1> QED
  BY <1>2, <1>3, <1>4 DEF Inv, SessionsOK, OncePerTurn, RelaysDiffer, Done, Place

\* A relay ends without a capture, or goes on without its client: one it served is of
\* an eager agent, which goes on, and that of one who left is of a broken attempt.
LEMMA QuietKeeps ==
    ASSUME Conversations, NEW S, NEW R, Inv(S, R), NEW r \in R, Forward(r.agent),
           Stays \/ r.client = "waits",
           turn'[r.agent] = turn[r.agent] \/ r.agent \in Eager,
           NEW e, e = [r EXCEPT !.client = "left"] \/
                  (r.client = "waits" /\ e = [r EXCEPT !.client = "served"]),
           NEW Q, Q \subseteq (R \ {r}) \cup {e},
           e \in R \ {r} \/ e \notin Q \/ RelayOK(S, e)'
    PROVE  Inv(S, Q)'
<1> DEFINE a == r.agent
<1>1. /\ S \in Seq(Session) /\ R \in SUBSET Relay /\ RelaysDiffer(R)
      /\ \A q \in R : RelayOK(S, q)
      /\ SessionsOK(S) /\ StepsOK(S, R) /\ OncePerTurn(S, R) /\ InOrder(S, R)
  BY DEF Inv
<1>2. /\ r \in Relay /\ RelayOK(S, r) /\ a \in Agents /\ r.turn \in Nat
  BY <1>1 DEF Relay
<1>3. /\ e \in Relay /\ e.agent = a /\ e.turn = r.turn /\ e.session = r.session
      /\ e.client # "waits" /\ (e.client = "served" => r.client = "waits")
  BY <1>2 DEF Relay
<1>4. /\ turn[a] \in Nat
      /\ \A b \in Agents \ {a} : turn'[b] = turn[b]
      /\ r.client = "waits" => r.turn = turn[a]
  BY <1>2 DEF RelayOK, Forward, Conversations
<1>5. ASSUME NEW q \in Q
      PROVE  (q \in R \ {r} \/ q = e) /\ (q.client = "waits" => q \in R)
  <2>1. q \in R \ {r} \/ q = e
    OBVIOUS
  <2> QED
    BY <1>3, <2>1
<1>6. Q \in SUBSET Relay
  BY <1>1, <1>3, <1>5
<1>7. ASSUME NEW q \in Q
      PROVE  RelayOK(S, q)'
  <2>1. CASE q \in R \ {r}
    <3>1. q \in Relay /\ RelayOK(S, q)
      BY <1>1, <2>1
    <3>2. q.client = "waits" => q.agent # a \/ Stays
      BY <1>1, <2>1 DEF RelaysDiffer
    <3> QED
      BY <1>2, <3>1, <3>2, RelayStays
  <2>2. CASE q \notin R \ {r}
    BY <1>5, <2>2
  <2> QED
    BY <2>1, <2>2
<1>8. RelaysDiffer(Q)
  <2>1. ASSUME NEW q \in R, q.agent = a, q.client = "served", e.client = "served"
        PROVE  q.turn # e.turn
    <3>1. q.turn < turn[a] /\ q.turn \in Nat
      BY <1>1, <2>1 DEF RelayOK, Relay
    <3> QED
      BY <1>3, <1>4, <2>1, <3>1
  <2>2. ASSUME NEW q \in R \ {r}, q.session = r.session
        PROVE  r.session.key # NoKey
    BY <1>1, <2>2 DEF RelaysDiffer
  <2>3. ASSUME NEW q \in Q, NEW p \in Q, q.agent = p.agent,
               q.client = "waits", p.client = "waits"
        PROVE  q = p
    BY <1>1, <1>5, <2>3 DEF RelaysDiffer
  <2>4. ASSUME NEW q \in Q, NEW p \in Q, q.agent = p.agent, q.client = "served",
               p.client = "served", q.turn = p.turn
        PROVE  q = p
    BY <1>1, <1>3, <1>5, <2>1, <2>4 DEF RelaysDiffer
  <2>5. ASSUME NEW q \in Q, NEW p \in Q, q.session = p.session, p.session.key = NoKey
        PROVE  q = p
    BY <1>1, <1>3, <1>5, <2>2, <2>5 DEF RelaysDiffer
  <2> QED
    BY <2>3, <2>4, <2>5 DEF RelaysDiffer
<1>9. StepsOK(S, Q)'
  <2>1. ASSUME NEW i, NEW j, Place(S, i, j)
        PROVE  StepOK(S[i].steps[j])' /\ S[i].id.key = Key[S[i].steps[j].agent]
    <3>1. StepOK(S[i].steps[j]) /\ S[i].id.key = Key[S[i].steps[j].agent]
      BY <1>1, <2>1 DEF StepsOK
    <3>2. S[i].steps[j] \in Step
      BY <1>1, <2>1, PlaceType
    <3>3. turn'[S[i].steps[j].agent] = turn[S[i].steps[j].agent]
             \/ S[i].steps[j].agent \in Eager
      BY <1>4, <3>2 DEF Step
    <3>4. Attached(S[i].steps[j], S[i].steps[j], {})
      BY DEF Attached
    <3>5. ASSUME NEW s \in Step, StepOK(s), Attached(s, s, {}),
                 turn'[s.agent] = turn[s.agent] \/ s.agent \in Eager
          PROVE  StepOK(s)'
      <4>1. turn[s.agent] \in Nat /\ s.turn \in Nat
        BY DEF Step, Conversations
      <4>2. ~(/\ s.complete /\ s.agent \notin Eager /\ Key[s.agent] # NoKey
              /\ turn[s.agent] <= s.turn + 1 /\ turn'[s.agent] > s.turn + 1)
        BY <3>5, <4>1
      <4> QED
        BY <1>2, <3>5, <4>2, StepStays
    <3> QED
      BY <3>1, <3>2, <3>3, <3>4, <3>5
  <2>2. ASSUME NEW i \in DOMAIN S, S[i].id.key = NoKey
        PROVE  /\ Len(S[i].steps) <= 1
               /\ \A q \in Q : q.session = S[i].id => S[i].steps = <<>>
    BY <1>1, <1>3, <1>5, <2>2 DEF StepsOK
  <2> QED
    BY <2>1, <2>2 DEF StepsOK, Place
<1>10. OncePerTurn(S, Q)
  <2>1. ASSUME NEW i, NEW j, Done(S, i, j, a), e.client = "served"
        PROVE  e.turn # S[i].steps[j].turn
    <3>1. Place(S, i, j) /\ S[i].steps[j].complete /\ S[i].steps[j].agent = a
      BY <2>1 DEF Done
    <3>2. StepOK(S[i].steps[j]) /\ S[i].steps[j] \in Step
      BY <1>1, <3>1, PlaceType DEF StepsOK
    <3>3. S[i].steps[j].turn < turn[a] /\ S[i].steps[j].turn \in Nat
      BY <3>1, <3>2 DEF StepOK, Step
    <3> QED
      BY <1>3, <1>4, <2>1, <3>3
  <2>2. ASSUME NEW b \in Agents, NEW i, NEW j, Done(S, i, j, b),
               NEW q \in Q, q.agent = b, q.client = "served"
        PROVE  q.turn # S[i].steps[j].turn
    BY <1>1, <1>3, <1>5, <2>1, <2>2 DEF OncePerTurn
  <2> QED
    BY <1>1, <2>2 DEF OncePerTurn
<1>11. InOrder(S, Q)'
  <2>1. \A b \in Agents \ Eager : turn'[b] = turn[b]
    BY <1>4
  <2>2. ASSUME NEW b \in Agents \ Eager, Key[b] = NoKey, NEW i, NEW j,
               Done(S, i, j, b), NEW q \in Q, q.agent = b, q.client = "waits"
        PROVE  i < q.session.number
    BY <1>1, <1>5, <2>2 DEF InOrder
  <2>3. ASSUME NEW b \in Agents \ Eager
        PROVE  /\ \A t \in 1..(turn'[b] - 1) : \E i, j :
                      Done(S, i, j, b) /\ S[i].steps[j].turn = t
               /\ \A i, j, k, l :
                      Done(S, i, j, b) /\ Done(S, k, l, b) /\ (i < k \/ (i = k /\ j < l))
                      => S[i].steps[j].turn < S[k].steps[l].turn
    BY <1>1, <2>1 DEF InOrder
  <2> QED
    BY <2>2, <2>3 DEF InOrder, Done, Place
<1> QED
  BY <1>1, <1>6, <1>7, <1>8, <1>9, <1>10, <1>11 DEF Inv, SessionsOK, OncePerTurn, RelaysDiffer, Done, Place

----------------------------------------------------------------------------
(* The invariant.                                                           *)

\* A whole reply is the step of a turn that the agent has left behind.
LEMMA WholeStepOK ==
    ASSUME NEW r \in Relay, NEW calls, r.turn \in 1..MaxTurns[r.agent],
           turn'[r.agent] \in Nat, r.turn < turn'[r.agent],
           calls = answered'[r.agent][r.turn],
           turn'[r.agent] = r.turn + 1 \/ r.agent \in Eager
    PROVE  StepOK(NewStep(r, calls, TRUE))'
<1> DEFINE s == NewStep(r, calls, TRUE)
<1>1. /\ s.agent = r.agent /\ s.turn = r.turn /\ s.complete = TRUE
      /\ DOMAIN s.results = calls /\ \A c \in calls : s.results[c] = 0
  BY DEF NewStep
<1>2. r.turn \in Nat
  BY DEF Relay
<1>3. ~(turn'[r.agent] > r.turn + 1 /\ r.agent \notin Eager)
  BY <1>2
<1> HIDE DEF s
<1>4. StepOK(s)'
  BY <1>1, <1>3 DEF StepOK
<1> QED
  BY <1>4 DEF s

\* No request will carry results of the calls of a broken reply.
LEMMA BrokenStepOK ==
    ASSUME NEW r \in Relay, NEW calls, r.turn \in 1..MaxTurns[r.agent],
           \A c \in calls : c.agent = r.agent /\ c.turn = r.turn /\ c.attempt = r.attempt,
           Broken(r.agent, r.turn, r.attempt)'
    PROVE  StepOK(NewStep(r, calls, FALSE))'
<1> DEFINE s == NewStep(r, calls, FALSE)
<1>1. /\ s.agent = r.agent /\ s.turn = r.turn /\ s.complete = FALSE
      /\ DOMAIN s.results = calls /\ \A c \in calls : s.results[c] = 0
  BY DEF NewStep
<1> HIDE DEF s
<1>2. StepOK(s)'
  BY <1>1 DEF StepOK
<1> QED
  BY <1>2 DEF s

\* What the relays of the proxy are known to be.
LEMMA RelayFacts ==
    ASSUME IInv, NEW r \in relays
    PROVE  /\ Conversations /\ Inv(sessions, relays)
           /\ r \in Relay /\ RelayOK(sessions, r) /\ r.agent \in Agents
           /\ r.turn \in 1..MaxTurns[r.agent] /\ r.turn <= turn[r.agent]
           /\ r.turn \in Nat /\ r.attempt \in Nat /\ turn[r.agent] \in Nat
           /\ r.client = "waits" => r.turn = turn[r.agent] /\ r.attempt = attempt[r.agent]
BY DEF IInv, Inv, Relay, RelayOK, Conversations

\* A relay goes on without its client: that was served, or has left a broken attempt.
LEMMA ClientGone ==
    ASSUME Conversations, NEW S, NEW r \in Relay, RelayOK(S, r), Forward(r.agent),
           NEW client \in {"served", "left"}, NEW e, e = [r EXCEPT !.client = client],
           client = "served" => r.agent \in Eager /\ r.turn < turn'[r.agent],
           client = "left" => Broken(r.agent, r.turn, r.attempt)'
    PROVE  RelayOK(S, e)'
<1> DEFINE a == r.agent
<1>1. /\ e.agent = a /\ e.turn = r.turn /\ e.attempt = r.attempt
      /\ e.carried = r.carried /\ e.session = r.session /\ e.client = client
      /\ a \in Agents /\ r.turn \in Nat
  BY DEF Relay
<1>2. /\ r.turn \in 1..MaxTurns[a] /\ r.turn <= turn[a]
      /\ OpenIn(S, r.session) /\ r.session.key = Key[a]
      /\ \A c \in r.carried : c.agent = a /\ c.turn \in 1..(r.turn - 1)
                              /\ c \in answered[a][c.turn]
  BY DEF RelayOK
<1>3. /\ turn[a] <= turn'[a] /\ turn[a] \in Nat /\ turn'[a] \in Nat
      /\ \A t \in 1..MaxTurns[a] : t < turn[a] => answered'[a][t] = answered[a][t]
  BY <1>1, ForwardTurns
<1>4. ASSUME NEW c \in r.carried
      PROVE  c \in answered'[a][c.turn]
  <2>1. c.turn \in 1..MaxTurns[a] /\ c.turn < turn[a]
    BY <1>1, <1>2, <1>3
  <2> QED
    BY <1>2, <1>3, <2>1
<1>5. r.turn <= turn'[a]
  BY <1>1, <1>2, <1>3
<1> QED
  BY <1>1, <1>2, <1>4, <1>5 DEF RelayOK, OpenIn

\* The relay steps without a capture.
LEMMA QuietStep ==
    ASSUME IInv, NEW r \in relays,
           \/ \E n \in 0..MaxCalls : Hurry(r, n)
           \/ Refuse(r) \/ Disconnect(r) \/ CutOff(r)
    PROVE  IInv'
<1> DEFINE a == r.agent
<1>1. /\ Conversations /\ Inv(sessions, relays)
      /\ r \in Relay /\ RelayOK(sessions, r) /\ a \in Agents
      /\ r.turn \in 1..MaxTurns[a] /\ r.turn <= turn[a]
      /\ r.turn \in Nat /\ r.attempt \in Nat /\ turn[a] \in Nat
      /\ r.client = "waits" => r.turn = turn[a] /\ r.attempt = attempt[a]
  BY RelayFacts
<1>2. PICK S, R : S = sessions /\ R = relays
  OBVIOUS
<1>3. Inv(S, R) /\ r \in R /\ RelayOK(S, r)
  BY <1>1, <1>2
<1>4. PICK Q : Q = relays'
  OBVIOUS
<1>5. ASSUME sessions' = sessions, Conversations', Inv(S, Q)'
      PROVE  IInv'
  BY <1>2, <1>4, <1>5 DEF IInv
<1>7. ASSUME NEW n \in 0..MaxCalls, Hurry(r, n)
      PROVE  IInv'
  <2>1. PICK e : e = [r EXCEPT !.client = "served"]
    OBVIOUS
  <2>2. /\ r.client = "waits" /\ a \in Eager /\ Q = (R \ {r}) \cup {e}
        /\ GoesOn(r, CallsOf(r, n)) /\ sessions' = sessions
    BY <1>2, <1>4, <1>7, <2>1 DEF Hurry
  <2>3. Forward(a) /\ turn'[a] = turn[a] + 1 /\ n \in Nat
    BY <1>1, <2>2, GoesOnForward
  <2>4. r.turn < turn'[a]
    BY <1>1, <2>2, <2>3
  <2>5. RelayOK(S, e)'
    BY <1>1, <1>3, <2>1, <2>2, <2>3, <2>4, ClientGone
  <2>6. Inv(S, Q)'
    BY <1>1, <1>3, <2>1, <2>2, <2>3, <2>5, QuietKeeps
  <2> QED
    BY <1>5, <2>2, <2>3, <2>6 DEF Forward
<1>8. ASSUME Repeats(r)
      PROVE  /\ Forward(a) /\ Conversations' /\ turn'[a] = turn[a]
             /\ r.client = "waits" /\ Broken(a, r.turn, r.attempt)'
  <2>1. Forward(a) /\ Conversations'
    BY <1>1, <1>8, RepeatsForward DEF Forward
  <2>2. r.client = "waits" /\ turn' = turn /\ attempt'[a] = attempt[a] + 1
    BY <1>1, <1>8 DEF Repeats, Conversations
  <2>3. Broken(a, r.turn, r.attempt)'
    BY <1>1, <2>2 DEF Broken
  <2> QED
    BY <2>1, <2>2, <2>3
<1>9. PICK e : e = [r EXCEPT !.client = "left"]
  OBVIOUS
<1>10. ASSUME Refuse(r)
       PROVE  IInv'
  <2>1. Repeats(r) /\ Q = R \ {r} /\ sessions' = sessions
    BY <1>2, <1>4, <1>10 DEF Refuse
  <2>2. Inv(S, Q)'
    BY <1>1, <1>3, <1>8, <1>9, <2>1, QuietKeeps
  <2> QED
    BY <1>5, <1>8, <2>1, <2>2
<1>11. ASSUME Disconnect(r)
       PROVE  IInv'
  <2>1. Repeats(r) /\ Q = (R \ {r}) \cup {e} /\ sessions' = sessions
    BY <1>2, <1>4, <1>9, <1>11 DEF Disconnect
  <2>2. RelayOK(S, e)'
    BY <1>1, <1>3, <1>8, <1>9, <2>1, ClientGone
  <2>3. Inv(S, Q)'
    BY <1>1, <1>3, <1>8, <1>9, <2>1, <2>2, QuietKeeps
  <2> QED
    BY <1>5, <1>8, <2>1, <2>3
<1>12. ASSUME CutOff(r)
       PROVE  IInv'
  <2>1. Stays /\ Q = R \ {r} /\ sessions' = sessions
    BY <1>2, <1>4, <1>12 DEF CutOff, Stays
  <2>2. Forward(a) /\ Conversations' /\ turn'[a] = turn[a]
    BY <1>1, <2>1, StaysForward DEF Forward, Stays
  <2>3. Inv(S, Q)'
    BY <1>1, <1>3, <1>9, <2>1, <2>2, QuietKeeps
  <2> QED
    BY <1>5, <2>1, <2>2, <2>3
<1> QED
  BY <1>7, <1>10, <1>11, <1>12

\* The relay steps with a capture.
LEMMA CaptureStep ==
    ASSUME IInv, NEW r \in relays,
           \/ \E n \in 0..MaxCalls : Capture(r, n) \/ Break(r, n) \/ CaptureRest(r, n)
           \/ CaptureLate(r)
    PROVE  IInv'
<1> DEFINE a == r.agent
<1>1. /\ Conversations /\ Inv(sessions, relays)
      /\ r \in Relay /\ RelayOK(sessions, r) /\ a \in Agents
      /\ r.turn \in 1..MaxTurns[a] /\ r.turn <= turn[a]
      /\ r.turn \in Nat /\ r.attempt \in Nat /\ turn[a] \in Nat
      /\ r.client = "waits" => r.turn = turn[a] /\ r.attempt = attempt[a]
  BY RelayFacts
<1>2. PICK S, R : S = sessions /\ R = relays
  OBVIOUS
<1>3. PICK T : T = sessions'
  OBVIOUS
<1>4. Inv(S, R) /\ r \in R /\ RelayOK(S, r)
  BY <1>1, <1>2
<1>5. ASSUME Conversations', relays' = relays \ {r}, Inv(T, R \ {r})'
      PROVE  IInv'
  BY <1>2, <1>3, <1>5 DEF IInv
<1>6. \A n \in 0..MaxCalls : n \in Nat
  OBVIOUS
<1>7. ASSUME NEW n \in 0..MaxCalls, Capture(r, n)
      PROVE  IInv'
  <2>1. PICK calls : calls = CallsOf(r, n)
    OBVIOUS
  <2>2. /\ r.client = "waits" /\ relays' = relays \ {r}
        /\ Intercept(S, r, calls, TRUE) /\ GoesOn(r, CallsOf(r, n))
    BY <1>2, <1>7, <2>1 DEF Capture
  <2>3. /\ Forward(a) /\ turn'[a] = turn[a] + 1 /\ answered'[a][r.turn] = calls
        /\ calls \in SUBSET Call
    BY <1>1, <1>6, <2>1, <2>2, GoesOnForward, CallsOfType
  <2>4. StepOK(NewStep(r, calls, TRUE))'
    <3>1. /\ turn'[a] = r.turn + 1 /\ turn'[a] \in Nat /\ r.turn < turn'[a]
      BY <1>1, <2>2, <2>3
    <3> QED
      BY <1>1, <2>3, <3>1, WholeStepOK
  <2>5. Inv(T, R \ {r})'
    BY <1>1, <1>3, <1>4, <2>2, <2>3, <2>4, CaptureKeeps
  <2> QED
    BY <1>5, <2>2, <2>3, <2>5 DEF Forward
<1>8. ASSUME NEW n \in 0..MaxCalls, Break(r, n)
      PROVE  IInv'
  <2>1. PICK calls : calls = CallsOf(r, n)
    OBVIOUS
  <2>2. /\ r.client = "waits" /\ relays' = relays \ {r}
        /\ Intercept(S, r, calls, FALSE) /\ Repeats(r)
        /\ turn' = turn /\ attempt'[a] = attempt[a] + 1
    BY <1>1, <1>2, <1>8, <2>1 DEF Break, Repeats, Conversations
  <2>3. /\ calls \in SUBSET Call
        /\ \A c \in calls : c.agent = a /\ c.turn = r.turn /\ c.attempt = r.attempt
    BY <1>1, <1>6, <2>1, CallsOfType
  <2>4. Forward(a) /\ turn'[a] = turn[a]
    BY <1>1, <2>2, RepeatsForward
  <2>5. Broken(a, r.turn, r.attempt)'
    BY <1>1, <2>2 DEF Broken
  <2>6. StepOK(NewStep(r, calls, FALSE))'
    BY <1>1, <2>3, <2>5, BrokenStepOK
  <2>7. Inv(T, R \ {r})'
    BY <1>1, <1>3, <1>4, <2>2, <2>3, <2>4, <2>6, CaptureKeeps
  <2> QED
    BY <1>5, <2>2, <2>4, <2>7 DEF Forward
<1>9. ASSUME Stays
      PROVE  Forward(a) /\ Conversations' /\ turn'[a] = turn[a]
  BY <1>1, <1>9, StaysForward DEF Forward, Stays
<1>10. ASSUME NEW n \in 0..MaxCalls, CaptureRest(r, n)
       PROVE  IInv'
  <2>1. PICK calls : calls = CallsOf(r, n)
    OBVIOUS
  <2>2. /\ r.client = "left" /\ relays' = relays \ {r}
        /\ Intercept(S, r, calls, FALSE) /\ Stays
    BY <1>2, <1>10, <2>1 DEF CaptureRest, Stays
  <2>3. /\ calls \in SUBSET Call
        /\ \A c \in calls : c.agent = a /\ c.turn = r.turn /\ c.attempt = r.attempt
    BY <1>1, <1>6, <2>1, CallsOfType
  <2>4. Broken(a, r.turn, r.attempt)'
    BY <1>1, <1>9, <2>2 DEF RelayOK, Forward
  <2>5. StepOK(NewStep(r, calls, FALSE))'
    BY <1>1, <2>3, <2>4, BrokenStepOK
  <2>6. Inv(T, R \ {r})'
    BY <1>1, <1>3, <1>4, <1>9, <2>2, <2>3, <2>5, CaptureKeeps
  <2> QED
    BY <1>5, <1>9, <2>2, <2>6
<1>11. ASSUME CaptureLate(r)
       PROVE  IInv'
  <2>1. PICK calls : calls = answered[a][r.turn]
    OBVIOUS
  <2>2. /\ r.client = "served" /\ relays' = relays \ {r}
        /\ Intercept(S, r, calls, TRUE) /\ Stays
    BY <1>2, <1>11, <2>1 DEF CaptureLate, Stays
  <2>3. r.turn < turn[a] /\ a \in Eager
    BY <1>1, <2>2 DEF RelayOK
  <2>4. calls \in SUBSET Call /\ calls = answered'[a][r.turn]
    BY <1>1, <2>1, <2>2 DEF Conversations, Stays
  <2>5. StepOK(NewStep(r, calls, TRUE))'
    BY <1>1, <1>9, <2>2, <2>3, <2>4, WholeStepOK
  <2>6. Inv(T, R \ {r})'
    BY <1>1, <1>3, <1>4, <1>9, <2>2, <2>4, <2>5, CaptureKeeps
  <2> QED
    BY <1>5, <1>9, <2>2, <2>6
<1> QED
  BY <1>7, <1>8, <1>10, <1>11

\* A new request, a side call, or a request answered on the spot.
LEMMA RequestStep ==
    ASSUME IInv, NEW a \in Agents,
           Ask(a) \/ SideCall(a) \/ \E n \in 0..MaxCalls : Synthesize(a, n)
    PROVE  IInv'
<1>1. Conversations /\ Inv(sessions, relays)
  BY DEF IInv
<1>2. PICK q : q = Request(a, "waits")
  OBVIOUS
<1>3. q.session = SessionOf(a) /\ q.agent = a
  BY <1>2 DEF Request
<1>4. PICK S, R, T : S = Open(q.session) /\ R = relays \cup {q} /\ T = sessions'
  OBVIOUS
<1>5. ASSUME Asks(a)
      PROVE  q \in Relay /\ q \notin relays /\ Inv(S, R)
  BY <1>2, <1>4, <1>5, AskKeeps
<1>6. ASSUME Ask(a)
      PROVE  IInv'
  <2>1. Asks(a) /\ relays' = R /\ sessions' = S /\ Stays
    BY <1>2, <1>3, <1>4, <1>6 DEF Ask, Stays
  <2>2. Inv(S, R)'
    BY <1>1, <1>5, <2>1, StayingKeeps
  <2> QED
    BY <1>1, <2>1, <2>2, StaysForward DEF IInv, Forward
<1>7. ASSUME SideCall(a)
      PROVE  IInv'
  <2>1. relays' = relays /\ sessions' = S /\ Stays
    BY <1>3, <1>4, <1>7 DEF SideCall, Stays
  <2>2. /\ sessions \in Seq(Session) /\ Len(sessions) \in Nat
    BY <1>1, SequenceMembers DEF Inv
  <2>3. /\ q.session \in SessionId
        /\ q.session.number = IF q.session.key = NoKey THEN Len(sessions) + 1 ELSE 0
    BY <1>3, <2>2 DEF SessionOf, KeyedId, SessionId, Keys
  <2>4. S \in Seq(Session) /\ Opened(sessions, S, q.session)
    BY <1>4, <2>2, <2>3, OpenOpens
  <2>5. PICK Q : Q = relays
    OBVIOUS
  <2>6. Inv(S, Q)
    BY <1>1, <2>3, <2>4, <2>5, OpenedKeeps
  <2>7. Inv(S, Q)'
    BY <1>1, <2>1, <2>6, StayingKeeps
  <2> QED
    BY <1>1, <2>1, <2>5, <2>7, StaysForward DEF IInv, Forward
<1>8. ASSUME NEW n \in 0..MaxCalls, Synthesize(a, n)
      PROVE  IInv'
  <2>1. PICK calls : calls = CallsOf(q, n)
    OBVIOUS
  <2>2. /\ Asks(a) /\ Intercept(S, q, calls, TRUE) /\ GoesOn(q, CallsOf(q, n))
        /\ relays' = relays
    BY <1>2, <1>4, <1>8, <2>1 DEF Synthesize
  <2>3. /\ Inv(S, R) /\ q \in Relay /\ q \notin relays /\ q \in R
    BY <1>4, <1>5, <2>2
  <2>4. /\ RelayOK(S, q) /\ q.client = "waits"
    BY <1>2, <2>3 DEF Inv, Request
  <2>5. /\ q.turn \in 1..MaxTurns[a] /\ q.turn = turn[a] /\ q.attempt = attempt[a]
        /\ turn[a] \in Nat /\ n \in Nat
    BY <1>1, <1>3, <2>4 DEF RelayOK, Conversations
  <2>6. /\ Forward(a) /\ turn'[a] = turn[a] + 1 /\ answered'[a][q.turn] = calls
        /\ calls \in SUBSET Call
    BY <1>1, <1>3, <2>1, <2>2, <2>3, <2>5, GoesOnForward, CallsOfType
  <2>7. StepOK(NewStep(q, calls, TRUE))'
    <3>1. /\ turn'[a] = q.turn + 1 /\ turn'[a] \in Nat /\ q.turn < turn'[a]
      BY <2>5, <2>6
    <3> QED
      BY <1>3, <2>3, <2>5, <2>6, <3>1, WholeStepOK
  <2>8. Inv(T, R \ {q})'
    BY <1>1, <1>3, <1>4, <2>2, <2>3, <2>4, <2>6, <2>7, CaptureKeeps
  <2>9. R \ {q} = relays'
    BY <1>4, <2>2, <2>3
  <2>10. PICK Q : Q = R \ {q}
    OBVIOUS
  <2> QED
    BY <1>4, <2>6, <2>8, <2>9, <2>10 DEF IInv, Forward
<1> QED
  BY <1>6, <1>7, <1>8

\* The invariant holds in every state of the proxy.
THEOREM TracesAreInductive == Spec => []IInv
<1>1. Init => IInv
  <2> SUFFICES ASSUME Init PROVE IInv
    OBVIOUS
  <2>1. Conversations
    BY DEF Init, Conversations
  <2>2. sessions \in Seq(Session) /\ DOMAIN sessions = {}
    BY DEF Init
  <2>3. \A i, j, a : ~Place(sessions, i, j) /\ ~Done(sessions, i, j, a)
    BY <2>2 DEF Place, Done
  <2>4. relays = {} /\ turn = [a \in Agents |-> 1]
    BY DEF Init
  <2>5. StepsOK(sessions, relays) /\ SessionsOK(sessions) /\ OncePerTurn(sessions, relays)
    BY <2>2, <2>3, <2>4 DEF StepsOK, SessionsOK, OncePerTurn
  <2>6. InOrder(sessions, relays)
    BY <2>3, <2>4 DEF InOrder
  <2> QED
    BY <2>1, <2>2, <2>4, <2>5, <2>6 DEF IInv, Inv, RelaysDiffer
<1>2. IInv /\ [Next]_vars => IInv'
  <2> SUFFICES ASSUME IInv, [Next]_vars PROVE IInv'
    OBVIOUS
  <2>1. ASSUME NEW a \in Agents,
               Ask(a) \/ SideCall(a) \/ \E n \in 0..MaxCalls : Synthesize(a, n)
        PROVE  IInv'
    BY <2>1, RequestStep
  <2>2. ASSUME NEW r \in relays, NEW n \in 0..MaxCalls,
               Capture(r, n) \/ Hurry(r, n) \/ Break(r, n) \/ CaptureRest(r, n)
        PROVE  IInv'
    BY <2>2, CaptureStep, QuietStep
  <2>3. ASSUME NEW r \in relays,
               CaptureLate(r) \/ Refuse(r) \/ Disconnect(r) \/ CutOff(r)
        PROVE  IInv'
    BY <2>3, CaptureStep, QuietStep
  <2>4. CASE UNCHANGED vars
    <3>1. PICK S, R : S = sessions /\ R = relays
      OBVIOUS
    <3>2. Stays /\ sessions' = S /\ relays' = R
      BY <2>4, <3>1 DEF vars, Stays
    <3>3. Inv(S, R)'
      BY <3>1, <3>2, StayingKeeps DEF IInv
    <3>4. Conversations'
      BY <3>2 DEF IInv, Conversations, Stays
    <3> QED
      BY <3>2, <3>3, <3>4 DEF IInv
  <2> QED
    BY <2>1, <2>2, <2>3, <2>4 DEF Next
<1> QED
  BY <1>1, <1>2, PTL DEF Spec

----------------------------------------------------------------------------
(* What the invariant says of the traces.                                   *)

\* The parts of the invariant, of the traces as they are.
LEMMA TraceFacts ==
    ASSUME IInv
    PROVE  /\ sessions \in Seq(Session) /\ DOMAIN sessions = 1..Len(sessions)
           /\ Len(sessions) \in Nat
           /\ turn \in [Agents -> Nat]
           /\ SessionsOK(sessions) /\ StepsOK(sessions, relays)
           /\ OncePerTurn(sessions, relays) /\ InOrder(sessions, relays)
BY SequenceMembers DEF IInv, Inv, Conversations

\* A completed step of an agent is that of one of its earlier turns.
LEMMA DoneTurn ==
    ASSUME IInv, NEW a \in Agents, NEW i, NEW j, Done(sessions, i, j, a)
    PROVE  /\ sessions[i].steps[j].turn \in 1..(turn[a] - 1)
           /\ sessions[i].id.key = Key[a]
<1>1. Place(sessions, i, j) /\ sessions[i].steps[j].agent = a /\ sessions[i].steps[j].complete
  BY DEF Done
<1>2. /\ StepOK(sessions[i].steps[j]) /\ sessions[i].id.key = Key[a]
      /\ sessions[i].steps[j] \in Step
  BY <1>1, TraceFacts, PlaceType DEF StepsOK
<1>3. /\ sessions[i].steps[j].turn \in 1..MaxTurns[a]
      /\ sessions[i].steps[j].turn < turn[a] /\ turn[a] \in Nat
  BY <1>1, <1>2, TraceFacts DEF StepOK
<1>4. MaxTurns[a] \in Nat
  OBVIOUS
<1> QED
  BY <1>2, <1>3, <1>4

\* The places of an agent's completed turns are pairs.
LEMMA CapturedIsDone ==
    ASSUME NEW a
    PROVE  /\ \A p \in Captured(a) :
                 p = <<p[1], p[2]>> /\ Done(sessions, p[1], p[2], a)
           /\ \A i, j : Done(sessions, i, j, a) =>
                 <<i, j>> \in Captured(a) /\ StepAt(<<i, j>>) = sessions[i].steps[j]
<1>1. ASSUME NEW p \in Captured(a)
      PROVE  p = <<p[1], p[2]>> /\ Done(sessions, p[1], p[2], a)
  <2>1. /\ p \in UNION {{i} \X DOMAIN sessions[i].steps : i \in DOMAIN sessions}
        /\ StepAt(p).agent = a /\ StepAt(p).complete
    BY DEF Captured
  <2>2. PICK i \in DOMAIN sessions : p \in {i} \X DOMAIN sessions[i].steps
    BY <2>1
  <2>3. p = <<p[1], p[2]>> /\ p[1] = i /\ p[2] \in DOMAIN sessions[i].steps
    BY <2>2
  <2> QED
    BY <2>1, <2>3 DEF StepAt, Done, Place
<1>2. ASSUME NEW i, NEW j, Done(sessions, i, j, a)
      PROVE  <<i, j>> \in Captured(a) /\ StepAt(<<i, j>>) = sessions[i].steps[j]
  <2>1. <<i, j>> \in {i} \X DOMAIN sessions[i].steps /\ i \in DOMAIN sessions
    BY <1>2 DEF Done, Place
  <2>2. StepAt(<<i, j>>) = sessions[i].steps[j]
    BY DEF StepAt
  <2> QED
    BY <1>2, <2>1, <2>2 DEF Captured, Done
<1> QED
  BY <1>1, <1>2

\* No turn is captured twice as completed, and every turn a patient agent got through
\* is, in the order of its conversation and, with a key, in one trace (_relay's finally
\* block, intercept_turn).
THEOREM TurnsAreCaptured == Spec => []EveryTurnIsCaptured
<1>1. ASSUME IInv
      PROVE  EveryTurnIsCaptured
  <2>1. ASSUME NEW a \in Agents, NEW p \in Captured(a), NEW q \in Captured(a), p # q
        PROVE  StepAt(p).turn # StepAt(q).turn
    <3>1. /\ p = <<p[1], p[2]>> /\ Done(sessions, p[1], p[2], a)
          /\ q = <<q[1], q[2]>> /\ Done(sessions, q[1], q[2], a)
      BY CapturedIsDone
    <3>2. ~(p[1] = q[1] /\ p[2] = q[2])
      BY <2>1, <3>1
    <3> QED
      BY <1>1, <3>1, <3>2, TraceFacts DEF OncePerTurn, StepAt
  <2>2. ASSUME NEW a \in Agents \ Eager
        PROVE  {StepAt(p).turn : p \in Captured(a)} = 1..(turn[a] - 1)
    <3>1. ASSUME NEW p \in Captured(a)
          PROVE  StepAt(p).turn \in 1..(turn[a] - 1)
      BY <1>1, CapturedIsDone, DoneTurn DEF StepAt
    <3>2. ASSUME NEW t \in 1..(turn[a] - 1)
          PROVE  \E p \in Captured(a) : StepAt(p).turn = t
      <4>1. PICK i, j : Done(sessions, i, j, a) /\ sessions[i].steps[j].turn = t
        BY <1>1, TraceFacts DEF InOrder
      <4>2. <<i, j>> \in Captured(a) /\ StepAt(<<i, j>>) = sessions[i].steps[j]
        BY <4>1, CapturedIsDone
      <4> QED
        BY <4>1, <4>2
    <3> QED
      BY <3>1, <3>2
  <2>3. ASSUME NEW a \in Agents \ Eager, NEW p \in Captured(a), NEW q \in Captured(a)
        PROVE  /\ Before(p, q) => StepAt(p).turn < StepAt(q).turn
               /\ Key[a] # NoKey => p[1] = q[1]
    <3>1. Done(sessions, p[1], p[2], a) /\ Done(sessions, q[1], q[2], a)
      BY CapturedIsDone
    <3>2. sessions[p[1]].id.key = Key[a] /\ sessions[q[1]].id.key = Key[a]
      BY <1>1, <3>1, DoneTurn
    <3>3. p[1] \in DOMAIN sessions /\ q[1] \in DOMAIN sessions
      BY <3>1 DEF Done, Place
    <3>4. Key[a] # NoKey => p[1] = q[1]
      BY <1>1, <3>2, <3>3, TraceFacts, KeyedSession
    <3>5. Before(p, q) => StepAt(p).turn < StepAt(q).turn
      BY <1>1, <3>1, TraceFacts DEF InOrder, Before, StepAt
    <3> QED
      BY <3>4, <3>5
  <2> QED
    BY <2>1, <2>2, <2>3 DEF EveryTurnIsCaptured
<1> QED
  BY <1>1, TracesAreInductive, PTL

\* The calls of a patient agent's turn each have one result when the reply after the
\* next request is captured, and a call of a broken reply has none (_attach).
THEOREM ResultsFindTheirCalls == Spec => []ResultsAreAttached
<1>1. ASSUME IInv
      PROVE  ResultsAreAttached
  <2>1. ASSUME NEW i \in DOMAIN sessions, NEW j \in DOMAIN sessions[i].steps,
               NEW s, s = StepAt(<<i, j>>), NEW c \in DOMAIN s.results
        PROVE  /\ s.results[c] \in 0..1
               /\ (s.complete /\ turn[s.agent] > s.turn + 1
                    /\ s.agent \notin Eager /\ Key[s.agent] # NoKey) => s.results[c] = 1
               /\ ~s.complete \/ Key[s.agent] = NoKey => s.results[c] = 0
    <3>1. Place(sessions, i, j) /\ s = sessions[i].steps[j]
      BY <2>1 DEF StepAt, Place
    <3>2. s \in Step /\ StepOK(s)
      BY <1>1, <3>1, TraceFacts, PlaceType DEF StepsOK
    <3>3. s.results[c] \in 0..1
      BY <3>2 DEF Step, Results
    <3> QED
      BY <2>1, <3>2, <3>3 DEF StepOK
  <2> QED
    BY <2>1 DEF ResultsAreAttached
<1> QED
  BY <1>1, TracesAreInductive, PTL

\* A compile request takes the session of its id if there is one, and no session lacks a
\* turn of a patient agent with its key (the compile endpoint).
THEOREM CompilesTakeWholeSessions == Spec => []CompiledIsWhole
<1>1. ASSUME IInv, sessions # <<>>, NEW b \in Agents, NEW id, id = KeyedId(Key[b]),
             NEW trace, trace = Compiled(id)
      PROVE  \E h \in DOMAIN sessions : trace = sessions[h] /\ (IsOpen(id) => trace.id = id)
  <2>1. CASE IsOpen(id)
    <3>1. \E s \in {sessions[i] : i \in DOMAIN sessions} : s.id = id
      BY <2>1 DEF IsOpen
    <3>2. trace \in {sessions[i] : i \in DOMAIN sessions} /\ trace.id = id
      BY <1>1, <2>1, <3>1 DEF Compiled
    <3> QED
      BY <3>2
  <2>2. CASE ~IsOpen(id)
    <3>1. Len(sessions) \in DOMAIN sessions
      BY <1>1, TraceFacts
    <3> QED
      BY <1>1, <2>2, <3>1 DEF Compiled
  <2> QED
    BY <2>1, <2>2
<1>2. ASSUME IInv, NEW h \in DOMAIN sessions, NEW trace, trace = sessions[h]
      PROVE  /\ \A j \in DOMAIN trace.steps :
                   trace.steps[j].agent \in {a \in Agents : Key[a] = trace.id.key}
             /\ trace.id.key = NoKey => Len(trace.steps) <= 1
  <2>1. ASSUME NEW j \in DOMAIN trace.steps
        PROVE  trace.steps[j].agent \in {a \in Agents : Key[a] = trace.id.key}
    <3>1. Place(sessions, h, j)
      BY <1>2 DEF Place
    <3>2. trace.steps[j] \in Step /\ trace.id.key = Key[trace.steps[j].agent]
      BY <1>2, <3>1, TraceFacts, PlaceType DEF StepsOK
    <3> QED
      BY <3>2 DEF Step
  <2> QED
    BY <1>2, <2>1, TraceFacts DEF StepsOK
<1>3. ASSUME IInv, NEW h \in DOMAIN sessions, NEW trace, trace = sessions[h],
             trace.id.key # NoKey, NEW a \in Agents \ Eager, Key[a] = trace.id.key
      PROVE  {trace.steps[j].turn : j \in {k \in DOMAIN trace.steps :
                 trace.steps[k].agent = a /\ trace.steps[k].complete}}
             = 1..(turn[a] - 1)
  <2>1. ASSUME NEW j \in DOMAIN trace.steps,
               trace.steps[j].agent = a /\ trace.steps[j].complete
        PROVE  trace.steps[j].turn \in 1..(turn[a] - 1)
    <3>1. Done(sessions, h, j, a)
      BY <1>3, <2>1 DEF Done, Place
    <3> QED
      BY <1>3, <3>1, DoneTurn
  <2>2. ASSUME NEW t \in 1..(turn[a] - 1)
        PROVE  \E j \in DOMAIN trace.steps : /\ trace.steps[j].agent = a
                  /\ trace.steps[j].complete /\ trace.steps[j].turn = t
    <3>1. PICK i, j : Done(sessions, i, j, a) /\ sessions[i].steps[j].turn = t
      BY <1>3, TraceFacts DEF InOrder
    <3>2. i \in DOMAIN sessions /\ sessions[i].id.key = Key[a]
      BY <1>3, <3>1, DoneTurn DEF Done, Place
    <3>3. i = h
      BY <1>3, <3>2, TraceFacts, KeyedSession
    <3> QED
      BY <1>3, <3>1, <3>3 DEF Done, Place
  <2> QED
    BY <2>1, <2>2
<1>4. ASSUME IInv
      PROVE  CompiledIsWhole
  <2>1. ASSUME sessions # <<>>, NEW id \in {KeyedId(Key[a]) : a \in Agents}
        PROVE  LET trace == Compiled(id)
                   own == {a \in Agents : Key[a] = trace.id.key} IN
               /\ IsOpen(id) => trace.id = id
               /\ \A j \in DOMAIN trace.steps : trace.steps[j].agent \in own
               /\ IF trace.id.key = NoKey THEN Len(trace.steps) <= 1
                  ELSE \A a \in own \ Eager :
                          {trace.steps[j].turn : j \in {k \in DOMAIN trace.steps :
                              trace.steps[k].agent = a /\ trace.steps[k].complete}}
                          = 1..(turn[a] - 1)
    <3> DEFINE trace == Compiled(id)
               own == {a \in Agents : Key[a] = trace.id.key}
    <3>1. PICK b \in Agents : id = KeyedId(Key[b])
      OBVIOUS
    <3>2. PICK h \in DOMAIN sessions : trace = sessions[h] /\ (IsOpen(id) => trace.id = id)
      BY <1>1, <1>4, <2>1, <3>1
    <3>3. /\ \A j \in DOMAIN trace.steps : trace.steps[j].agent \in own
          /\ trace.id.key = NoKey => Len(trace.steps) <= 1
      BY <1>2, <1>4, <3>2
    <3>4. ASSUME trace.id.key # NoKey, NEW a \in own \ Eager
          PROVE  {trace.steps[j].turn : j \in {k \in DOMAIN trace.steps :
                     trace.steps[k].agent = a /\ trace.steps[k].complete}}
                 = 1..(turn[a] - 1)
      <4>1. a \in Agents \ Eager /\ Key[a] = trace.id.key
        BY <3>4
      <4> HIDE DEF trace
      <4> QED
        BY <1>3, <1>4, <3>2, <3>4, <4>1
    <3>5. IF trace.id.key = NoKey THEN Len(trace.steps) <= 1
          ELSE \A a \in own \ Eager :
                  {trace.steps[j].turn : j \in {k \in DOMAIN trace.steps :
                      trace.steps[k].agent = a /\ trace.steps[k].complete}}
                  = 1..(turn[a] - 1)
      <4> HIDE DEF own, trace
      <4> QED
        BY <3>3, <3>4
    <3> QED
      BY <3>2, <3>3, <3>5
  <2> QED
    BY <2>1 DEF CompiledIsWhole
<1> QED
  BY <1>4, TracesAreInductive, PTL

=============================================================================
