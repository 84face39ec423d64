---------------------------- MODULE ProxyCapture ----------------------------
(***************************************************************************)
(* How the proxy turns live traffic into traces.  _relay of                *)
(* adapters/proxy/server.py finds the session of a request, relays the     *)
(* reply chunk by chunk and captures the turn in the generator's finally   *)
(* block; TrajectoryInterceptor (adapters/proxy/interceptor.py) attaches   *)
(* the tool results the request carries to the steps that issued the       *)
(* calls, then appends the turn.  The compile endpoint takes the trace of  *)
(* a session by its id, or that of the session opened last.                *)
(*                                                                         *)
(* Agents may share a session (an agent and its sub-agents send the same   *)
(* session id), and an agent without any id gets a new one with every      *)
(* request.  Each repeats a turn that failed with the same results.  A     *)
(* patient agent goes on when the response has ended, an eager one when it *)
(* has read the last event of the reply, while the proxy still closes its  *)
(* connections.  A client that disconnects leaves a relay behind whose     *)
(* finally block may be cut off in its awaits.  A capture has no await     *)
(* between its first attach and its append, so relays interleave around    *)
(* it, never inside.  Texts, tokens and action names are left out; call    *)
(* ids are unique.                                                         *)
(***************************************************************************)
EXTENDS Integers, Sequences, FiniteSets

CONSTANTS
    Agents,         \* the conversations
    Key,            \* agent -> what its requests are grouped by, or NoKey
    NoKey,
    MaxTurns,       \* agent -> bound on its turns
    MaxCalls,       \* the most tool calls of one reply
    MaxRetries,     \* agent -> bound on the repetitions of a turn
    FullHistory,    \* those whose requests hold all results so far (Responses API), not the latest
    Eager,          \* those that go on before the response has ended
    Synthetic       \* those that ask for the synthetic replies

ASSUME ProxyAssumption ==
    /\ MaxTurns \in [Agents -> Nat] /\ MaxRetries \in [Agents -> Nat]
    /\ MaxCalls \in Nat /\ Agents = DOMAIN Key
    /\ FullHistory \subseteq Agents /\ Eager \subseteq Agents
    /\ Synthetic \subseteq Agents

VARIABLES
    turn, attempt,  \* agent -> the turn it is at, and how often it was repeated
    answered,       \* agent -> the calls of its completed replies, by turn
    relays,         \* the relay generators that have not finished
    sessions        \* active_interceptors, in the order they were opened

vars == <<turn, attempt, answered, relays, sessions>>

\* The tool results a request of the agent holds.
Carried(a) ==
    IF a \in FullHistory THEN UNION {answered[a][t] : t \in 1..(turn[a] - 1)}
    ELSE IF turn[a] > 1 THEN answered[a][turn[a] - 1] ELSE {}

\* The tool calls of a reply.
CallsOf(r, n) ==
    {[agent |-> r.agent, turn |-> r.turn, attempt |-> r.attempt, number |-> k] : k \in 1..n}

----------------------------------------------------------------------------
(* Sessions.                                                                *)

KeyedId(k) == [key |-> k, number |-> 0]

\* resolve_run_id, and the new id get_or_create_interceptor makes up without one.
SessionOf(a) ==
    IF Key[a] # NoKey THEN KeyedId(Key[a])
    ELSE [key |-> NoKey, number |-> Len(sessions) + 1]

IsOpen(id) == \E i \in DOMAIN sessions : sessions[i].id = id

\* Mutant: every request opens its session anew.
OpenAnew(id) ==
    Append(SelectSeq(sessions, LAMBDA s : s.id # id), [id |-> id, steps |-> <<>>])

Open(id) ==
    IF IsOpen(id) THEN sessions ELSE Append(sessions, [id |-> id, steps |-> <<>>])

\* The session a compile request is about.
Compiled(id) ==
    IF IsOpen(id) THEN CHOOSE s \in {sessions[i] : i \in DOMAIN sessions} : s.id = id
    ELSE sessions[Len(sessions)]

----------------------------------------------------------------------------
(* The interceptor: a step holds how often a result was attached to each of its calls. *)

\* Mutant: only the last step is searched for the call.
AttachToLast(steps, carried) ==
    [i \in DOMAIN steps |->
        [steps[i] EXCEPT !.results =
            [c \in DOMAIN @ |-> IF c \in carried /\ i = Len(steps) THEN 1 ELSE @[c]]]]

\* _attach, for every result carried: to the step that issued the call, the first time.
Attach(steps, carried) ==
    [i \in DOMAIN steps |->
        [steps[i] EXCEPT !.results =
            [c \in DOMAIN @ |-> IF c \in carried /\ @[c] = 0 THEN 1 ELSE @[c]]]]

Intercept(open, r, calls, complete) ==
    sessions' = [i \in DOMAIN open |->
        IF open[i].id # r.session THEN open[i]
        ELSE [open[i] EXCEPT !.steps =
                 Append(Attach(@, r.carried),
                        [agent |-> r.agent, turn |-> r.turn, complete |-> complete,
                         results |-> [c \in calls |-> 0]])]]

----------------------------------------------------------------------------
Init ==
    /\ turn = [a \in Agents |-> 1]
    /\ attempt = [a \in Agents |-> 0]
    /\ answered = [a \in Agents |-> [t \in 1..MaxTurns[a] |-> {}]]
    /\ relays = {}
    /\ sessions = <<>>

\* The client of a relay: it waits, it has its reply ("served"), or it has left.
Request(a, client) ==
    [agent |-> a, turn |-> turn[a], attempt |-> attempt[a],
     carried |-> Carried(a), session |-> SessionOf(a), client |-> client]

Asks(a) ==
    /\ turn[a] <= MaxTurns[a]
    /\ \A r \in relays : r.agent = a => r.client # "waits"

\* The agent's request arrives, its session is found or opened, and it is sent upstream.
Ask(a) ==
    /\ Asks(a) /\ a \notin Synthetic
    /\ relays' = relays \cup {Request(a, "waits")}
    /\ sessions' = Open(SessionOf(a))
    /\ UNCHANGED <<turn, attempt, answered>>

\* A title or suggestion (is_side_call): its session is opened, and no step is made.
\* The Responses API has none, and the other protocols always have a key.
SideCall(a) ==
    /\ turn[a] <= MaxTurns[a] /\ a \notin FullHistory \cup Synthetic
    /\ Key[a] # NoKey
    /\ sessions' = Open(SessionOf(a))
    /\ UNCHANGED <<turn, attempt, answered, relays>>

\* The agent has its reply, runs its calls and will ask again.
GoesOn(r, calls) ==
    /\ turn' = [turn EXCEPT ![r.agent] = @ + 1]
    /\ attempt' = [attempt EXCEPT ![r.agent] = 0]
    /\ answered' = [answered EXCEPT ![r.agent][r.turn] = calls]

\* The synthetic reply is made and captured in one handler, without an await in between.
Synthesize(a, n) ==
    LET r == Request(a, "waits") IN
    /\ Asks(a) /\ a \in Synthetic
    /\ Intercept(Open(r.session), r, CallsOf(r, n), TRUE)
    /\ GoesOn(r, CallsOf(r, n))
    /\ UNCHANGED relays

\* Mutant: a reply without tool calls is no step.
CaptureCallsOnly(r, n) ==
    /\ r.client = "waits"
    /\ relays' = relays \ {r}
    /\ IF n > 0 THEN Intercept(sessions, r, CallsOf(r, n), TRUE) ELSE UNCHANGED sessions
    /\ GoesOn(r, CallsOf(r, n))

\* Upstream's reply is over; the finally block captures the turn, then the response ends.
Capture(r, n) ==
    /\ r.client = "waits"
    /\ relays' = relays \ {r}
    /\ Intercept(sessions, r, CallsOf(r, n), TRUE)
    /\ GoesOn(r, CallsOf(r, n))

\* An eager agent has read the last event; the relay has not reached its capture.
Hurry(r, n) ==
    /\ r.client = "waits" /\ r.agent \in Eager
    /\ relays' = (relays \ {r}) \cup {[r EXCEPT !.client = "served"]}
    /\ GoesOn(r, CallsOf(r, n))
    /\ UNCHANGED sessions

CaptureLate(r) ==
    /\ r.client = "served"
    /\ relays' = relays \ {r}
    /\ Intercept(sessions, r, answered[r.agent][r.turn], TRUE)
    /\ UNCHANGED <<turn, attempt, answered>>

\* The turn failed and the agent will repeat it.
Repeats(r) ==
    /\ r.client = "waits"
    /\ attempt[r.agent] < MaxRetries[r.agent]
    /\ attempt' = [attempt EXCEPT ![r.agent] = @ + 1]
    /\ UNCHANGED <<turn, answered>>

\* Upstream cannot be reached or answers with 400 or more, or nothing of its reply can
\* be reconstructed: no step.
Refuse(r) ==
    /\ Repeats(r)
    /\ relays' = relays \ {r}
    /\ UNCHANGED sessions

\* The stream breaks after part of the reply: the finally block captures what
\* message_start and the finished blocks make up.
Break(r, n) ==
    /\ Repeats(r)
    /\ relays' = relays \ {r}
    /\ Intercept(sessions, r, CallsOf(r, n), FALSE)

\* The client disconnects and its agent repeats the turn.
Disconnect(r) ==
    /\ Repeats(r)
    /\ relays' = (relays \ {r}) \cup {[r EXCEPT !.client = "left"]}
    /\ UNCHANGED sessions

\* The finally block of a client that left captures what came until then.
CaptureRest(r, n) ==
    /\ r.client = "left"
    /\ relays' = relays \ {r}
    /\ Intercept(sessions, r, CallsOf(r, n), FALSE)
    /\ UNCHANGED <<turn, attempt, answered>>

\* It is cancelled in one of its two awaits, or there is nothing to reconstruct.
CutOff(r) ==
    /\ r.client \in {"left", "served"}
    /\ relays' = relays \ {r}
    /\ UNCHANGED <<turn, attempt, answered, sessions>>

Next ==
    \/ \E a \in Agents : Ask(a) \/ SideCall(a) \/ \E n \in 0..MaxCalls : Synthesize(a, n)
    \/ \E r \in relays, n \in 0..MaxCalls :
           Capture(r, n) \/ Hurry(r, n) \/ Break(r, n) \/ CaptureRest(r, n)
    \/ \E r \in relays : CaptureLate(r) \/ Refuse(r) \/ Disconnect(r) \/ CutOff(r)

Spec == Init /\ [][Next]_vars

----------------------------------------------------------------------------
(* Properties.                                                              *)

StepAt(p) == sessions[p[1]].steps[p[2]]

\* Where the completed turns of an agent stand, and in which order.
Captured(a) ==
    {p \in UNION {{i} \X DOMAIN sessions[i].steps : i \in DOMAIN sessions} :
        StepAt(p).agent = a /\ StepAt(p).complete}
Before(p, q) == p[1] < q[1] \/ (p[1] = q[1] /\ p[2] < q[2])

\* No turn of any agent is in the traces twice as completed, and those a patient agent
\* got through are all there, in the conversation's order and, if its requests have a
\* key, in one trace: whatever relays of clients that left or of other agents end
\* between them.
EveryTurnIsCaptured ==
    \A a \in Agents :
        /\ \A p, q \in Captured(a) : p # q => StepAt(p).turn # StepAt(q).turn
        /\ a \notin Eager =>
               /\ {StepAt(p).turn : p \in Captured(a)} = 1..(turn[a] - 1)
               /\ \A p, q \in Captured(a) :
                      /\ Before(p, q) => StepAt(p).turn < StepAt(q).turn
                      /\ Key[a] # NoKey => p[1] = q[1]

\* When the reply to the next request of a patient agent is in the trace, every call of
\* the turn before it has one result, also when the request was repeated or another
\* agent's turns came between (interceptor.py:11-13).  A call has no second result, and
\* one of a broken reply, which was never run, has none.  Without a key no result finds
\* its call: the request that carries it is the first of another session.
ResultsAreAttached ==
    \A i \in DOMAIN sessions : \A j \in DOMAIN sessions[i].steps :
        LET s == StepAt(<<i, j>>) IN
        \A c \in DOMAIN s.results :
            /\ s.results[c] \in 0..1
            /\ (s.complete /\ turn[s.agent] > s.turn + 1
                 /\ s.agent \notin Eager /\ Key[s.agent] # NoKey) => s.results[c] = 1
            /\ ~s.complete \/ Key[s.agent] = NoKey => s.results[c] = 0

\* What the compile endpoint takes, for any id or none: the session of that id if there
\* is one; never a session in which a turn of a patient agent with its key is missing,
\* also while relays of the session run; and of an agent without a key a single turn.
CompiledIsWhole ==
    sessions # <<>> =>
        \A id \in {KeyedId(Key[a]) : a \in Agents} :
            LET trace == Compiled(id)
                own == {a \in Agents : Key[a] = trace.id.key} IN
            /\ IsOpen(id) => trace.id = id
            /\ \A j \in DOMAIN trace.steps : trace.steps[j].agent \in own
            /\ IF trace.id.key = NoKey THEN Len(trace.steps) <= 1
               ELSE \A a \in own \ Eager :
                       {trace.steps[j].turn : j \in {k \in DOMAIN trace.steps :
                           trace.steps[k].agent = a /\ trace.steps[k].complete}}
                       = 1..(turn[a] - 1)
=============================================================================
