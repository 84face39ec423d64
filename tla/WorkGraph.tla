----------------------------- MODULE WorkGraph -----------------------------
(***************************************************************************)
(* The dependency graph the work compiler derives from recorded runs and   *)
(* behavior contracts, and the two places that accept or reject it: Work   *)
(* IR validation (a first-in first-out topological sort) and the engine's  *)
(* check of a raw definition (a last-in first-out one).                    *)
(*                                                                         *)
(* A run is a sequence of steps with a field "action" (the normalised      *)
(* name); a graph maps every action to the set of its prerequisites.       *)
(***************************************************************************)
EXTENDS Naturals, FiniteSets, Sequences, SequencesExt

(* Mutant: in the order in which they last appear.                         *)
ActionOrderLatest(runs) ==
    FoldLeft(LAMBDA seen, s : Append(SelectSeq(seen, LAMBDA x : x # s.action), s.action),
             <<>>, FlattenSeq(runs))

(* The actions of the runs, in the order in which they first appear.       *)
ActionOrder(runs) ==
    LET steps == FlattenSeq(runs)
        seen[n \in 0..Len(steps)] ==
            IF n = 0 THEN <<>>
            ELSE IF Contains(seen[n - 1], steps[n].action) THEN seen[n - 1]
            ELSE Append(seen[n - 1], steps[n].action)
    IN  seen[Len(steps)]

Index(actions, a) == SelectInSeq(actions, LAMBDA x : x = a)

(* The steps recorded under one name.                                      *)
StepsOf(runs, a) ==
    LET steps == FlattenSeq(runs)
        named[n \in 0..Len(steps)] ==
            IF n = 0 THEN <<>>
            ELSE IF steps[n].action = a THEN Append(named[n - 1], steps[n])
            ELSE named[n - 1]
    IN  named[Len(steps)]

(* "b directly after a", for two different actions of one run.             *)
Succeeds(runs) ==
    UNION {{<<run[i - 1].action, run[i].action>> : i \in 2..Len(run)} :
           run \in ToSet(runs)}

(* Mutant: an edge is kept against the order of first appearance.          *)
ForwardLoops(actions, runs) ==
    {e \in Succeeds(runs) : e[1] # e[2]}

Forward(actions, runs) ==
    {e \in Succeeds(runs) : Index(actions, e[1]) < Index(actions, e[2])}

(* The linear chain of a compilation without any recorded succession.      *)
Chain(actions) == {<<actions[i - 1], actions[i]>> : i \in 2..Len(actions)}

Recorded(actions, runs) ==
    IF Forward(actions, runs) = {} THEN Chain(actions)
    ELSE Forward(actions, runs)

(***************************************************************************)
(* Orderings stated by a behavior are added as they stand: no check that   *)
(* they agree with the recorded edges or with each other.                  *)
(***************************************************************************)
Stated(actions, stated) ==
    {e \in stated : e[1] # e[2] /\ e \in ToSet(actions) \X ToSet(actions)}

(* Mutant: an edge is stored under the action it leads from.               *)
DependenciesFlipped(actions, runs, stated) ==
    LET edges == Recorded(actions, runs) \cup Stated(actions, stated)
    IN  [a \in ToSet(actions) |-> {e[2] : e \in {x \in edges : x[1] = a}}]

Dependencies(actions, runs, stated) ==
    LET edges == Recorded(actions, runs) \cup Stated(actions, stated)
    IN  [a \in ToSet(actions) |-> {e[1] : e \in {x \in edges : x[2] = a}}]

-----------------------------------------------------------------------------
(* The members of S, in action order.                                      *)
Among(actions, S) ==
    LET among[n \in 0..Len(actions)] ==
            IF n = 0 THEN <<>>
            ELSE IF actions[n] \in S THEN Append(among[n - 1], actions[n])
            ELSE among[n - 1]
    IN  among[Len(actions)]

(***************************************************************************)
(* Kahn's algorithm: a work list of actions without open prerequisites;    *)
(* taking one lowers the count of those it leads to, in action order.      *)
(***************************************************************************)
Opening(actions, deps) ==
    [ready |-> Among(actions, {a \in ToSet(actions) : deps[a] = {}}),
     open  |-> [a \in ToSet(actions) |-> Cardinality(deps[a])],
     order |-> <<>>]

Take(actions, deps, st, a, rest) ==
    LET open == [b \in ToSet(actions) |->
                    IF a \in deps[b] THEN st.open[b] - 1 ELSE st.open[b]]
    IN  [ready |-> rest \o Among(actions, {b \in ToSet(actions) :
                                             a \in deps[b] /\ open[b] = 0}),
         open  |-> open,
         order |-> Append(st.order, a)]

(* WorkIR.topological_sort: the oldest ready action first.                 *)
TakeOldest(actions, deps, st) ==
    IF st.ready = <<>> THEN st
    ELSE Take(actions, deps, st, Head(st.ready), Tail(st.ready))

TopologicalSort(actions, deps) ==
    LET state[n \in 0..Len(actions)] ==
            IF n = 0 THEN Opening(actions, deps)
            ELSE TakeOldest(actions, deps, state[n - 1])
    IN  state[Len(actions)].order

(* The engine's _validate_work_definition: the newest ready action first.  *)
TakeNewest(actions, deps, st) ==
    IF st.ready = <<>> THEN st
    ELSE Take(actions, deps, st, Last(st.ready), Front(st.ready))

EngineVisits(actions, deps) ==
    LET state[n \in 0..Len(actions)] ==
            IF n = 0 THEN Opening(actions, deps)
            ELSE TakeNewest(actions, deps, state[n - 1])
    IN  Len(state[Len(actions)].order)

IrAccepts(actions, deps) == Len(TopologicalSort(actions, deps)) = Len(actions)

(* Mutant: a definition is taken when it has somewhere to begin.           *)
EngineAcceptsStart(actions, deps) == EngineVisits(actions, deps) > 0

EngineAccepts(actions, deps) == EngineVisits(actions, deps) = Len(actions)

(* What both stand for: some order of the actions honours every edge.      *)
Respects(order, deps) ==
    \A i, j \in DOMAIN order : order[j] \in deps[order[i]] => j < i

Orderable(actions, deps) ==
    \E order \in SetToSeqs(ToSet(actions)) : Respects(order, deps)
=============================================================================
