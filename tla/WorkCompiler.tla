---------------------------- MODULE WorkCompiler ----------------------------
(***************************************************************************)
(* From recorded sessions to a build and back: a proxy records the turns   *)
(* of an agent, the compiler derives from them and the work's contracts    *)
(* the dependency graph and the tier and handler of every action, and the  *)
(* engine replays the build in topological order over a workspace, from    *)
(* the beginning again after a crash.  The modules it is put together from *)
(* are WorkGraph, StepAnalyzers and ToolCalls.                             *)
(*                                                                         *)
(* A turn [calls, action, shape] is a batch of tool calls, or, without     *)
(* any, the step of an instrumented program with a name of its own.        *)
(***************************************************************************)
EXTENDS WorkGraph, StepAnalyzers, ToolCalls

CONSTANTS
    Turn,           \* the turns an agent may take
    Contracts,      \* the sets of behavior contracts a work may come with
    Words,          \* name -> the keyword classes it falls in
    Workspace,      \* the files a session and a replay start from
    MaxSteps,       \* bound: steps recorded in all
    MaxRuns,        \* bound: sessions recorded
    MaxStarts       \* bound: times a build is started

(* A turn is a batch of calls of the tools the proxy knows; the workspace  *)
(* is a set of files.                                                      *)
ASSUME TurnsAreBatches ==
    \A t \in Turn :
        /\ t.calls \in Seq(ToSet(t.calls))
        /\ \A c \in ToSet(t.calls) :
              /\ c.tool \in Shellish \cup Writeish \cup Bookkeeping
              /\ c.hunks \in Seq(ToSet(c.hunks))

ASSUME WorkspaceIsFiles == Workspace = [p \in DOMAIN Workspace |-> Workspace[p]]

VARIABLES
    runs,           \* the recorded sessions, each a sequence of steps
    behaviors,      \* the behavior contracts of the work
    files,          \* the agent's workspace in the session being recorded
    answers,        \* what the agent was told in each turn of that session
    ir,             \* the last compilation
    disk,           \* the workspace of the replay
    replay          \* [phase, at, given, starts] of the replay

vars == <<runs, behaviors, files, answers, ir, disk, replay>>

WordsOf(a) == Words[a[1]] \cup Words[a[2]]

Nothing == [status |-> "none", of |-> <<>>, actions |-> <<>>,
            deps |-> <<>>, order |-> <<>>, tier |-> <<>>]

Init ==
    /\ runs = <<<<>>>>
    /\ behaviors \in Contracts
    /\ files = Workspace
    /\ answers = <<>>
    /\ ir = Nothing
    /\ disk = Workspace
    /\ replay = [phase |-> "idle", at |-> 0, given |-> <<>>, starts |-> 0]

-----------------------------------------------------------------------------
(* Recording.                                                              *)

Joined(r, more) ==
    [f \in DOMAIN r \cup DOMAIN more |-> IF f \in DOMAIN r THEN r[f] ELSE more[f]]

StepOf(turn) ==
    LET call == Merged([i \in DOMAIN turn.calls |-> Normalized(turn.calls[i])])
    IN  IF turn.calls = <<>>
        THEN Joined([action |-> turn.action, cmds |-> <<>>, patch |-> <<>>],
                    turn.shape)
        ELSE Joined([action |-> call.action, cmds |-> call.cmds,
                     patch |-> call.patch], turn.shape)

(* The workspace after the calls of a turn, and whether one of them failed *)
(* (the flag tool_error of the recorded step, which nothing reads).        *)
Effect(turn) == Played(files, turn.calls)

(* History: what the step alone would do where the turn was taken is what  *)
(* the turn did, and nothing failed.                                       *)
Alone(step, before) ==
    IF step.patch # <<>> THEN ApplyPatch(before, step.patch)
    ELSE [files |-> RunCommands(before, step.cmds), failed |-> FALSE]

Exact(turn) ==
    ~Effect(turn).failed /\ Alone(StepOf(turn), files) = Effect(turn)

(* History: all calls went through, were of one kind, and wrote something.  *)
Plain(turn) ==
    /\ ~Effect(turn).failed
    /\ \E kind \in {Shellish, Writeish, Bookkeeping} :
          {c.tool : c \in ToSet(turn.calls)} \subseteq kind
    /\ \A c \in ToSet(turn.calls) : c.tool = "write" => c.text # <<>>

Record(turn) ==
    /\ replay.starts = 0
    /\ Len(FlattenSeq(runs)) < MaxSteps
    /\ runs' = [runs EXCEPT ![Len(runs)] =
                   Append(@, Joined([exact |-> Exact(turn), plain |-> Plain(turn)],
                                    StepOf(turn)))]
    /\ files' = Effect(turn).files
    /\ answers' = [n \in 1..Len(Last(runs)) + 1 |->
                       IF n <= Len(Last(runs)) THEN answers[n]
                       ELSE Answers(files, turn.calls)]
    /\ UNCHANGED <<behaviors, ir, disk, replay>>

NextRun ==
    /\ replay.starts = 0
    /\ Last(runs) # <<>> /\ Len(runs) < MaxRuns
    /\ runs' = Append(runs, <<>>)
    /\ files' = Workspace
    /\ answers' = <<>>
    /\ UNCHANGED <<behaviors, ir, disk, replay>>

-----------------------------------------------------------------------------
(* Compiling: the whole of compile_traces_to_work_ir, then the validation  *)
(* every Work IR goes through when it is constructed.                      *)

Tier(a) ==
    Lowered(a, StepsOf(runs, a), WordsOf(a), GovernedBy(behaviors, a, WordsOf(a)))

Compilation ==
    LET actions == ActionOrder(runs)
        deps    == Dependencies(actions, runs, StatedBy(behaviors))
    IN  [status  |-> IF IrAccepts(actions, deps) THEN "ok" ELSE "rejected",
         of      |-> runs,
         actions |-> actions,
         deps    |-> deps,
         order   |-> TopologicalSort(actions, deps),
         tier    |-> [a \in ToSet(actions) |-> Tier(a)]]

Compile ==
    /\ replay.starts = 0
    /\ FlattenSeq(runs) # <<>>
    /\ ir' = Compilation
    /\ UNCHANGED <<runs, behaviors, files, answers, disk, replay>>

-----------------------------------------------------------------------------
(* Replaying the build.  Bound: recording is over when it first starts.    *)

Start(n) ==
    /\ replay.phase # "running"
    /\ ir.status = "ok" /\ ir.of = runs /\ replay.starts < n
    /\ replay' = [phase |-> "running", at |-> 0, given |-> <<>>,
                  starts |-> replay.starts + 1]
    /\ UNCHANGED <<runs, behaviors, files, answers, ir, disk>>

Doing == ir.order[replay.at + 1]

(* A handler gets what earlier steps left in the workflow's state, among   *)
(* it the "cmds" of a command handler; no handler leaves a patch there.    *)
Outcome ==
    IF ir.tier[Doing] = "code"
    THEN RunHandler(HandlerOf(StepsOf(ir.of, Doing)),
                    [patch |-> <<>>, cmds |-> replay.given], disk)
    ELSE [files |-> disk, ok |-> TRUE, cmds |-> <<>>, stdout |-> <<>>]

ReplayStep ==
    /\ replay.phase = "running" /\ replay.at < Len(ir.order)
    /\ disk' = Outcome.files
    /\ replay' = [replay EXCEPT
                    !.phase = IF ~Outcome.ok THEN "failed"
                              ELSE IF replay.at + 1 = Len(ir.order) THEN "done"
                              ELSE "running",
                    !.at = @ + 1,
                    !.given = IF Outcome.cmds # <<>> THEN Outcome.cmds ELSE @]
    /\ UNCHANGED <<runs, behaviors, files, answers, ir>>

Crash ==
    /\ replay.phase = "running"
    /\ replay' = [replay EXCEPT !.phase = "idle"]
    /\ UNCHANGED <<runs, behaviors, files, answers, ir, disk>>

Next ==
    \/ \E t \in Turn : Record(t)
    \/ NextRun
    \/ Compile
    \/ Start(MaxStarts)
    \/ ReplayStep
    \/ Crash

Spec == Init /\ [][Next]_vars

-----------------------------------------------------------------------------
(* The benchmark: the steps of a session in recorded order, each given the *)
(* inputs it was recorded with and judged right after it ran: the files of *)
(* a patch, or else what it printed beside the recorded tool result.       *)

BenchStep(st, s, said) ==
    LET ran == RunHandler(HandlerOf(StepsOf(ir.of, s.action)),
                          [patch |-> s.patch, cmds |-> s.cmds], st.files)
    IN  IF ir.tier[s.action] # "code" THEN st
        ELSE [files |-> ran.files,
              match |-> /\ st.match
                        /\ s.patch # <<>> => VerifyPatch(ran.files, s.patch)
                        /\ s.patch = <<>> /\ said # <<>> =>
                               ran.ok /\ SameLines(ToolResult(said), ran.stdout)]

Benchmark(run) ==
    LET after[n \in 0..Len(run)] ==
            IF n = 0 THEN [files |-> Workspace, match |-> TRUE]
            ELSE BenchStep(after[n - 1], run[n], answers[n])
    IN  after[Len(run)]

-----------------------------------------------------------------------------
(* A compilation is accepted exactly when some order of its actions        *)
(* honours every dependency; then the order it is given does, and the      *)
(* engine's own check, which takes actions in another order, agrees.       *)
AcceptedExactlyWhenOrderable ==
    ir.status # "none" =>
        /\ (ir.status = "ok") = Orderable(ir.actions, ir.deps)
        /\ EngineAccepts(ir.actions, ir.deps) = (ir.status = "ok")
        /\ ir.status = "ok" => Respects(ir.order, ir.deps)

(* "... so repeated actions never form a cycle": without a stated ordering *)
(* every recording compiles, whatever loops and reversals it holds.        *)
LoopsCompile ==
    StatedBy(behaviors) = {} => ir.status # "rejected"

(* Compiling again from more evidence keeps every dependency, except those *)
(* of the chain that stood in for missing evidence.                        *)
EvidenceGrows ==
    [][Compile /\ ir.status # "none" /\ Forward(ir.actions, ir.of) # {}
       => \A a \in ToSet(ir.actions) : ir.deps[a] \subseteq ir'.deps[a]]_vars

(* The detector that decides about a step with output is the most          *)
(* confident one, the most specific of those when several are.             *)
PatternIsEarliestBest ==
    \A s \in ToSet(FlattenSeq(runs)) :
        DOMAIN s.fields # {} =>
            Pattern(s, WordsOf(s.action)) = EarliestBest(s, WordsOf(s.action))

(* A turn whose calls all went through, all of one kind and none of them   *)
(* writing an empty file, is recorded as a step that does the same again.  *)
PlainTurnsReplay ==
    \A s \in ToSet(FlattenSeq(runs)) : s.plain => s.exact

(***************************************************************************)
(* One session, recorded exactly, in which no action is taken twice, no    *)
(* action's name makes it an approval gate, no ordering is stated and the  *)
(* same commands are run wherever commands are.                            *)
(***************************************************************************)
Straight ==
    /\ Len(ir.of) = 1 /\ ir.of = runs /\ StatedBy(behaviors) = {}
    /\ \A s \in ToSet(runs[1]) : s.exact /\ "gate" \notin WordsOf(s.action)
    /\ Len(ir.actions) = Len(runs[1])
    /\ Cardinality({s.cmds : s \in ToSet(runs[1])} \ {<<>>}) <= 1

(* The replay of a straight session leaves the files the agent left.       *)
StraightSessionRebuilds ==
    Straight /\ replay.phase = "done" /\ replay.starts = 1 => disk = files

(* Each file is changed by one step, at most by one block of it, and an    *)
(* edit is one replacement that leaves its new text there and its old text *)
(* nowhere.                                                                *)
Touched(s) == {b.path : b \in ToSet(s.patch)} \cup
              {c.path : c \in {x \in ToSet(s.cmds) : x.program = "rm"}}

Settled(run) ==
    /\ \A i, j \in DOMAIN run : i # j => Touched(run[i]) \cap Touched(run[j]) = {}
    /\ \A s \in ToSet(run) :
          /\ \A i, j \in DOMAIN s.patch : s.patch[i].path = s.patch[j].path => i = j
          /\ \A b \in ToSet(s.patch) : \A h \in ToSet(b.hunks) :
                /\ Len(b.hunks) = 1 /\ b.path \in DOMAIN files
                /\ Occurs(h.new, files[b.path]) /\ ~Occurs(h.old, files[b.path])

(* The replay stopped at an action without commands or a patch to run.     *)
NotEmitted ==
    LET s == Head(StepsOf(ir.of, ir.order[replay.at]))
    IN  s.cmds = <<>> /\ s.patch = <<>>

(* "Update hunks already present in the workspace are reported as          *)
(* already_applied": started again after crashes or a full run, over the   *)
(* files it has already changed, the build still ends with the same files. *)
RestartsConverge ==
    Straight /\ Settled(runs[1]) =>
        /\ replay.phase = "failed" => NotEmitted
        /\ replay.phase = "done" => disk = files

(* What the agent was told in a turn that wrote no file came in whole      *)
(* lines: nothing but what commands print.                                 *)
Shown(run) ==
    \A n \in DOMAIN run : run[n].patch = <<>> =>
        \A i \in DOMAIN answers[n] : Whole(answers[n][i])

(* The benchmark of a straight session matches at every step, whether it   *)
(* wrote files or printed lines, and leaves the agent's files.             *)
BenchmarkMatches ==
    Straight /\ Settled(runs[1]) /\ Shown(runs[1]) =>
        Benchmark(runs[1]) = [files |-> files, match |-> TRUE]

(* Stated by the emitted handler: "Re-run the shell command(s) captured    *)
(* from the approved agent trace".                                         *)
HandlersRunTheirCommands ==
    [][ReplayStep /\ ir.tier[Doing] = "code" /\ Outcome.cmds # <<>>
       => Outcome.cmds = HandlerOf(StepsOf(ir.of, Doing)).cmds]_vars
=============================================================================
