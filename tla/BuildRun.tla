------------------------------ MODULE BuildRun ------------------------------
(***************************************************************************)
(* Runs of a compiled build: run_build (core/build/run.py) walks the     *)
(* recorded trace; code tiers execute, a model-tier step is replayed from  *)
(* the cache inside the build (core/build/cache.py), else given to its     *)
(* promoted SLM behind a gate, else escalated to an agent.                 *)
(*                                                                         *)
(* Source data changes at any time, outputs get deleted, the cache is      *)
(* cleared, agents fail, and the process dies.  A code step's output shows *)
(* the data it read; what a model-tier step produces is stamped with the   *)
(* parameters and the code outputs it was computed from.  The fingerprint  *)
(* of a context is the context itself (sha1 taken as injective), and a     *)
(* recorded patch adds one file per action and parameter set.              *)
(***************************************************************************)
EXTENDS Integers, Sequences, FiniteSets, SequencesExt

CONSTANTS
    Builds,         \* the builds: a recorded trace, and the parameters asked for
    Code,           \* actions of the tiers code, rule and http, not synthesized
    SelfReferential,\* those of them whose recorded step would run owc itself
    Patched,        \* other actions whose recorded step wrote a file
    FileModel,      \* those of them with an SLM runtime
    TextModel,      \* unpatched actions on the slm tier with a runtime
    Data,           \* versions of the source data
    Params,         \* the parameter sets
    Replies,        \* what an agent may reply, Silent for nothing
    Silent, Error,  \* an empty output, the text of a failed code step
    Absent,         \* no file, no entry, no earlier run
    LazyAgent       \* whether an agent may exit with 0 without writing its file

Actions == UNION {ToSet(b.trace) : b \in Builds}
ModelTier == Actions \ Code

\* What a report, a file of an action, a fingerprint and a cache entry may hold.
Texts == Data \cup Replies \cup {Error, Silent, "answer", "written", "from cache"}
File == [params : Params, basis : Seq(Texts)]
Expansion == [action : Actions, output : Texts, file : File \cup {Absent}]
Entry == [sha : Seq(Expansion), output : Texts, file : File \cup {Absent}]

ASSUME BuildAssumption ==
    /\ \A b \in Builds : b.trace \in Seq(Actions) /\ b.params \subseteq Params
    /\ Patched \subseteq ModelTier /\ FileModel \subseteq Patched
    /\ TextModel \subseteq ModelTier \ Patched
    /\ SelfReferential \subseteq Code
    /\ LazyAgent \in BOOLEAN
\* A code step shows the data it read, or an error; no value stands for nothing.
ASSUME TextAssumption ==
    /\ Silent \notin Data \cup {Error, "answer", "written", "from cache"}
    /\ Absent \notin File /\ Absent \notin Entry /\ Absent \notin Seq(Texts)

VARIABLES
    build,      \* the build: trace.json, and what its users ask for
    data,       \* the source data the code tiers read
    files,      \* <<action, params>> -> the file on disk, or Absent
    cache,      \* <<action, params>> -> cache/<action>/<params-key>.json, or Absent
    running, opts, steps,   \* the run: its arguments and report.steps
    last        \* history: params -> basis of the latest run if all of it was done

vars == <<build, data, files, cache, running, opts, steps, last>>

----------------------------------------------------------------------------
(* What a step sees.                                                        *)

Trace == build.trace

action == Trace[Len(steps) + 1]

\* The parameter-substituted path, and the key of the cache entry.
Here(a) == <<a, opts.params>>

\* The members of s at the places in I, in their order.
Kept(s, I) ==
    LET kept[n \in 0..Len(s)] ==
            IF n = 0 THEN <<>>
            ELSE IF n \in I THEN Append(kept[n - 1], s[n]) ELSE kept[n - 1]
    IN  kept[Len(s)]

Outputs(s) == [n \in DOMAIN s |-> s[n].output]

\* The data shown by the code outputs of this run so far.
Basis == Kept(Outputs(steps), {n \in DOMAIN steps : steps[n].mode = "code"})

Computed == [params |-> opts.params, basis |-> Basis]

\* expand_files: an output that names the action's file stands for its text too.
Expanded(s) ==
    [action |-> s.action, output |-> s.output,
     file |-> IF s.action \in Patched THEN files[Here(s.action)] ELSE Absent]

Context == Kept([n \in DOMAIN steps |-> Expanded(steps[n])],
                {n \in DOMAIN steps : steps[n].output # Silent})

\* Mutant: the freshness key is not compared.
CacheStatusAnyUpstream(a) ==
    IF ~opts.useCache THEN "disabled"
    ELSE IF cache[Here(a)] = Absent THEN "miss" ELSE "hit"

CacheStatus(a) ==
    IF ~opts.useCache THEN "disabled"
    ELSE IF cache[Here(a)] = Absent THEN "miss"
    ELSE IF cache[Here(a)].sha # Context THEN "stale"
    ELSE "hit"

\* Mutant: the entry is written with the fingerprint of the step's own result in it.
StoreSeal(a, output, file) ==
    cache' = IF output = Silent /\ file = Absent THEN cache
             ELSE [cache EXCEPT ![Here(a)] =
                     [sha |-> Append(Context, [action |-> a, output |-> output, file |-> file]),
                      output |-> output, file |-> file]]

\* A result with neither a file nor a text is not kept.
Store(a, output, file) ==
    cache' = IF output = Silent /\ file = Absent THEN cache
             ELSE [cache EXCEPT ![Here(a)] =
                     [sha |-> Context, output |-> output, file |-> file]]

Report(mode, ok, output) ==
    steps' = Append(steps, [action |-> action, mode |-> mode, ok |-> ok, output |-> output])

At(set) == running /\ Len(steps) < Len(Trace) /\ action \in set

----------------------------------------------------------------------------
Idle == [params |-> CHOOSE p \in Params : TRUE, backend |-> FALSE, useCache |-> TRUE]

Init ==
    /\ build \in Builds /\ data \in Data
    /\ files = [k \in Patched \X Params |-> Absent]
    /\ cache = [k \in ModelTier \X Params |-> Absent]
    /\ running = FALSE /\ steps = <<>>
    /\ opts = Idle
    /\ last = [p \in Params |-> Absent]

Start(params, backend, useCache) ==
    /\ ~running /\ params \in build.params
    /\ running' = TRUE /\ steps' = <<>>
    /\ opts' = [params |-> params, backend |-> backend, useCache |-> useCache]
    /\ UNCHANGED <<build, data, files, cache, last>>

\* A code step runs with the parameters only; when it fails the run goes on, with
\* the error text as its output.
CodeStep(ok) ==
    /\ At(Code \ SelfReferential)
    /\ Report("code", ok, IF ok THEN data ELSE Error)
    /\ UNCHANGED <<build, data, files, cache, running, opts, last>>

SkipStep ==
    /\ At(SelfReferential)
    /\ Report("skipped", TRUE, Silent)
    /\ UNCHANGED <<build, data, files, cache, running, opts, last>>

\* The cached files are written back; without a cached text the step's output is
\* their listing.
Replay ==
    /\ At(ModelTier) /\ CacheStatus(action) = "hit"
    /\ LET entry == cache[Here(action)]
       IN  /\ files' = IF entry.file = Absent THEN files
                       ELSE [files EXCEPT ![Here(action)] = entry.file]
           /\ Report("cache", TRUE, IF entry.output = Silent THEN "from cache" ELSE entry.output)
    /\ UNCHANGED <<build, data, cache, running, opts, last>>

\* execute_files: the SLM's files pass the gate, are written and cached.
SlmFiles ==
    /\ At(FileModel) /\ CacheStatus(action) # "hit"
    /\ files' = [files EXCEPT ![Here(action)] = Computed]
    /\ Store(action, Silent, Computed)
    /\ Report("slm", TRUE, "written")
    /\ UNCHANGED <<build, data, running, opts, last>>

\* execute: the SLM's text passes the gate and is cached.
SlmText ==
    /\ At(TextModel) /\ CacheStatus(action) # "hit"
    /\ Store(action, "answer", Absent)
    /\ Report("slm", TRUE, "answer")
    /\ UNCHANGED <<build, data, files, running, opts, last>>

\* The gate fails and there is no backend.  A rejected text stays in the report.
SlmRejected ==
    /\ At(FileModel \cup TextModel) /\ CacheStatus(action) # "hit" /\ ~opts.backend
    /\ Report("slm", FALSE, IF action \in FileModel THEN Silent ELSE "answer")
    /\ UNCHANGED <<build, data, files, cache, running, opts, last>>

NeedsAgent ==
    /\ At(ModelTier \ (FileModel \cup TextModel))
    /\ CacheStatus(action) # "hit" /\ ~opts.backend
    /\ Report("needs_agent", TRUE, Silent)
    /\ UNCHANGED <<build, data, files, cache, running, opts, last>>

\* What the agent writes itself, which the code does not see.
AgentWrites(wrote) ==
    files' = IF wrote /\ action \in Patched
             THEN [files EXCEPT ![Here(action)] = Computed] ELSE files

\* Mutant: the files are captured before the agent runs.
EscalatedCapturingFirst(reply, wrote) ==
    /\ At(ModelTier) /\ CacheStatus(action) # "hit" /\ opts.backend
    /\ action \in Patched /\ ~LazyAgent => wrote
    /\ AgentWrites(wrote)
    /\ Store(action, reply, IF action \in Patched THEN files[Here(action)] ELSE Absent)
    /\ Report("escalated", TRUE, reply)
    /\ UNCHANGED <<build, data, running, opts, last>>

\* No hit, no SLM or its gate failed: the agent runs and exits with 0.  What is on
\* disk under the patched path then becomes part of the entry.
Escalated(reply, wrote) ==
    /\ At(ModelTier) /\ CacheStatus(action) # "hit" /\ opts.backend
    /\ action \in Patched /\ ~LazyAgent => wrote
    /\ AgentWrites(wrote)
    /\ Store(action, reply, IF action \in Patched THEN files'[Here(action)] ELSE Absent)
    /\ Report("escalated", TRUE, reply)
    /\ UNCHANGED <<build, data, running, opts, last>>

\* The agent exits with another code, or raises (Silent), perhaps after writing.
EscalationFails(reply, wrote) ==
    /\ At(ModelTier) /\ CacheStatus(action) # "hit" /\ opts.backend
    /\ AgentWrites(wrote)
    /\ Report("escalated", FALSE, reply)
    /\ UNCHANGED <<build, data, cache, running, opts, last>>

AllDone == \A n \in DOMAIN steps : steps[n].ok /\ steps[n].mode # "needs_agent"

Finish ==
    /\ running /\ Len(steps) = Len(Trace)
    /\ running' = FALSE /\ opts' = Idle /\ steps' = <<>>
    /\ last' = [last EXCEPT ![opts.params] = IF AllDone THEN Basis ELSE Absent]
    /\ UNCHANGED <<build, data, files, cache>>

\* The process dies in a model-tier step, perhaps after the agent wrote, perhaps
\* while the entry is written: write_text truncates first, and an entry that does
\* not parse is a miss.
Die(wrote, torn) ==
    /\ At(ModelTier) /\ CacheStatus(action) # "hit"
    /\ opts.backend \/ action \in FileModel \cup TextModel
    /\ running' = FALSE /\ opts' = Idle /\ steps' = <<>>
    /\ AgentWrites(wrote)
    /\ cache' = IF torn THEN [cache EXCEPT ![Here(action)] = Absent] ELSE cache
    /\ last' = [last EXCEPT ![opts.params] = Absent]
    /\ UNCHANGED <<build, data>>

----------------------------------------------------------------------------
(* The world around the runs.                                               *)

ChangeData(d) ==
    /\ data' = d
    /\ UNCHANGED <<build, files, cache, running, opts, steps, last>>

DeleteFile(k) ==
    /\ ~running
    /\ files' = [files EXCEPT ![k] = Absent]
    /\ UNCHANGED <<build, data, cache, running, opts, steps, last>>

\* owc build cache clear --action a
ClearCache(a) ==
    /\ ~running
    /\ cache' = [k \in DOMAIN cache |-> IF k[1] = a THEN Absent ELSE cache[k]]
    /\ last' = [p \in Params |-> Absent]
    /\ UNCHANGED <<build, data, files, running, opts, steps>>

RunStep ==
    \/ \E ok \in BOOLEAN : CodeStep(ok)
    \/ SkipStep \/ Replay \/ SlmFiles \/ SlmText \/ SlmRejected \/ NeedsAgent
    \/ \E reply \in Replies, wrote \in BOOLEAN : Escalated(reply, wrote)
    \/ \E reply \in Replies \cup {Silent}, wrote \in BOOLEAN : EscalationFails(reply, wrote)
    \/ Finish

Next ==
    \/ \E p \in Params, backend, useCache \in BOOLEAN : Start(p, backend, useCache)
    \/ RunStep
    \/ \E wrote, torn \in BOOLEAN : Die(wrote, torn)
    \/ \E d \in Data : ChangeData(d)
    \/ \E k \in Patched \X Params : DeleteFile(k)
    \/ \E a \in ModelTier : ClearCache(a)

Spec == Init /\ [][Next]_vars

----------------------------------------------------------------------------
(* Properties.                                                              *)

\* The code outputs a fingerprint stands for.
BasisOf(sha) == Kept(Outputs(sha), {n \in DOMAIN sha : sha[n].action \in Code})

\* A cache entry's file was computed for the entry's parameters from the code outputs
\* its upstream_sha was taken of, although the file is read from disk after the agent
\* is done, where earlier runs for other data, failed agents and dead processes
\* leave theirs.
EntryIsOfItsUpstream ==
    \A k \in DOMAIN cache :
        cache[k] # Absent /\ cache[k].file # Absent =>
            cache[k].file = [params |-> k[2], basis |-> BasisOf(cache[k].sha)]

\* What cache.py:24-25 promises: "a cached result from other data must not be
\* replayed".  The files a replay writes are those of this run's parameters and of
\* the code outputs of this run.
ReplayIsOfThisData ==
    [][\A k \in DOMAIN files :
          /\ Len(steps') = Len(steps) + 1 /\ steps'[Len(steps')].mode = "cache"
          /\ k = Here(steps'[Len(steps')].action)
          => files'[k] = Computed]_vars

\* What cache.py:4-6 promises: once a run is done, "every later run with the same
\* parameters replays it locally: 0 tokens", as long as the code outputs are the
\* same; deleted outputs, other parameters, data that changed and changed back, and
\* failed or dead runs in between notwithstanding.
EscalateOnce ==
    running /\ Len(steps) = Len(Trace) /\ opts.useCache /\ last[opts.params] = Basis =>
        \A n \in DOMAIN steps : steps[n].action \in ModelTier => steps[n].mode = "cache"

\* What this promise rests on: agents that exit with 0 have written their file and
\* have said something, no model-tier step is recorded twice, and no model-tier step comes
\* after one whose files an SLM writes, whose output is another when it is replayed.
Replayable ==
    /\ ~LazyAgent /\ Silent \notin Replies
    /\ \A b \in Builds : \A m, n \in DOMAIN b.trace :
          /\ b.trace[m] \in ModelTier /\ b.trace[n] = b.trace[m] => m = n
          /\ b.trace[m] \in FileModel /\ b.trace[n] \in ModelTier => n <= m
=============================================================================
