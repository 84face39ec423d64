----------------------------- MODULE ToolCalls -----------------------------
(***************************************************************************)
(* How the tool calls of a coding agent become replayable steps: the       *)
(* vocabulary of adapters/proxy/tools.py, the patch blocks of              *)
(* core/work_ir/patchfmt.py, and the handler core/build/emitter.py writes  *)
(* for a step of the code tier.                                            *)
(*                                                                         *)
(* A workspace maps the files that exist to their text.  A text is a       *)
(* sequence of tokens; NL is a line end.  Only what an edit can tell       *)
(* apart is kept of it: where one text occurs in another.                  *)
(*                                                                         *)
(* A call: [tool, path, text, hunks], a hunk: [old, new, all].             *)
(* A shell command: [program, path].                                       *)
(***************************************************************************)
EXTENDS Naturals, FiniteSets, Sequences, SequencesExt, FiniteSetsExt

NL == 0

Shellish == {"bash", "read"}
Writeish == {"write", "edit", "apply_patch"}
Bookkeeping == {"plan"}

Block(op, path, text, hunks) ==
    [op |-> op, path |-> path, text |-> text, hunks |-> hunks]

(***************************************************************************)
(* Rendering a full write and parsing it again: the text of an empty file  *)
(* comes back as one empty line, any other text as it was.                 *)
(***************************************************************************)
Add(path, text) ==
    Block("Add", path, IF text = <<>> THEN <<NL>> ELSE text, <<>>)

Update(path, hunks) == Block("Update", path, <<>>, hunks)
Delete(path) == Block("Delete", path, <<>>, <<>>)

BlockOf(call) ==
    CASE call.tool = "write" -> Add(call.path, call.text)
      [] call.tool = "edit" -> Update(call.path, call.hunks)
      [] call.tool = "apply_patch" -> Delete(call.path)

(* One call in the compiler's vocabulary.  A step with neither commands    *)
(* nor a patch is a message of the agent or a bookkeeping tool.            *)
Normalized(call) ==
    [action |-> CASE call.tool = "bash"    -> <<"shell", call.program>>
                  [] call.tool = "read"    -> <<"read", call.path>>
                  [] call.tool \in Writeish -> <<"write", call.path>>
                  [] call.tool \in Bookkeeping -> <<"plan", "plan">>,
     tool   |-> call.tool,
     cmds   |-> CASE call.tool = "bash" -> <<[program |-> call.program,
                                              path |-> call.path]>>
                  [] call.tool = "read" -> <<[program |-> "cat",
                                              path |-> call.path]>>
                  [] OTHER -> <<>>,
     patch  |-> IF call.tool \in Writeish THEN <<BlockOf(call)>> ELSE <<>>]

(* Mutant: the commands of a batch are kept last call first.               *)
MergedBackwards(calls) ==
    LET first == Head(calls)
    IN  IF \/ \A c \in ToSet(calls) : c.tool \in Shellish
           \/ \A c \in ToSet(calls) : c.tool \in Writeish
        THEN [first EXCEPT
                !.cmds  = FlattenSeq([i \in DOMAIN calls |-> Reverse(calls)[i].cmds]),
                !.patch = FlattenSeq([i \in DOMAIN calls |-> Reverse(calls)[i].patch])]
        ELSE first

(***************************************************************************)
(* The parallel calls of one turn make one step: a batch of commands, a    *)
(* batch of file blocks, or, when they are mixed, the first call alone.    *)
(***************************************************************************)
Merged(calls) ==
    LET first == Head(calls)
    IN  IF \/ \A c \in ToSet(calls) : c.tool \in Shellish
           \/ \A c \in ToSet(calls) : c.tool \in Writeish
        THEN [first EXCEPT !.cmds  = FlattenSeq([i \in DOMAIN calls |-> calls[i].cmds]),
                           !.patch = FlattenSeq([i \in DOMAIN calls |-> calls[i].patch])]
        ELSE first

-----------------------------------------------------------------------------
(* Where one text begins in another.                                       *)
Places(part, text) ==
    {i \in 1..Len(text) : /\ i + Len(part) - 1 <= Len(text)
                          /\ SubSeq(text, i, i + Len(part) - 1) = part}

Occurs(part, text) == part # <<>> /\ Places(part, text) # {}

(* Every occurrence from the left, none overlapping.                       *)
ReplaceEvery(new, old, text) ==
    LET rest[i \in 1..Len(text) + 1] ==
            IF i > Len(text) THEN <<>>
            ELSE IF SubSeq(text, i, Min({i + Len(old) - 1, Len(text)})) = old
                 THEN new \o rest[i + Len(old)]
                 ELSE <<text[i]>> \o rest[i + 1]
    IN  rest[1]

Replace(h, text) ==
    IF h.all THEN ReplaceEvery(h.new, h.old, text)
    ELSE ReplaceFirstSubSeq(h.new, h.old, text)

Written(files, path, text) ==
    [p \in DOMAIN files \cup {path} |-> IF p = path THEN text ELSE files[p]]
Without(files, path) == [p \in DOMAIN files \ {path} |-> files[p]]

(* Mutant: a hunk whose old text is gone is an error, done or not.         *)
ApplyHunkStrict(st, h) ==
    IF st.status = "error" THEN st
    ELSE IF Occurs(h.old, st.text) THEN [st EXCEPT !.text = Replace(h, st.text)]
    ELSE [st EXCEPT !.status = "error"]

(* A hunk: replaced, found done already, or an error that ends the block.  *)
ApplyHunk(st, h) ==
    IF st.status = "error" THEN st
    ELSE IF Occurs(h.old, st.text) THEN [st EXCEPT !.text = Replace(h, st.text)]
    ELSE IF Occurs(h.new, st.text) THEN [st EXCEPT !.status = "already_applied"]
    ELSE [st EXCEPT !.status = "error"]

Hunks(text, hunks) ==
    LET after[n \in 0..Len(hunks)] ==
            IF n = 0 THEN [text |-> text, status |-> "written"]
            ELSE ApplyHunk(after[n - 1], hunks[n])
    IN  after[Len(hunks)]

(***************************************************************************)
(* One block on a workspace.  The text is written once, after its last     *)
(* hunk: an error leaves the file as it was.                               *)
(***************************************************************************)
ApplyBlock(st, b) ==
    IF st.failed THEN st
    ELSE CASE b.op = "Add" -> [st EXCEPT !.files = Written(@, b.path, b.text)]
           [] b.op = "Delete" -> [st EXCEPT !.files = Without(@, b.path)]
           [] b.op = "Update" ->
                IF b.path \notin DOMAIN st.files THEN [st EXCEPT !.failed = TRUE]
                ELSE LET done == Hunks(st.files[b.path], b.hunks)
                     IN  IF done.status = "error" THEN [st EXCEPT !.failed = TRUE]
                         ELSE [st EXCEPT !.files = Written(@, b.path, done.text)]

ApplyPatch(files, patch) ==
    LET after[n \in 0..Len(patch)] ==
            IF n = 0 THEN [files |-> files, failed |-> FALSE]
            ELSE ApplyBlock(after[n - 1], patch[n])
    IN  after[Len(patch)]

(***************************************************************************)
(* A patch as the executor of the code tier has it applied.  A hunk that   *)
(* is not found ends the handler with an exception for which it is called  *)
(* once more, on the files its first call left; an update of a missing     *)
(* file ends it for good.                                                  *)
(***************************************************************************)
StopsAt(files, patch) ==
    Min({n \in DOMAIN patch : ApplyPatch(files, SubSeq(patch, 1, n)).failed})

RunPatch(files, patch) ==
    LET once == ApplyPatch(files, patch)
    IN  IF once.failed /\ patch[StopsAt(files, patch)].path \in DOMAIN once.files
        THEN ApplyPatch(once.files, patch)
        ELSE once

(* Mutant: the new text is looked for in what the hunk replaced.           *)
VerifyHunkSwapped(text, h) ==
    /\ h.old = <<>> \/ Occurs(h.old, text)
    /\ Occurs(h.new, text) => Occurs(h.new, h.old)

VerifyHunk(text, h) ==
    /\ h.new = <<>> \/ Occurs(h.new, text)
    /\ Occurs(h.old, text) => Occurs(h.old, h.new)

VerifyBlock(files, b) ==
    CASE b.op = "Add" -> b.path \in DOMAIN files /\ files[b.path] = b.text
      [] b.op = "Delete" -> b.path \notin DOMAIN files
      [] b.op = "Update" -> /\ b.path \in DOMAIN files
                            /\ \A h \in ToSet(b.hunks) :
                                   VerifyHunk(files[b.path], h)

VerifyPatch(files, patch) ==
    patch # <<>> /\ \A b \in ToSet(patch) : VerifyBlock(files, b)

-----------------------------------------------------------------------------
(* What a shell does with a command of a recorded session.                 *)
Shell(files, cmd) ==
    IF cmd.program = "rm" THEN Without(files, cmd.path) ELSE files

RunCommands(files, cmds) ==
    LET after[n \in 0..Len(cmds)] ==
            IF n = 0 THEN files ELSE Shell(after[n - 1], cmds[n])
    IN  after[Len(cmds)]

(* What a command prints, standard error included: a text, a complaint     *)
(* about a missing file, or nothing.                                       *)
NoSuchFile == <<99, NL>>

Prints(files, cmd) ==
    IF cmd.path \notin DOMAIN files THEN NoSuchFile
    ELSE IF cmd.program = "cat" THEN files[cmd.path] ELSE <<>>

Printed(files, cmds) ==
    [n \in 1..Len(cmds) |->
        Prints(RunCommands(files, SubSeq(cmds, 1, n - 1)), cmds[n])]

(***************************************************************************)
(* What the agent's own tools did while the session was recorded.  Each    *)
(* replacement of an edit works on what those before it left; one whose    *)
(* old text is missing or ambiguous fails the edit, and nothing changes.   *)
(***************************************************************************)
EditHunk(st, h) ==
    LET n == Cardinality(Places(h.old, st.text))
    IN  IF st.failed \/ h.old = <<>> \/ n = 0 \/ (n > 1 /\ ~h.all)
        THEN [st EXCEPT !.failed = TRUE]
        ELSE [st EXCEPT !.text = Replace(h, @)]

Edited(text, hunks) ==
    LET after[n \in 0..Len(hunks)] ==
            IF n = 0 THEN [text |-> text, failed |-> FALSE]
            ELSE EditHunk(after[n - 1], hunks[n])
    IN  after[Len(hunks)]

EditFails(files, call) ==
    \/ call.path \notin DOMAIN files
    \/ Edited(files[call.path], call.hunks).failed

(* The workspace after a call, and whether a call has failed so far.       *)
Live(st, call) ==
    CASE call.tool = "write" -> [st EXCEPT !.files = Written(@, call.path, call.text)]
      [] call.tool = "edit" ->
           IF EditFails(st.files, call) THEN [st EXCEPT !.failed = TRUE]
           ELSE [st EXCEPT !.files = Written(@, call.path,
                                       Edited(@[call.path], call.hunks).text)]
      [] call.tool = "apply_patch" -> [st EXCEPT !.files = Without(@, call.path)]
      [] call.tool = "bash" ->
           [st EXCEPT !.files = Shell(@, [program |-> call.program, path |-> call.path])]
      [] OTHER -> st

Played(files, calls) ==
    LET after[n \in 0..Len(calls)] ==
            IF n = 0 THEN [files |-> files, failed |-> FALSE]
            ELSE Live(after[n - 1], calls[n])
    IN  after[Len(calls)]

(* What the agent was told of a call: what the command printed, the text   *)
(* of the file it read, or a notice no command prints.                     *)
Notice == <<98>>

Answer(files, call) ==
    CASE call.tool = "bash" ->
           Prints(files, [program |-> call.program, path |-> call.path])
      [] call.tool = "read" /\ call.path \in DOMAIN files -> files[call.path]
      [] OTHER -> Notice

Answers(files, calls) ==
    [n \in 1..Len(calls) |->
        Answer(Played(files, SubSeq(calls, 1, n - 1)).files, calls[n])]

(***************************************************************************)
(* The tool result a step is recorded with: its answers in call order,     *)
(* each ended by a line end (the blank line an empty answer adds is left   *)
(* out, as it is from every comparison).                                   *)
(***************************************************************************)
Whole(text) == text = <<>> \/ Last(text) = NL

Ended(text) == IF Whole(text) THEN text ELSE Append(text, NL)

ToolResult(said) == FlattenSeq([n \in DOMAIN said |-> Ended(said[n])])

(* How often each line of a text occurs, the blank ones left out; two      *)
(* outputs are the same when these are, in whatever order the lines come.  *)
LinesOf(text) ==
    LET starts  == {i \in DOMAIN text : i = 1 \/ text[i - 1] = NL}
        end(i)  == Min({j \in i..Len(text) + 1 : j = Len(text) + 1 \/ text[j] = NL})
        line(i) == SubSeq(text, i, end(i) - 1)
    IN  [l \in {line(i) : i \in starts} \ {<<>>} |->
            Cardinality({i \in starts : line(i) = l})]

SameLines(recorded, compiled) == LinesOf(recorded) = LinesOf(compiled)

-----------------------------------------------------------------------------
(***************************************************************************)
(* The handler emitted for an action of the code tier keeps the patch or   *)
(* the commands of the first step recorded under that name, and prefers    *)
(* what it is given to its own; a step with neither gets a scaffold that   *)
(* raises.  What a patch handler prints, a list of its files, is not read. *)
(***************************************************************************)
HandlerOf(steps) ==
    [patch |-> Head(steps).patch, cmds |-> Head(steps).cmds]

Preferred(given, own) == IF given # <<>> THEN given ELSE own

RunHandler(handler, given, files) ==
    LET commands == Preferred(given.cmds, handler.cmds)
        applied  == RunPatch(files, Preferred(given.patch, handler.patch))
    IN  CASE handler.patch # <<>> ->
                [files |-> applied.files, ok |-> ~applied.failed, cmds |-> <<>>,
                 stdout |-> <<>>]
          [] handler.patch = <<>> /\ handler.cmds # <<>> ->
                [files |-> RunCommands(files, commands), ok |-> TRUE,
                 cmds |-> commands, stdout |-> FlattenSeq(Printed(files, commands))]
          [] OTHER -> [files |-> files, ok |-> FALSE, cmds |-> <<>>, stdout |-> <<>>]
=============================================================================
