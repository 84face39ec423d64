--------------------------- MODULE MCWorkCompiler ---------------------------
(* A small workspace, turns of a coding agent on two files, and two steps  *)
(* of an instrumented program.                                             *)
EXTENDS WorkCompiler

MCWorkspace == "report" :> <<1, NL>> @@ "notes" :> <<2, NL>>

Hunk(old, new) == [old |-> old, new |-> new, all |-> FALSE]

MCCall(tool, program, path, text, hunks) ==
    [tool |-> tool, program |-> program, path |-> path, text |-> text,
     hunks |-> hunks]

WriteCall(path, text) == MCCall("write", "", path, text, <<>>)
EditCall(path, hunks) == MCCall("edit", "", path, <<>>, hunks)
ReadCall(path) == MCCall("read", "cat", path, <<>>, <<>>)
RmCall(path) == MCCall("bash", "rm", path, <<>>, <<>>)
PlanCall == MCCall("plan", "", "plan", <<>>, <<>>)

(* What the detectors see of a recorded tool call: text in and out.        *)
Quiet == [url |-> "none", status |-> FALSE, calc |-> "none",
          text |-> "strings", table |-> "many", decides |-> FALSE,
          copied |-> "none", inputs |-> TRUE,
          fields |-> "content" :> [type |-> "str", value |-> "done", long |-> FALSE]]

Labelled(v) == [Quiet EXCEPT
    !.fields = "label" :> [type |-> "str", value |-> v, long |-> FALSE]]

Quote == [Quiet EXCEPT !.url = "absolute", !.calc = "bound",
                       !.decides = TRUE, !.copied = "all"]

ToolTurn(calls) == [calls |-> calls, action |-> <<"", "">>, shape |-> Quiet]
DataTurn(name, shape) ==
    [calls |-> <<>>, action |-> <<"call", name>>, shape |-> shape]

MCTurn ==
    {ToolTurn(<<WriteCall("report", <<2, NL>>)>>),
     ToolTurn(<<WriteCall("review", <<>>)>>),
     ToolTurn(<<EditCall("report", <<Hunk(<<1>>, <<2>>)>>)>>),
     ToolTurn(<<EditCall("notes", <<Hunk(<<2>>, <<1>>), Hunk(<<1>>, <<1, 2>>)>>)>>),
     ToolTurn(<<WriteCall("notes", <<1, NL>>),
                EditCall("notes", <<Hunk(<<1>>, <<1, 2>>)>>)>>),
     ToolTurn(<<RmCall("notes")>>),
     ToolTurn(<<ReadCall("notes"), RmCall("notes")>>),
     ToolTurn(<<PlanCall, WriteCall("notes", <<1, NL>>)>>),
     DataTurn("triage", Labelled("bug")),
     DataTurn("triage", Labelled("bill")),
     DataTurn("quote", Quote), DataTurn("summary", Quiet)}

MCFirst ==
     [hint |-> "none", transition |-> 0, phrase |-> TRUE, rule |-> 1,
      pricing |-> FALSE, names |-> {}, within |-> {},
      orders |-> {<<<<"write", "report">>, <<"call", "triage">>>>}]
MCSecond ==
     [hint |-> "none", transition |-> 1, phrase |-> TRUE, rule |-> 2,
      pricing |-> FALSE, names |-> {<<"call", "summary">>}, within |-> {},
      orders |-> {<<<<"call", "triage">>, <<"write", "report">>>>}]
MCThird ==
     [hint |-> "rule", transition |-> 1, phrase |-> FALSE, rule |-> 0,
      pricing |-> TRUE, names |-> {<<"write", "notes">>},
      within |-> {<<"call", "triage">>},
      orders |-> {<<<<"write", "notes">>, <<"write", "report">>>>}]

MCContracts == {{}, {MCThird}, {MCFirst, MCSecond}}

MCWords ==
    [n \in {"write", "read", "shell", "plan", "call", "report", "rm"} |-> {}]
    @@ "notes" :> {} @@ "review" :> {"gate"} @@ "triage" :> {"predict"}
    @@ "quote" :> {"policy_name"}
    @@ "summary" :> {"writing", "general"}
=============================================================================
