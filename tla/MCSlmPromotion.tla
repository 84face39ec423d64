--------------------------- MODULE MCSlmPromotion ---------------------------
(***************************************************************************)
(* A message step on the frontier tier with two recorded examples, and a   *)
(* synthesized code step that wrote two files.  The answers are the ones   *)
(* the gates' clauses tell apart.  The rates leave room: one of two        *)
(* examples, two of three facts and one fact in three made up are enough.  *)
(***************************************************************************)
EXTENDS SlmPromotion

CONSTANT Suffix   \* the suffix of the second recorded file

Total42 == "total42"
Date3 == "date3"
Order7 == "order7"

TextExample == [mode |-> "text", recorded |-> {Total42, Date3, "smalltalk"},
                context |-> {Total42, Date3, Order7}, params |-> {Order7}]

\* Five facts of an offer are in the context, the sixth is not.
Grounded == {"a1", "a2", "a3", "a4", "a5"}
Offer == Grounded \cup {"aside"}

Recording(base, tag, facts) ==
    [dir |-> "out", base |-> base, tag |-> tag, facts |-> facts]
Patch(suffix) == [mode |-> "files",
                  recorded |-> <<Recording("price", "json", {}),
                                 Recording("offer", suffix, Offer)>>,
                  context |-> Grounded, params |-> {Order7}]
FileExample == Patch(Suffix)

MCEmitted == [a \in Actions |-> IF a = "price" THEN "code" ELSE "frontier_llm"]
MCExamples == [a \in Actions |-> IF a = "price" THEN <<FileExample>>
                                 ELSE <<TextExample, TextExample>>]
MCRates == [quality |-> 50, recall |-> 60, precision |-> 60]

Good == [plain |-> {Total42, Date3, Order7}, cued |-> {}, blank |-> FALSE,
         long |-> FALSE, placeholder |-> FALSE]

\* A fact may be left out, and one of three may be made up; not both of two, nor
\* may a fact be stated under a negation only.
Texts == {[Good EXCEPT !.plain = {Total42, Order7}, !.cued = {"madeup"}],
          [Good EXCEPT !.plain = {Order7}],
          [Good EXCEPT !.plain = {Date3, Order7}, !.cued = {Total42}],
          [Good EXCEPT !.plain = {Total42, Order7, "madeup", "invented"}]}

File(f, content, facts) ==
    [dir |-> f.dir, base |-> f.base, tag |-> f.tag, like |-> Path(f),
     content |-> content, facts |-> facts, loose |-> FALSE,
     mentions |-> {Order7}, placeholder |-> FALSE]

\* The offer may lack one of its five grounded facts and what is not grounded.
FileLists(first, second) ==
    {<<File(first, "exact", {}), File(second, "exact", Grounded \ {"a1"})>>,
     <<File(first, "exact", {}), File(second, "exact", Offer \ {"a1", "a2"})>>,
     <<File(first, "structure", {}), File(second, "exact", Offer)>>,
     <<File(second, "exact", Offer)>>}

Silence == [ok |-> FALSE]
MCAnswers(e) ==
    {Silence} \cup
    IF e.mode = "text" THEN {[ok |-> TRUE, text |-> t] : t \in Texts}
    ELSE {[ok |-> TRUE, files |-> f] : f \in FileLists(e.recorded[1], e.recorded[2])}

\* The hypothesis of the proofs holds of the examples of the run promotion and not
\* of the patch of the run promotion_files, which evaluates it.
ASSUME SharpGates ==
    Suffix = "json" => /\ Sharp(TextExample) /\ Sharp(Patch("md"))
                       /\ ~ Sharp(Patch("json"))
=============================================================================
