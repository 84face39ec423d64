-------------------------- MODULE MCStepExecutors --------------------------
(***************************************************************************)
(* Every handler signature over two parameters and every selection of      *)
(* three inputs, rule lists of two branches, and every kind of request.    *)
(***************************************************************************)
EXTENDS StepExecutors

Names == {"x", "y"}

Signatures ==
    {s \in [required : SUBSET Names, optional : SUBSET Names,
            kwargs : BOOLEAN, positional : BOOLEAN, opaque : BOOLEAN] :
        /\ s.required \cap s.optional = {}
        /\ s.positional => ~ s.kwargs
        /\ s.opaque => ~ s.kwargs}

Plain == [required |-> {}, optional |-> {}, kwargs |-> TRUE,
          positional |-> FALSE, opaque |-> FALSE]

Code(ref, action, path, allowed, importable, s, keys) ==
    [executor |-> "code", ref |-> ref, action |-> action, path |-> path,
     allowed |-> allowed, importable |-> importable, signature |-> s, keys |-> keys]

MCCodeRequests ==
    {Code("registered", "registered", FALSE, FALSE, FALSE, s, k) :
        s \in Signatures, k \in SUBSET {"x", "y", "z"}}
    \cup {Code(r, a, p, l, i, Plain, {"x"}) :
             r \in {"none", "name", "callable"},
             a \in {"registered", "dotted", "other"},
             p \in BOOLEAN, l \in BOOLEAN, i \in BOOLEAN}

Cond(op, v) == [field |-> "x", op |-> op, value |-> v]
Pattern(S) == [pattern |-> TRUE, found |-> S]
Conditions == {<< >>, <<Cond(">=", Number(1))>>,
               <<Cond("not_null", Absent), Cond("lt", Number(2))>>,
               <<Cond("in", Container({0, 2}))>>, <<Cond("in", Number(1))>>,
               <<Cond("contains", Number(2))>>, <<Cond("not_in", Container({0}))>>,
               <<Cond("regex", Pattern({Number(1), Absent}))>>,
               <<Cond("matches", [pattern |-> FALSE, found |-> {}])>>,
               <<Cond("falsy", Absent), Cond("almost", Number(1))>>}
Outcomes == {[tier |-> "gold"], [tier |-> "basic", fee |-> "none"]}
Branches ==
    {[when |-> w, scalar |-> FALSE, then |-> t, stop |-> b] :
        w \in Conditions, t \in Outcomes, b \in BOOLEAN}
    \cup {[when |-> <<Cond("truthy", Absent)>>, scalar |-> TRUE, then |-> << >>, stop |-> FALSE]}
Inputs == {<< >>, [x |-> Number(0)], [x |-> Number(1)], [x |-> Number(2)],
           [x |-> Container({2})]}

Rule(shape, rule, conditions, inputs) ==
    [executor |-> "rule", shape |-> shape, rule |-> rule,
     conditions |-> conditions, inputs |-> inputs]

MCRuleRequests ==
    {Rule("list", <<a, b>>, << >>, i) : a \in Branches, b \in Branches, i \in Inputs}
    \cup {Rule(s, << >>, c, i) : s \in {"list", "callable", "other"},
                                 c \in Conditions, i \in Inputs}

MCHttpRequests ==
    [executor : {"http"}, url : {"absolute", "relative", "empty"}, base : BOOLEAN,
     template : {"filled", "missing", "malformed"}, timeout : BOOLEAN,
     dest : Destinations, private : BOOLEAN]

MCModelRequests ==
    [executor : {"ml", "slm", "frontier_llm"}, template : {"filled", "malformed"},
     model : {"there", "unusable", "missing"}]
=============================================================================
