----------------------------- MODULE TierSwitch -----------------------------
(***************************************************************************)
(* What promotion promises (core/build/slm.py, module documentation): a    *)
(* small model serves an action only once it convinced on the recorded     *)
(* examples, and gives way again at any time.                              *)
(***************************************************************************)
CONSTANTS Actions, Models, None

VARIABLES serving,     \* the model that serves each action, None if none does
          convincing   \* the pairs <<action, model>> that convince now

Init == /\ serving = [a \in Actions |-> None]
        /\ convincing = {}

\* Another evaluation: the pair convinces or no longer does.
Try(p) == /\ convincing' \in {convincing \cup {p}, convincing \ {p}}
          /\ UNCHANGED serving

SwitchTo(a, m) == /\ <<a, m>> \in convincing
                  /\ serving' = [serving EXCEPT ![a] = m]
                  /\ UNCHANGED convincing

Restore(a) == /\ serving' = [serving EXCEPT ![a] = None]
              /\ UNCHANGED convincing

Next == \/ \E p \in Actions \X Models : Try(p)
        \/ \E a \in Actions : Restore(a) \/ \E m \in Models : SwitchTo(a, m)

Spec == Init /\ [][Next]_<<serving, convincing>>
=============================================================================
