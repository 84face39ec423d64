---------------------------- MODULE MCHardenLoop ----------------------------
(* Instances of HardenLoop for TLC: a handler used by two steps that no edit but  *)
(* one satisfies both of, a handler whose output may be run-dependent, and an     *)
(* action without any artifact.                                                   *)
EXTENDS HardenLoop

MCSteps == 1..4
MCActions == {"list", "stamp", "ghost"}
MCActionOf == <<"list", "list", "stamp", "ghost">>
MCContent == {"old", "half", "full"}
MCReproduces == <<{"half", "full"}, {"full"}, {"full"}, {}>>
MCVolatile == <<{}, {}, {"half"}, {}>>
MCInitial == [a \in MCActions |-> "old"]
DistinctRecorded == [s \in MCSteps |-> s]
=============================================================================
