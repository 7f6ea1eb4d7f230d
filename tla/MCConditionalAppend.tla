------------------------- MODULE MCConditionalAppend -------------------------
(* Instances of ConditionalAppend for TLC.                                 *)
EXTENDS ConditionalAppend, TLC

\* Two events of one stable id, whose schemas differ, and one of another id.
MCEvents == {[id |-> "i", schema |-> "s", payload |-> "p"],
             [id |-> "i", schema |-> "t", payload |-> "p"],
             [id |-> "j", schema |-> "s", payload |-> "p"]}

\* Configurations are interchangeable.
Interchangeable == Permutations(Configs)
===============================================================================
