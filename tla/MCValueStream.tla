---------------------------- MODULE MCValueStream ----------------------------
(* Instances of ValueStream for TLC.                                       *)
EXTENDS ValueStream, TLC

\* Clients are interchangeable.
Interchangeable == Permutations(Clients)
===============================================================================
