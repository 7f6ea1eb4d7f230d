--------------------------- MODULE MCAtomicKeyspace ---------------------------
(* Instances of AtomicKeyspace for TLC.                                    *)
EXTENDS AtomicKeyspace, TLC

CONSTANTS c1, c2, c3, a, b

\* Three programs: two that exchange, one of which uses the raw deletes and the
\* other destroy, and one that creates.
Programs ==
  c1 :> {"exchange", "delete", "get"} @@
  c2 :> {"destroy", "exchange", "get"} @@
  c3 :> {"create"}

\* The two that exchange write different values; the one that creates writes the
\* value of one of them, and the same one in every incarnation.
WrittenValues == c1 :> {b} @@ c2 :> {a} @@ c3 :> {a}
===============================================================================
