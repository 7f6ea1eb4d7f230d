--------------------------------- MODULE MCSdk ---------------------------------
(* An application that uses the two SDK crates: they share no state, so it *)
(* makes its HTTP calls first and then uses the object store.              *)
EXTENDS RetryLoop, ObjectClient

CONSTANTS u1, u2

\* Two contents: one and a half parts, and two parts.
Sizes == [u \in Uploaders |-> IF u = u1 THEN 3 ELSE 4]

Strategy(k, n, d, c) == [kind |-> k, retries |-> n, delay |-> d, cap |-> c]

AllStrategies ==
  {Strategy("none", 0, 0, 0), Strategy("linear", 2, 1, 1), Strategy("backoff", 2, 1, 2),
   Strategy("jitter", 2, 2, 3), Strategy("custom", 2, 0, 1)}

\* The four predicates, a disjunction and a conjunction of them.
AllPredicates ==
  {RetryOnRetryable, RetryOn5xx, RetryOnTimeout, RetryOnConnectionError,
   RetryOnTimeout \cup RetryOn5xx, RetryOnRetryable \cap RetryOn5xx}

vars == <<callVars, storeVars>>

Init == CallInit /\ StoreInit

Next ==
  \/ StoreInit /\ CallNext /\ UNCHANGED storeVars
  \/ call = "idle" /\ StoreNext /\ UNCHANGED callVars

Spec == Init /\ [][Next]_vars
===============================================================================
