----------------------------- MODULE MCStreamsLog -----------------------------
(* The instance of StreamsLog for TLC.                                     *)
EXTENDS StreamsLog, TLC

CONSTANTS c1, c2, i, j, p, q

\* c1 appends two events, and again after it has failed; c2 appends another event
\* under the stable id of the first.
Senders ==
  (c1 :> {[id |-> i, payload |-> p], [id |-> j, payload |-> p]})
    @@ (c2 :> {[id |-> i, payload |-> q]})
=============================================================================
