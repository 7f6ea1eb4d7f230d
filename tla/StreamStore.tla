----------------------------- MODULE StreamStore -----------------------------
(***************************************************************************)
(* What a stream promises about its objects: one immutable event per       *)
(* sequence number, numbers handed out without a gap, and nothing taken    *)
(* away that a trim certificate does not cover.  StreamsLog implements     *)
(* this with appends, trims and sweeps of many requests; the modules on    *)
(* conditional appends, reads and migration compose with it.               *)
(***************************************************************************)
EXTENDS Integers

CONSTANTS
  Events,    \* encoded events: stable id, schema and payload
  MaxSeq,    \* the largest sequence number, u64::MAX in the code
  None       \* no object, no value

ASSUME StoreAssumption == MaxSeq \in Nat \ {0} /\ None \notin Events

Seqs == 1..MaxSeq

VARIABLES
  log,       \* {stream}/log/: the event at each sequence number, or None
  floor      \* the largest trim certificate; 0 when there is none

Landed == {s \in Seqs : log[s] # None}

\* The last number that is taken: the largest event, or the last one trimmed.
End ==
  IF \E s \in Landed : s >= floor
  THEN CHOOSE s \in Landed : \A t \in Landed : t <= s
  ELSE IF floor = 0 THEN 0 ELSE floor - 1

StoreInit ==
  /\ log = [s \in Seqs |-> None]
  /\ floor = 0

\* A conditional create at a number that was free: the next one, or, from a
\* writer who knows no better, one below the floor.
Land(s, e) ==
  /\ log[s] = None
  /\ s = End + 1 \/ s < floor
  /\ log' = [log EXCEPT ![s] = e]
  /\ UNCHANGED floor

\* trim: a higher floor, at most one past the end.
Certify(f) ==
  /\ floor < f /\ f <= End + 1
  /\ floor' = f
  /\ UNCHANGED log

\* gc: one object below the floor is deleted.
Sweep(s) ==
  /\ s < floor
  /\ log[s] # None
  /\ log' = [log EXCEPT ![s] = None]
  /\ UNCHANGED floor

StoreNext ==
  \E s \in Seqs : Certify(s) \/ Sweep(s) \/ \E e \in Events : Land(s, e)

StoreSpec == StoreInit /\ [][StoreNext]_<<log, floor>>
=============================================================================
