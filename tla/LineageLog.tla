------------------------------ MODULE LineageLog ------------------------------
(***************************************************************************)
(* What a lineage promises: in each era one log that only grows, whose     *)
(* acknowledged versions are versions the log has had, until the era       *)
(* closes and the next one begins with an empty log.                       *)
(***************************************************************************)
EXTENDS Naturals, Sequences

VARIABLES
  era,    \* the open era
  log,    \* its log
  acked   \* the versions promised to callers, each with its era

absVars == <<era, log, acked>>

GrowsTo(s, t) == /\ DOMAIN s \subseteq DOMAIN t
                 /\ \A i \in DOMAIN s : t[i] = s[i]

Init == /\ era = 0
        /\ acked \subseteq {[inc |-> 0, rec |-> log]}
        /\ acked = {} => log = <<>>

\* One writer's whole batch becomes visible at once.
Extend == /\ GrowsTo(log, log')
          /\ log' # log
          /\ UNCHANGED <<era, acked>>

\* A caller learns that its version is in the open log.
Promise == /\ \E a \in acked' : /\ acked' = acked \cup {a}
                                /\ a.inc = era
                                /\ GrowsTo(a.rec, log)
           /\ UNCHANGED <<era, log>>

\* destroy closes the era, and the log with it.
Close == /\ era' = era + 1
         /\ log' = <<>>
         /\ UNCHANGED acked

Next == Extend \/ Promise \/ Close

Spec == Init /\ [][Next]_absVars
==============================================================================
