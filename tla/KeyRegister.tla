------------------------------ MODULE KeyRegister ------------------------------
(***************************************************************************)
(* What a key promises: in each incarnation one register, empty at first,  *)
(* that takes versions 0, 1, 2, ... one by one until the incarnation       *)
(* closes.  An acknowledged version is in the register or was passed by a  *)
(* later one.  A raw delete voids that for the rest of the incarnation:    *)
(* the register is empty again and starts at version 0.                    *)
(***************************************************************************)
EXTENDS Naturals

CONSTANT None   \* the empty register

VARIABLES
  era,       \* the open incarnation
  register,  \* its value
  voided,    \* whether a raw delete emptied it
  promised   \* the values acknowledged, each with its incarnation and version

regVars == <<era, register, voided, promised>>

NextVersion == IF register = None THEN 0 ELSE register.ver + 1

\* The register holds a, or a later version.
Reached(a) ==
  /\ register # None
  /\ register.ver >= a.ver
  /\ register.ver = a.ver => register = a

Init == era = 0 /\ register = None /\ ~ voided /\ promised = {}

\* A create or an exchange takes effect.
Write ==
  /\ register' # None
  /\ register'.inc = era /\ register'.ver = NextVersion
  /\ UNCHANGED <<era, voided, promised>>

\* A caller learns that its write was the one that took effect.
Promise ==
  /\ \E a \in promised' : /\ promised' = promised \cup {a}
                          /\ a.inc = era
                          /\ voided \/ Reached(a)
  /\ UNCHANGED <<era, register, voided>>

\* A caller's raw delete.
Void ==
  /\ register # None /\ register' = None
  /\ voided'
  /\ UNCHANGED <<era, promised>>

\* destroy closes the incarnation, whatever became of its value.
Close ==
  /\ era' = era + 1
  /\ register' = None /\ ~ voided'
  /\ UNCHANGED promised

Next == Write \/ Promise \/ Void \/ Close

Spec == Init /\ [][Next]_regVars
===============================================================================
