------------------------ MODULE AtomicKeyspace_proofs ------------------------
(***************************************************************************)
(* Proofs about AtomicKeyspace for any clients, programs, payloads and     *)
(* bounds.                                                                 *)
(***************************************************************************)
EXTENDS AtomicKeyspace, TLAPS

-----------------------------------------------------------------------------
(* Types, with what a call's locals hold while it is under way.            *)

Creating == {"cReadEra", "cPut", "cRecheck", "cLook", "cEvict"}
Exchanging == {"xEra", "xPut", "xRecheck", "xEvict"}
Destroying == {"dTombstone", "bRead", "bCas", "dDelete"}
Rechecking == {"cRecheck", "xRecheck"}

\* What client c's call knows of its own locals.
CallOK(c) ==
  /\ pc[c] \in Creating \cup Exchanging => data[c] \in Payloads
  /\ pc[c] \in Exchanging \cup Destroying => seen[c] \in Controls
  /\ pc[c] \in {"xPut", "xRecheck", "xEvict"} => seen[c].ver < MaxVersion
  /\ pc[c] = "bCas" => era[c] < MaxInc

TypeInv == TypeOK /\ \A c \in Clients : CallOK(c)

LEMMA ControlType ==
  ASSUME NEW i \in 0..MaxInc, NEW v \in 0..MaxVersion, NEW d \in Payloads
  PROVE  /\ Control(i, v, d) \in Controls
         /\ Control(i, v, d) # None
         /\ Control(i, v, d).inc = i
         /\ Control(i, v, d).ver = v
  BY NoControlAssumption DEF Control, Controls

LEMMA ControlFields ==
  ASSUME NEW v \in Controls
  PROVE  v.inc \in 0..MaxInc /\ v.ver \in 0..MaxVersion /\ v # None
  BY NoControlAssumption DEF Controls

\* What a create publishes is version 0 of the incarnation it read.
LEMMA CreatedType ==
  ASSUME TypeOK, NEW c \in Clients, CallOK(c), pc[c] \in Creating
  PROVE  /\ Created(c) \in Controls /\ Created(c) # None
         /\ Created(c).inc = era[c] /\ Created(c).ver = 0
  BY ControlType, KeyspaceAssumption DEF Created, TypeOK, CallOK

\* What an exchange publishes is the version after the one it expects.
LEMMA ExchangedType ==
  ASSUME TypeOK, NEW c \in Clients, CallOK(c), pc[c] \in {"xPut", "xRecheck", "xEvict"}
  PROVE  /\ Exchanged(c) \in Controls /\ Exchanged(c) # None
         /\ Exchanged(c).inc = seen[c].inc /\ Exchanged(c).ver = seen[c].ver + 1
  <1>1. /\ seen[c].inc \in 0..MaxInc /\ data[c] \in Payloads
        /\ seen[c].ver + 1 \in 0..MaxVersion
    BY ControlFields, KeyspaceAssumption DEF CallOK, Exchanging
  <1>2. QED
    BY <1>1, ControlType DEF Exchanged

LEMMA InitType == Init => TypeInv
  BY KeyspaceAssumption
  DEF Init, TypeInv, TypeOK, CallOK, PCs, Creating, Exchanging, Destroying

\* A step of client c, by action.
Steps(c) ==
  \/ \E d \in Payloads : Create(c, d)
  \/ \E d \in Payloads : CompareExchange(c, d)
  \/ Delete(c) \/ DeleteIfMatch(c) \/ Destroy(c)
  \/ GetWithEtag(c) \/ ReadState(c)
  \/ CreateReadEra(c) \/ CreatePut(c) \/ CreateRecheck(c)
  \/ CreateLook(c) \/ CreateEvict(c)
  \/ ExchangeEra(c) \/ ExchangePut(c) \/ ExchangeRecheck(c) \/ ExchangeEvict(c)
  \/ DestroyTombstone(c) \/ BumpRead(c) \/ BumpCas(c) \/ DestroyDelete(c)
  \/ ReadTombstone(c) \/ Abort(c)

LEMMA NextSteps == Next => \E c \in Clients : Steps(c)
  <1> SUFFICES ASSUME NEW c \in Clients, Call(c) \/ CallStep(c) \/ Abort(c)
               PROVE  Steps(c)
    BY DEF Next
  <1>1. Writes[c] \subseteq Payloads
    BY KeyspaceAssumption
  <1>2. QED
    BY <1>1 DEF Call, CallStep, Steps

\* The locals and the token of client d, and whether its exchange crossed.
Private(d) == <<pc[d], era[d], data[d], seen[d], tries[d], token[d], d \in crossed>>

\* A step of one client leaves the others' locals and tokens alone.
LEMMA StepIsPrivate ==
  ASSUME TypeOK, NEW c \in Clients, Steps(c), NEW d \in Clients, d # c
  PROVE  Private(d)' = Private(d)
  <1> USE DEF TypeOK, Private, ghosts
  <1>1. CASE \E p \in Payloads : Create(c, p) \/ CompareExchange(c, p)
    BY <1>1 DEF Create, CompareExchange, Goto
  <1>2. CASE Delete(c) \/ DeleteIfMatch(c) \/ Destroy(c)
    BY <1>2 DEF Delete, DeleteIfMatch, Destroy, Goto, locals
  <1>3. CASE GetWithEtag(c) \/ ReadState(c)
    BY <1>3 DEF GetWithEtag, ReadState, Goto, locals
  <1>4. CASE CreateReadEra(c) \/ CreatePut(c)
    BY <1>4 DEF CreateReadEra, CreatePut, Goto, Return
  <1>5. CASE CreateRecheck(c) \/ CreateLook(c)
    BY <1>5 DEF CreateRecheck, CreateLook, Goto, Return
  <1>6. CASE CreateEvict(c) \/ ExchangeEra(c)
    BY <1>6 DEF CreateEvict, ExchangeEra, Goto, Return
  <1>7. CASE ExchangePut(c)
    BY <1>7 DEF ExchangePut, Goto, Return
  <1>8. CASE ExchangeRecheck(c)
    BY <1>8 DEF ExchangeRecheck, Goto, Return
  <1>9. CASE ExchangeEvict(c)
    BY <1>9 DEF ExchangeEvict, Return
  <1>10. CASE DestroyTombstone(c) \/ BumpRead(c)
    BY <1>10 DEF DestroyTombstone, BumpRead, Goto, Return
  <1>11. CASE BumpCas(c) \/ DestroyDelete(c)
    BY <1>11 DEF BumpCas, DestroyDelete, Goto, Return
  <1>12. CASE ReadTombstone(c) \/ Abort(c)
    BY <1>12 DEF ReadTombstone, Abort, Return
  <1>13. QED
    BY <1>1, <1>2, <1>3, <1>4, <1>5, <1>6, <1>7, <1>8, <1>9, <1>10, <1>11, <1>12
    DEF Steps

\* A step keeps the types, and what the client that takes it knows.
LEMMA StepType ==
  ASSUME TypeInv, NEW c \in Clients, Steps(c)
  PROVE  TypeOK' /\ CallOK(c)'
  <1>0. TypeOK /\ CallOK(c)
    BY DEF TypeInv
  <1> USE KeyspaceAssumption DEF Creating, Exchanging, Destroying
  <1>1. ASSUME NEW d \in Payloads, Create(c, d)
        PROVE  TypeOK' /\ CallOK(c)'
    <2>8. TypeOK'
      BY <1>0, <1>1 DEF TypeOK, CallOK, PCs, Create, Goto, store, ghosts
    <2>9. CallOK(c)'
      BY <1>0, <1>1 DEF TypeOK, CallOK, Create, Goto, store, ghosts
    <2> QED
      BY <2>8, <2>9
  <1>2. ASSUME NEW d \in Payloads, CompareExchange(c, d)
        PROVE  TypeOK' /\ CallOK(c)'
    <2>8. TypeOK'
      BY <1>0, <1>2 DEF TypeOK, CallOK, PCs, CompareExchange, Goto, store, ghosts
    <2>9. CallOK(c)'
      BY <1>0, <1>2 DEF TypeOK, CallOK, CompareExchange, Goto, store, ghosts
    <2> QED
      BY <2>8, <2>9
  <1>3. CASE Delete(c)
    <2>1. value.inc \in 0..MaxInc
      BY <1>0, <1>3, ControlFields DEF TypeOK, Delete
    <2>8. TypeOK'
      BY <1>0, <1>3, <2>1 DEF TypeOK, CallOK, PCs, Delete, Publish, locals
    <2>9. CallOK(c)'
      BY <1>0, <1>3, <2>1 DEF TypeOK, CallOK, Delete, Publish, locals
    <2> QED
      BY <2>8, <2>9
  <1>4. CASE DeleteIfMatch(c)
    <2>1. value.inc \in 0..MaxInc
      BY <1>0, <1>4, ControlFields DEF TypeOK, DeleteIfMatch
    <2>8. TypeOK'
      BY <1>0, <1>4, <2>1 DEF TypeOK, CallOK, PCs, DeleteIfMatch, Publish, locals
    <2>9. CallOK(c)'
      BY <1>0, <1>4, <2>1 DEF TypeOK, CallOK, DeleteIfMatch, Publish, locals
    <2> QED
      BY <2>8, <2>9
  <1>5. CASE Destroy(c)
    <2>8. TypeOK'
      BY <1>0, <1>5 DEF TypeOK, CallOK, PCs, Destroy, Goto, store, ghosts
    <2>9. CallOK(c)'
      BY <1>0, <1>5 DEF TypeOK, CallOK, Destroy, Goto, store, ghosts
    <2> QED
      BY <2>8, <2>9
  <1>6. CASE GetWithEtag(c)
    <2>8. TypeOK'
      BY <1>0, <1>6 DEF TypeOK, CallOK, PCs, GetWithEtag, store, locals
    <2>9. CallOK(c)'
      BY <1>0, <1>6 DEF TypeOK, CallOK, GetWithEtag, store, locals
    <2> QED
      BY <2>8, <2>9
  <1>7. CASE ReadState(c)
    <2>8. TypeOK'
      BY <1>0, <1>7 DEF TypeOK, CallOK, PCs, ReadState, Goto, store, ghosts
    <2>9. CallOK(c)'
      BY <1>0, <1>7 DEF TypeOK, CallOK, ReadState, Goto, store, ghosts
    <2> QED
      BY <2>8, <2>9
  <1>8. CASE CreateReadEra(c)
    <2>8. TypeOK'
      BY <1>0, <1>8 DEF TypeOK, CallOK, PCs, CreateReadEra, Goto, Return, store, ghosts
    <2>9. CallOK(c)'
      BY <1>0, <1>8 DEF TypeOK, CallOK, CreateReadEra, Goto, Return, store, ghosts
    <2> QED
      BY <2>8, <2>9
  <1>9. CASE CreatePut(c)
    <2>1. Created(c) \in Controls
      BY <1>0, <1>9, CreatedType DEF CreatePut
    <2>8. TypeOK'
      BY <1>0, <1>9, <2>1 DEF TypeOK, CallOK, PCs, CreatePut, Publish, Goto, Return
    <2>9. CallOK(c)'
      BY <1>0, <1>9, <2>1 DEF TypeOK, CallOK, CreatePut, Publish, Goto, Return
    <2> QED
      BY <2>8, <2>9
  <1>10. CASE CreateRecheck(c)
    <2>1. Created(c) \in Controls
      BY <1>0, <1>10, CreatedType DEF CreateRecheck
    <2>8. TypeOK'
      BY <1>0, <1>10, <2>1 DEF TypeOK, CallOK, PCs, CreateRecheck, Goto, Return, store
    <2>9. CallOK(c)'
      BY <1>0, <1>10, <2>1 DEF TypeOK, CallOK, CreateRecheck, Goto, Return, store
    <2> QED
      BY <2>8, <2>9
  <1>11. CASE CreateLook(c)
    <2>8. TypeOK'
      BY <1>0, <1>11 DEF TypeOK, CallOK, PCs, CreateLook, Goto, Return, store, ghosts
    <2>9. CallOK(c)'
      BY <1>0, <1>11 DEF TypeOK, CallOK, CreateLook, Goto, Return, store, ghosts
    <2> QED
      BY <2>8, <2>9
  <1>12. CASE CreateEvict(c)
    <2>8. TypeOK'
      BY <1>0, <1>12 DEF TypeOK, CallOK, PCs, CreateEvict, DeleteConditional, Publish, Goto, Return
    <2>9. CallOK(c)'
      BY <1>0, <1>12 DEF TypeOK, CallOK, CreateEvict, DeleteConditional, Publish, Goto, Return
    <2> QED
      BY <2>8, <2>9
  <1>13. CASE ExchangeEra(c)
    <2>8. TypeOK'
      BY <1>0, <1>13 DEF TypeOK, CallOK, PCs, ExchangeEra, Goto, Return, store, ghosts
    <2>9. CallOK(c)'
      BY <1>0, <1>13 DEF TypeOK, CallOK, ExchangeEra, Goto, Return, store, ghosts
    <2> QED
      BY <2>8, <2>9
  <1>14. CASE ExchangePut(c)
    <2>1. Exchanged(c) \in Controls
      BY <1>0, <1>14, ExchangedType DEF ExchangePut
    <2>8. TypeOK'
      BY <1>0, <1>14, <2>1 DEF TypeOK, CallOK, PCs, ExchangePut, Publish, Goto, Return
    <2>9. CallOK(c)'
      BY <1>0, <1>14, <2>1 DEF TypeOK, CallOK, ExchangePut, Publish, Goto, Return
    <2> QED
      BY <2>8, <2>9
  <1>15. CASE ExchangeRecheck(c)
    <2>1. Exchanged(c) \in Controls
      BY <1>0, <1>15, ExchangedType DEF ExchangeRecheck
    <2>8. TypeOK'
      BY <1>0, <1>15, <2>1 DEF TypeOK, CallOK, PCs, ExchangeRecheck, Goto, Return, store
    <2>9. CallOK(c)'
      BY <1>0, <1>15, <2>1 DEF TypeOK, CallOK, ExchangeRecheck, Goto, Return, store
    <2> QED
      BY <2>8, <2>9
  <1>16. CASE ExchangeEvict(c)
    <2>8. TypeOK'
      BY <1>0, <1>16 DEF TypeOK, CallOK, PCs, ExchangeEvict, DeleteConditional, Publish, Return
    <2>9. CallOK(c)'
      BY <1>0, <1>16 DEF TypeOK, CallOK, ExchangeEvict, DeleteConditional, Publish, Return
    <2> QED
      BY <2>8, <2>9
  <1>17. CASE DestroyTombstone(c)
    <2>1. [inc |-> seen[c].inc, gen |-> seen[c].ver] \in Tombstones
      BY <1>0, <1>17, ControlFields DEF DestroyTombstone, CallOK, Tombstones
    <2>8. TypeOK'
      BY <1>0, <1>17, <2>1 DEF TypeOK, CallOK, PCs, DestroyTombstone, Goto, ghosts
    <2>9. CallOK(c)'
      BY <1>0, <1>17, <2>1 DEF TypeOK, CallOK, DestroyTombstone, Goto, ghosts
    <2> QED
      BY <2>8, <2>9
  <1>18. CASE BumpRead(c)
    <2>8. TypeOK'
      BY <1>0, <1>18 DEF TypeOK, CallOK, PCs, BumpRead, Goto, Return, store, ghosts
    <2>9. CallOK(c)'
      BY <1>0, <1>18 DEF TypeOK, CallOK, BumpRead, Goto, Return, store, ghosts
    <2> QED
      BY <2>8, <2>9
  <1>19. CASE BumpCas(c)
    <2>8. TypeOK'
      BY <1>0, <1>19 DEF TypeOK, CallOK, PCs, BumpCas, Goto, ghosts
    <2>9. CallOK(c)'
      BY <1>0, <1>19 DEF TypeOK, CallOK, BumpCas, Goto, ghosts
    <2> QED
      BY <2>8, <2>9
  <1>20. CASE DestroyDelete(c)
    <2>8. TypeOK'
      BY <1>0, <1>20 DEF TypeOK, CallOK, PCs, DestroyDelete, DeleteConditional, Publish, Return
    <2>9. CallOK(c)'
      BY <1>0, <1>20 DEF TypeOK, CallOK, DestroyDelete, DeleteConditional, Publish, Return
    <2> QED
      BY <2>8, <2>9
  <1>21. CASE ReadTombstone(c)
    <2>8. TypeOK'
      BY <1>0, <1>21 DEF TypeOK, CallOK, PCs, ReadTombstone, Return, store, ghosts
    <2>9. CallOK(c)'
      BY <1>0, <1>21 DEF TypeOK, CallOK, ReadTombstone, Return, store, ghosts
    <2> QED
      BY <2>8, <2>9
  <1>22. CASE Abort(c)
    <2>8. TypeOK'
      BY <1>0, <1>22 DEF TypeOK, CallOK, PCs, Abort, Return, store
    <2>9. CallOK(c)'
      BY <1>0, <1>22 DEF TypeOK, CallOK, Abort, Return, store
    <2> QED
      BY <2>8, <2>9
  <1> QED
    BY <1>1, <1>2, <1>3, <1>4, <1>5, <1>6, <1>7, <1>8, <1>9, <1>10, <1>11, <1>12, <1>13, <1>14, <1>15, <1>16, <1>17, <1>18, <1>19, <1>20, <1>21, <1>22
    DEF Steps

LEMMA NextType == TypeInv /\ [Next]_vars => TypeInv'
  <1> SUFFICES ASSUME TypeInv, [Next]_vars PROVE TypeInv'
    OBVIOUS
  <1>1. CASE UNCHANGED vars
    BY <1>1 DEF vars, TypeInv, TypeOK, CallOK
  <1>2. CASE Next
    <2>1. PICK c \in Clients : Steps(c)
      BY <1>2, NextSteps
    <2>2. TypeOK' /\ CallOK(c)'
      BY <2>1, StepType
    <2>3. ASSUME NEW d \in Clients, d # c PROVE CallOK(d)'
      <3>1. Private(d)' = Private(d) /\ CallOK(d)
        BY <2>1, <2>3, StepIsPrivate DEF TypeInv
      <3>2. QED
        BY <3>1 DEF Private, CallOK
    <2>4. QED
      BY <2>2, <2>3 DEF TypeInv
  <1>3. QED
    BY <1>1, <1>2

\* Every variable keeps its type: no version, incarnation or loop counter leaves
\* its range, and a call under way holds the control its next request names.
THEOREM TypeCorrect == Spec => []TypeOK
  <1>1. TypeInv => TypeOK
    BY DEF TypeInv
  <1>2. QED
    BY <1>1, InitType, NextType, PTL DEF Spec

-----------------------------------------------------------------------------
(* Incarnations.  A call other than a raw delete removes a control only    *)
(* when it knows the control's incarnation closed, so what landed in a     *)
(* clean incarnation stays, or is followed by later versions.              *)

\* Incarnation i is open and no caller used a raw delete in it.
Clean(i) == i = counter /\ i \notin raw

\* Control v was there once: if its incarnation is clean, the key holds v or a
\* later version.
Landed(v) ==
  /\ v.inc <= counter
  /\ Clean(v.inc) => /\ value # None
                     /\ value.inc = v.inc
                     /\ value.ver >= v.ver
                     /\ value.ver = v.ver => value = v

\* What client c's call has published and is about to acknowledge.
Pending(c) == IF pc[c] = "cRecheck" THEN Created(c) ELSE Exchanged(c)

\* What client c's call and token know of the store.
EraOK(c) ==
  /\ token[c] # None => Landed(token[c])
  /\ pc[c] \in Exchanging \cup Destroying => Landed(seen[c])
  /\ pc[c] \in {"cPut", "cRecheck", "cLook", "cEvict"} => era[c] <= counter
  /\ pc[c] \in {"cLook", "cEvict"} => era[c] < counter
  /\ pc[c] \in {"xEvict", "dDelete"} => seen[c].inc < counter
  /\ pc[c] \in Rechecking => Landed(Pending(c))

EraInv == /\ TypeInv
          /\ value # None => value.inc <= counter
          /\ \A a \in acked : Landed(a)
          /\ \A c \in Clients : EraOK(c)

\* What every step does to the value, the counter and the raw incarnations.
KeepsValue ==
  /\ counter' \in {counter, counter + 1}
  /\ raw \subseteq raw'
  /\ value' # None => value'.inc <= counter'
  /\ value # None /\ value.inc = counter /\ counter' = counter /\ value' # value =>
       \/ value' # None /\ value'.inc = counter /\ value'.ver = value.ver + 1
       \/ counter \in raw'

LEMMA StepKeepsValue ==
  ASSUME EraInv, NEW c \in Clients, Steps(c)
  PROVE  KeepsValue
  <1>0. /\ TypeOK /\ CallOK(c) /\ EraOK(c)
        /\ counter \in Nat
        /\ value # None => value \in Controls /\ value.inc \in Nat /\ value.inc <= counter
    <2>1. TypeOK /\ CallOK(c) /\ EraOK(c) /\ (value # None => value.inc <= counter)
      BY DEF EraInv, TypeInv
    <2>2. counter \in Nat
      BY <2>1, KeyspaceAssumption DEF TypeOK
    <2>3. value # None => value \in Controls /\ value.inc \in Nat
      BY <2>1, ControlFields, KeyspaceAssumption DEF TypeOK
    <2>4. QED
      BY <2>1, <2>2, <2>3
  <1> USE DEF KeepsValue
  <1>1. CASE UNCHANGED <<value, counter, raw>>
    BY <1>0, <1>1
  <1>2. CASE CreatePut(c)
    <2>1. Created(c).inc = era[c] /\ era[c] <= counter
      BY <1>0, <1>2, CreatedType DEF CreatePut, EraOK, Creating
    <2>2. QED
      BY <1>0, <1>2, <2>1 DEF CreatePut, Publish
  <1>3. CASE CreateEvict(c)
    <2>1. /\ Created(c).inc = era[c] /\ Created(c) # None
          /\ era[c] < counter /\ era[c] \in Nat
      BY <1>0, <1>3, CreatedType, KeyspaceAssumption DEF CreateEvict, EraOK, Creating, TypeOK
    <2>2. /\ UNCHANGED <<counter, raw>>
          /\ value' = value \/ (value' = None /\ value = Created(c))
      BY <1>3 DEF CreateEvict, DeleteConditional, Publish
    <2>3. CASE value' = value
      BY <1>1, <2>2, <2>3
    <2>4. CASE value' # value
      BY <1>0, <2>1, <2>2, <2>4
    <2>5. QED
      BY <2>3, <2>4
  <1>4. CASE ExchangePut(c)
    <2>1. /\ Exchanged(c).inc = seen[c].inc /\ Exchanged(c) # None
          /\ Exchanged(c).ver = seen[c].ver + 1
          /\ seen[c] \in Controls /\ seen[c] # None
      BY <1>0, <1>4, ExchangedType, ControlFields DEF ExchangePut, CallOK, Exchanging
    <2>2. /\ UNCHANGED <<counter, raw>>
          /\ value' = value \/ (value' = Exchanged(c) /\ value = seen[c])
      BY <1>4 DEF ExchangePut, Publish
    <2>3. CASE value' = value
      BY <1>1, <2>2, <2>3
    <2>4. CASE value' # value
      BY <1>0, <2>1, <2>2, <2>4
    <2>5. QED
      BY <2>3, <2>4
  <1>5. CASE ExchangeEvict(c)
    <2>1. /\ Exchanged(c).inc = seen[c].inc /\ Exchanged(c) # None
          /\ seen[c].inc < counter /\ seen[c].inc \in Nat
      BY <1>0, <1>5, ExchangedType, ControlFields, KeyspaceAssumption
      DEF ExchangeEvict, CallOK, Exchanging, EraOK
    <2>2. /\ UNCHANGED <<counter, raw>>
          /\ value' = value \/ (value' = None /\ value = Exchanged(c))
      BY <1>5 DEF ExchangeEvict, DeleteConditional, Publish
    <2>3. CASE value' = value
      BY <1>1, <2>2, <2>3
    <2>4. CASE value' # value
      BY <1>0, <2>1, <2>2, <2>4
    <2>5. QED
      BY <2>3, <2>4
  <1>6. CASE Delete(c) \/ DeleteIfMatch(c)
    <2>1. /\ counter' = counter /\ raw' = raw \cup {value.inc} /\ value' = None
      BY <1>6 DEF Delete, DeleteIfMatch, Publish
    <2>2. QED
      BY <1>0, <1>6, <2>1
  <1>7. CASE BumpCas(c)
    BY <1>0, <1>7 DEF BumpCas, ghosts
  <1>8. CASE DestroyDelete(c)
    <2>1. seen[c].inc < counter /\ seen[c].inc \in Nat
      BY <1>0, <1>8, ControlFields, KeyspaceAssumption
      DEF DestroyDelete, CallOK, Destroying, EraOK
    <2>2. /\ UNCHANGED <<counter, raw>>
          /\ value' = value \/ (value' = None /\ value = seen[c])
      BY <1>8 DEF DestroyDelete, DeleteConditional, Publish
    <2>3. CASE value' = value
      BY <1>1, <2>2, <2>3
    <2>4. CASE value' # value
      BY <1>0, <2>1, <2>2, <2>4
    <2>5. QED
      BY <2>3, <2>4
  <1>9. CASE \/ \E d \in Payloads : Create(c, d)
             \/ \E d \in Payloads : CompareExchange(c, d)
             \/ Destroy(c) \/ GetWithEtag(c) \/ ReadState(c)
             \/ CreateReadEra(c) \/ CreateRecheck(c) \/ CreateLook(c)
             \/ ExchangeEra(c) \/ ExchangeRecheck(c)
             \/ DestroyTombstone(c) \/ BumpRead(c) \/ ReadTombstone(c) \/ Abort(c)
    BY <1>1, <1>9
    DEF Create, CompareExchange, Destroy, GetWithEtag, ReadState, CreateReadEra,
        CreateRecheck, CreateLook, ExchangeEra, ExchangeRecheck, DestroyTombstone,
        BumpRead, ReadTombstone, Abort, store, ghosts
  <1>10. QED
    BY <1>2, <1>3, <1>4, <1>5, <1>6, <1>7, <1>8, <1>9 DEF Steps

\* What has landed stays, or later versions follow it.
LEMMA LandedStays ==
  ASSUME TypeOK, KeepsValue, NEW v \in Controls, Landed(v)
  PROVE  Landed(v)'
  <1>1. /\ counter \in Nat /\ v.inc \in Nat /\ v.ver \in Nat
        /\ value # None => value.ver \in Nat
    BY ControlFields, KeyspaceAssumption DEF TypeOK
  <1>2. Clean(v.inc)' => Clean(v.inc) /\ counter' = counter
    BY <1>1 DEF KeepsValue, Landed, Clean
  <1>3. QED
    BY <1>1, <1>2 DEF KeepsValue, Landed, Clean

\* The value itself has landed.
LEMMA ValueLanded ==
  ASSUME EraInv, value # None
  PROVE  value \in Controls /\ Landed(value)
  <1>1. value \in Controls /\ value.inc <= counter
    BY DEF EraInv, TypeInv, TypeOK
  <1>2. value.ver \in Nat
    BY <1>1, ControlFields, KeyspaceAssumption
  <1>3. QED
    BY <1>1, <1>2 DEF Landed

\* What a client that takes no step knows stays true.
LEMMA OthersEraOK ==
  ASSUME TypeInv, KeepsValue, NEW d \in Clients, EraOK(d), Private(d)' = Private(d)
  PROVE  EraOK(d)'
  <1>0. TypeOK /\ CallOK(d)
    BY DEF TypeInv
  <1>1. /\ counter \in Nat /\ counter' \in {counter, counter + 1}
        /\ era[d] \in Nat
        /\ pc[d] \in Exchanging \cup Destroying => seen[d] \in Controls /\ seen[d].inc \in Nat
    BY <1>0, ControlFields, KeyspaceAssumption DEF TypeOK, CallOK, KeepsValue
  <1>2. /\ pc'[d] = pc[d] /\ era'[d] = era[d] /\ data'[d] = data[d]
        /\ seen'[d] = seen[d] /\ token'[d] = token[d]
    BY DEF Private
  <1>3. (token[d] # None => Landed(token[d]))'
    <2>1. token[d] # None => token[d] \in Controls /\ Landed(token[d])
      BY <1>0 DEF EraOK, TypeOK
    <2>2. QED
      BY <1>0, <1>2, <2>1, LandedStays DEF Landed, Clean
  <1>4. (pc[d] \in Exchanging \cup Destroying => Landed(seen[d]))'
    <2>1. pc[d] \in Exchanging \cup Destroying => Landed(seen[d])
      BY DEF EraOK
    <2>2. QED
      BY <1>0, <1>1, <1>2, <2>1, LandedStays DEF Landed, Clean
  <1>5. (pc[d] \in Rechecking => Landed(Pending(d)))'
    <2>1. pc[d] \in Rechecking => Pending(d) \in Controls /\ Landed(Pending(d))
      BY <1>0, CreatedType, ExchangedType DEF EraOK, Rechecking, Creating, Pending
    <2>2. Pending(d)' = Pending(d)
      BY <1>2 DEF Pending, Created, Exchanged
    <2>3. QED
      BY <1>0, <1>2, <2>1, <2>2, LandedStays DEF Landed, Clean
  <1>6. /\ (pc[d] \in {"cPut", "cRecheck", "cLook", "cEvict"} => era[d] <= counter)'
        /\ (pc[d] \in {"cLook", "cEvict"} => era[d] < counter)'
        /\ (pc[d] \in {"xEvict", "dDelete"} => seen[d].inc < counter)'
    BY <1>1, <1>2 DEF EraOK, Exchanging, Destroying
  <1>7. QED
    BY <1>3, <1>4, <1>5, <1>6 DEF EraOK

\* A step keeps what the client that takes it knows.
LEMMA StepEraOK ==
  ASSUME EraInv, NEW c \in Clients, Steps(c)
  PROVE  EraOK(c)'
  <1>0. /\ TypeOK /\ CallOK(c) /\ EraOK(c) /\ KeepsValue
        /\ counter \in Nat /\ era[c] \in Nat
        /\ pc[c] \in Exchanging \cup Destroying =>
             seen[c] \in Controls /\ seen[c].inc \in Nat /\ Landed(seen[c])
        /\ token[c] # None => token[c] \in Controls /\ Landed(token[c])
    <2>1. TypeOK /\ CallOK(c) /\ EraOK(c) /\ KeepsValue
      BY StepKeepsValue DEF EraInv, TypeInv
    <2>2. counter \in Nat /\ era[c] \in Nat
      BY <2>1, KeyspaceAssumption DEF TypeOK
    <2>3. pc[c] \in Exchanging \cup Destroying =>
            seen[c] \in Controls /\ seen[c].inc \in Nat /\ Landed(seen[c])
      BY <2>1, ControlFields, KeyspaceAssumption DEF CallOK, EraOK
    <2>4. token[c] # None => token[c] \in Controls /\ Landed(token[c])
      BY <2>1 DEF TypeOK, EraOK
    <2>5. QED
      BY <2>1, <2>2, <2>3, <2>4
  <1>1. token'[c] = token[c] => (token[c] # None => Landed(token[c]))'
    BY <1>0, LandedStays DEF Landed, Clean
  <1>2. seen'[c] = seen[c] /\ pc[c] \in Exchanging \cup Destroying => Landed(seen[c])'
    BY <1>0, LandedStays DEF Landed, Clean
  <1>3. ASSUME UNCHANGED <<value, counter, raw>>, NEW v, Landed(v) PROVE Landed(v)'
    BY <1>3 DEF Landed, Clean
  <1> USE DEF Creating, Exchanging, Destroying, Rechecking
  <1>4. ASSUME pc'[c] \in {"idle", "cReadEra", "rTombstone"}, token'[c] = token[c]
        PROVE  EraOK(c)'
    BY <1>1, <1>4 DEF EraOK
  <1>5. ASSUME Return(c), UNCHANGED token PROVE EraOK(c)'
    BY <1>0, <1>4, <1>5 DEF Return, TypeOK
  <1>6. ASSUME NEW d \in Payloads, Create(c, d) PROVE EraOK(c)'
    BY <1>0, <1>4, <1>6 DEF Create, Goto, TypeOK
  <1>7. CASE Delete(c) \/ DeleteIfMatch(c) \/ ReadState(c)
    BY <1>0, <1>4, <1>7 DEF Delete, DeleteIfMatch, ReadState, Goto, locals, TypeOK
  <1>8. ASSUME NEW p \in {"xEra", "dTombstone"}, value # None,
               pc'[c] = p, seen'[c] = value, UNCHANGED <<value, counter, raw, token>>
        PROVE  EraOK(c)'
    <2>1. Landed(value)'
      BY <1>3, <1>8, ValueLanded DEF Landed, Clean
    <2>2. QED
      BY <1>1, <1>8, <2>1 DEF EraOK, Landed, Clean
  <1>9. ASSUME NEW d \in Payloads, CompareExchange(c, d) PROVE EraOK(c)'
    BY <1>0, <1>8, <1>9 DEF CompareExchange, Goto, TypeOK, store, ghosts
  <1>10. CASE Destroy(c)
    BY <1>0, <1>8, <1>10 DEF Destroy, Goto, TypeOK, store, ghosts
  <1>11. CASE GetWithEtag(c)
    <2>1. Landed(value)
      BY <1>11, ValueLanded DEF GetWithEtag
    <2>2. /\ pc'[c] = "idle" /\ token'[c] = value
          /\ UNCHANGED <<value, counter, raw>>
      BY <1>0, <1>11 DEF GetWithEtag, TypeOK, store, locals
    <2>3. QED
      BY <2>1, <2>2 DEF EraOK, Landed, Clean
  <1>12. CASE CreateReadEra(c)
    <2>1. CASE Return(c)
      BY <1>5, <1>12, <2>1 DEF CreateReadEra
    <2>2. CASE pc'[c] = "cPut" /\ era'[c] = counter
      BY <1>0, <1>1, <1>12, <2>2 DEF CreateReadEra, EraOK, store
    <2>3. QED
      BY <1>0, <1>12, <2>1, <2>2 DEF CreateReadEra, Goto, TypeOK
  <1>13. CASE CreatePut(c)
    <2>1. CASE Return(c)
      BY <1>5, <1>13, <2>1 DEF CreatePut
    <2>2. CASE value' = Created(c) /\ Goto(c, "cRecheck") /\ UNCHANGED <<era, data, seen>>
      <3>1. /\ Created(c) \in Controls /\ Created(c).inc = era[c] /\ Created(c).ver = 0
            /\ Created(c) # None /\ era[c] <= counter
        BY <1>0, <1>13, CreatedType DEF CreatePut, EraOK
      <3>2. pc'[c] = "cRecheck" /\ UNCHANGED <<counter, raw, token>> /\ Pending(c)' = Created(c)
        BY <1>0, <1>13, <2>2 DEF CreatePut, Goto, TypeOK, Pending, Created
      <3>3. Landed(Pending(c))'
        BY <2>2, <3>1, <3>2 DEF Landed, Clean
      <3>4. QED
        BY <1>1, <2>2, <3>1, <3>2, <3>3 DEF EraOK
    <2>3. QED
      BY <1>13, <2>1, <2>2 DEF CreatePut, Publish
  <1>14. CASE CreateRecheck(c)
    <2>1. CASE Return(c)
      BY <1>5, <1>14, <2>1 DEF CreateRecheck
    <2>2. CASE counter # era[c] /\ Goto(c, "cLook") /\ UNCHANGED era
      <3>1. pc'[c] = "cLook" /\ UNCHANGED <<counter, token>> /\ era[c] <= counter
        BY <1>0, <1>14, <2>2 DEF CreateRecheck, Goto, TypeOK, EraOK, store
      <3>2. QED
        BY <1>0, <1>1, <2>2, <3>1 DEF EraOK
    <2>3. QED
      BY <1>14, <2>1, <2>2 DEF CreateRecheck
  <1>15. CASE CreateLook(c)
    <2>1. CASE Return(c) \/ pc'[c] = "cReadEra"
      BY <1>4, <1>5, <1>15, <2>1 DEF CreateLook
    <2>2. CASE pc'[c] = "cEvict" /\ UNCHANGED era
      BY <1>0, <1>1, <1>15, <2>2 DEF CreateLook, EraOK, store
    <2>3. QED
      BY <1>0, <1>15, <2>1, <2>2 DEF CreateLook, Goto, TypeOK
  <1>16. CASE CreateEvict(c)
    <2>1. UNCHANGED token /\ (Return(c) \/ pc'[c] = "cReadEra")
      BY <1>0, <1>16 DEF CreateEvict, Goto, TypeOK
    <2>2. QED
      BY <1>4, <1>5, <2>1
  <1>17. CASE ExchangeEra(c)
    <2>1. CASE Return(c)
      BY <1>5, <1>17, <2>1 DEF ExchangeEra
    <2>2. CASE Goto(c, "xPut") /\ UNCHANGED seen
      <3>1. pc'[c] = "xPut" /\ UNCHANGED token /\ pc[c] = "xEra"
        BY <1>0, <1>17, <2>2 DEF ExchangeEra, Goto, TypeOK
      <3>2. QED
        BY <1>1, <1>2, <2>2, <3>1 DEF EraOK
    <2>3. QED
      BY <1>17, <2>1, <2>2 DEF ExchangeEra
  <1>18. CASE ExchangePut(c)
    <2>1. CASE Return(c)
      BY <1>5, <1>18, <2>1 DEF ExchangePut
    <2>2. CASE value' = Exchanged(c) /\ Goto(c, "xRecheck") /\ UNCHANGED <<data, seen>>
      <3>1. /\ Exchanged(c) \in Controls /\ Exchanged(c).inc = seen[c].inc
            /\ Exchanged(c) # None /\ Exchanged(c).ver \in Nat
            /\ seen[c].inc <= counter /\ pc[c] = "xPut"
        BY <1>0, <1>18, ExchangedType, ControlFields, KeyspaceAssumption
        DEF ExchangePut, Landed
      <3>2. /\ pc'[c] = "xRecheck" /\ UNCHANGED <<counter, raw, token>>
            /\ Pending(c)' = Exchanged(c)
        BY <1>0, <1>18, <2>2 DEF ExchangePut, Goto, TypeOK, Pending, Exchanged
      <3>3. Landed(Pending(c))'
        BY <2>2, <3>1, <3>2 DEF Landed, Clean
      <3>4. QED
        BY <1>1, <1>2, <2>2, <3>1, <3>2, <3>3 DEF EraOK
    <2>3. QED
      BY <1>18, <2>1, <2>2 DEF ExchangePut, Publish
  <1>19. CASE ExchangeRecheck(c)
    <2>0. /\ pc[c] = "xRecheck" /\ UNCHANGED <<value, counter, raw>>
          /\ Landed(Exchanged(c)) /\ seen[c].inc <= counter
      BY <1>0, <1>19 DEF ExchangeRecheck, EraOK, Pending, Landed, store
    <2>1. CASE Return(c) /\ token'[c] = Exchanged(c)
      <3>1. Landed(token[c])'
        BY <2>0, <2>1 DEF Landed, Clean
      <3>2. pc'[c] = "idle"
        BY <1>0, <2>1 DEF Return, TypeOK
      <3>3. QED
        BY <3>1, <3>2 DEF EraOK
    <2>2. CASE counter # seen[c].inc /\ Goto(c, "xEvict") /\ UNCHANGED <<seen, token>>
      <3>1. pc'[c] = "xEvict" /\ seen[c].inc < counter
        BY <1>0, <2>0, <2>2 DEF Goto, TypeOK
      <3>2. QED
        BY <1>1, <1>2, <2>0, <2>2, <3>1 DEF EraOK
    <2>3. QED
      BY <1>0, <1>19, <2>1, <2>2 DEF ExchangeRecheck, TypeOK
  <1>20. CASE ExchangeEvict(c) \/ DestroyDelete(c)
    BY <1>5, <1>20 DEF ExchangeEvict, DestroyDelete
  <1>21. CASE DestroyTombstone(c)
    <2>1. pc'[c] = "bRead" /\ pc[c] = "dTombstone" /\ UNCHANGED <<seen, token>>
      BY <1>0, <1>21 DEF DestroyTombstone, Goto, TypeOK
    <2>2. QED
      BY <1>1, <1>2, <2>1 DEF EraOK
  <1>22. CASE BumpRead(c)
    <2>1. CASE Return(c)
      BY <1>5, <1>22, <2>1 DEF BumpRead
    <2>2. CASE Goto(c, "bCas") /\ UNCHANGED seen
      <3>1. pc'[c] = "bCas" /\ pc[c] = "bRead" /\ UNCHANGED token
        BY <1>0, <1>22, <2>2 DEF BumpRead, Goto, TypeOK
      <3>2. QED
        BY <1>1, <1>2, <2>2, <3>1 DEF EraOK
    <2>3. QED
      BY <1>22, <2>1, <2>2 DEF BumpRead
  <1>23. CASE BumpCas(c)
    <2>1. /\ pc[c] = "bCas" /\ UNCHANGED <<seen, token>>
          /\ pc'[c] \in {"bRead", "dDelete"}
          /\ pc'[c] = "dDelete" => counter' = counter + 1
          /\ seen[c].inc <= counter
      BY <1>0, <1>23 DEF BumpCas, Goto, TypeOK, Landed
    <2>2. QED
      BY <1>0, <1>1, <1>2, <2>1 DEF EraOK
  <1>24. CASE ReadTombstone(c) \/ Abort(c)
    BY <1>5, <1>24 DEF ReadTombstone, Abort
  <1>25. QED
    BY <1>6, <1>7, <1>9, <1>10, <1>11, <1>12, <1>13, <1>14, <1>15, <1>16, <1>17,
       <1>18, <1>19, <1>20, <1>21, <1>22, <1>23, <1>24
    DEF Steps

\* What a step of client c acknowledges, if anything, is what it published.
LEMMA StepAcks ==
  ASSUME TypeOK, NEW c \in Clients, Steps(c)
  PROVE  \/ acked' = acked
         \/ /\ pc[c] \in Rechecking
            /\ acked' = acked \cup {Pending(c)}
            /\ UNCHANGED <<value, counter, raw>>
            /\ pc'[c] = "idle"
  <1>1. CASE CreateRecheck(c) \/ ExchangeRecheck(c)
    BY <1>1 DEF CreateRecheck, ExchangeRecheck, Rechecking, Pending, Return,
               TypeOK, store
  <1>2. CASE \/ \E d \in Payloads : Create(c, d) \/ CompareExchange(c, d)
             \/ Delete(c) \/ DeleteIfMatch(c) \/ Destroy(c)
             \/ GetWithEtag(c) \/ ReadState(c)
             \/ CreateReadEra(c) \/ CreatePut(c) \/ CreateLook(c) \/ CreateEvict(c)
    BY <1>2
    DEF Create, CompareExchange, Delete, DeleteIfMatch, Destroy, GetWithEtag, ReadState,
        CreateReadEra, CreatePut, CreateLook, CreateEvict, ghosts
  <1>3. CASE \/ ExchangeEra(c) \/ ExchangePut(c) \/ ExchangeEvict(c)
             \/ DestroyTombstone(c) \/ BumpRead(c) \/ BumpCas(c) \/ DestroyDelete(c)
             \/ ReadTombstone(c) \/ Abort(c)
    BY <1>3
    DEF ExchangeEra, ExchangePut, ExchangeEvict, DestroyTombstone, BumpRead, BumpCas,
        DestroyDelete, ReadTombstone, Abort, ghosts
  <1>4. QED
    BY <1>1, <1>2, <1>3 DEF Steps

LEMMA NextEra == EraInv /\ [Next]_vars => EraInv'
  <1> SUFFICES ASSUME EraInv, [Next]_vars PROVE EraInv'
    OBVIOUS
  <1>1. TypeInv'
    BY NextType DEF EraInv
  <1>2. CASE UNCHANGED vars
    BY <1>1, <1>2 DEF vars, EraInv, EraOK, Landed, Clean, Pending, Created, Exchanged
  <1>3. CASE Next
    <2>1. PICK c \in Clients : Steps(c)
      BY <1>3, NextSteps
    <2>2. KeepsValue /\ EraOK(c)'
      BY <2>1, StepKeepsValue, StepEraOK
    <2>3. ASSUME NEW d \in Clients, d # c PROVE EraOK(d)'
      <3>1. Private(d)' = Private(d) /\ EraOK(d) /\ TypeInv
        BY <2>1, <2>3, StepIsPrivate DEF EraInv, TypeInv
      <3>2. QED
        BY <2>2, <3>1, OthersEraOK
    <2>4. ASSUME NEW a \in acked PROVE Landed(a)'
      BY <2>2, LandedStays DEF EraInv, TypeInv, TypeOK
    <2>5. \A a \in acked' : Landed(a)'
      <3>1. CASE acked' = acked
        BY <2>4, <3>1
      <3>2. CASE /\ pc[c] \in Rechecking
                 /\ acked' = acked \cup {Pending(c)}
                 /\ UNCHANGED <<value, counter, raw>>
        <4>1. Landed(Pending(c))
          BY <3>2 DEF EraInv, EraOK
        <4>2. ASSUME NEW v, v = Pending(c) PROVE Landed(v)'
          BY <3>2, <4>1, <4>2 DEF Landed, Clean
        <4>3. QED
          BY <2>4, <3>2, <4>2
      <3>3. QED
        BY <2>1, <3>1, <3>2, StepAcks DEF EraInv, TypeInv
    <2>6. (value # None => value.inc <= counter)'
      BY <2>2 DEF KeepsValue
    <2>7. \A d \in Clients : EraOK(d)'
      BY <2>2, <2>3
    <2>8. QED
      BY <1>1, <2>5, <2>6, <2>7 DEF EraInv
  <1>4. QED
    BY <1>2, <1>3

LEMMA InitEra == Init => EraInv
  <1> SUFFICES ASSUME Init PROVE EraInv
    OBVIOUS
  <1>1. \A c \in Clients : EraOK(c)
    BY DEF Init, EraOK, Exchanging, Destroying, Rechecking
  <1>2. QED
    BY <1>1, InitType DEF Init, EraInv

LEMMA EraInvariant == Spec => []EraInv
  BY InitEra, NextEra, PTL DEF Spec

\* In an open incarnation without raw deletes the key holds every write the
\* keyspace acknowledged, or a later version: destroys of earlier incarnations,
\* late evictions, resent requests and crashes lose none of them.
THEOREM AckedValueSurvivesTheorem == Spec => []AckedValueSurvives
  <1>1. EraInv => AckedValueSurvives
    BY DEF EraInv, AckedValueSurvives, Landed, Clean
  <1>2. QED
    BY <1>1, EraInvariant, PTL

-----------------------------------------------------------------------------
(* The refinement: the open incarnation is a register.                     *)

\* No incarnation is voided before it opens.
RegisterInv == EraInv /\ \A i \in raw : i <= counter

LEMMA NextRegister == RegisterInv /\ [Next]_vars => RegisterInv'
  <1> SUFFICES ASSUME RegisterInv, [Next]_vars PROVE RegisterInv'
    OBVIOUS
  <1>1. EraInv /\ EraInv'
    BY NextEra DEF RegisterInv
  <1>2. CASE UNCHANGED vars
    BY <1>1, <1>2 DEF vars, RegisterInv
  <1>3. CASE Next
    <2>1. PICK c \in Clients : Steps(c)
      BY <1>3, NextSteps
    <2>2. KeepsValue /\ counter \in Nat /\ raw \subseteq Nat
      BY <1>1, <2>1, StepKeepsValue, KeyspaceAssumption DEF EraInv, TypeInv, TypeOK
    <2>3. counter' \in Nat /\ counter <= counter'
      BY <2>2 DEF KeepsValue
    <2>4. raw' = raw \/ (raw' = raw \cup {value.inc} /\ value # None)
      <3>1. CASE Delete(c) \/ DeleteIfMatch(c)
        BY <3>1 DEF Delete, DeleteIfMatch
      <3>2. CASE ~ (Delete(c) \/ DeleteIfMatch(c))
        BY <2>1, <3>2
        DEF Steps, Create, CompareExchange, Destroy, GetWithEtag, ReadState, CreateReadEra,
            CreatePut, CreateRecheck, CreateLook, CreateEvict, ExchangeEra, ExchangePut,
            ExchangeRecheck, ExchangeEvict, DestroyTombstone, BumpRead, BumpCas,
            DestroyDelete, ReadTombstone, Abort, ghosts
      <3>3. QED
        BY <3>1, <3>2
    <2>5. value # None => value.inc <= counter /\ value.inc \in Nat
      BY <1>1, ControlFields, KeyspaceAssumption DEF EraInv, TypeInv, TypeOK
    <2>6. \A i \in raw' : i \in Nat /\ i <= counter
      BY <2>2, <2>4, <2>5 DEF RegisterInv
    <2>7. \A i \in raw' : i <= counter'
      BY <2>2, <2>3, <2>6
    <2>8. QED
      BY <1>1, <2>7 DEF RegisterInv
  <1>4. QED
    BY <1>2, <1>3

\* A step that leaves the value, the counter and the promises alone is no step of
\* the register.
LEMMA QuietStepRefines ==
  ASSUME UNCHANGED <<value, counter, raw, acked>>
  PROVE  UNCHANGED Register!regVars
  BY DEF Register!regVars, OpenValue

\* The control of a closed incarnation is taken away or replaced: nobody sees it.
LEMMA ClosedStepRefines ==
  ASSUME value # None => value.inc # counter, value' # None => value'.inc # counter,
         UNCHANGED <<counter, acked>>, counter \in raw' <=> counter \in raw
  PROVE  UNCHANGED Register!regVars
  <1>1. OpenValue = None /\ OpenValue' = None
    BY DEF OpenValue
  <1>2. (counter \in raw)' = (counter \in raw)
    OBVIOUS
  <1>3. QED
    BY <1>1, <1>2 DEF Register!regVars

\* An eviction, or the delete of a destroy, takes only a closed incarnation's control.
LEMMA ClosedValueGoes ==
  ASSUME TypeOK, NEW c \in Clients, CallOK(c), EraOK(c),
         CreateEvict(c) \/ ExchangeEvict(c) \/ DestroyDelete(c), value' # value
  PROVE  value.inc # counter
  <1>0. counter \in Nat
    BY KeyspaceAssumption DEF TypeOK
  <1>1. CASE CreateEvict(c)
    <2>1. /\ Created(c).inc = era[c] /\ era[c] < counter /\ era[c] \in Nat
          /\ value = Created(c)
      BY <1>1, CreatedType, KeyspaceAssumption
      DEF CreateEvict, DeleteConditional, Publish, EraOK, Creating, TypeOK
    <2>2. QED
      BY <1>0, <2>1
  <1>2. CASE ExchangeEvict(c)
    <2>1. /\ Exchanged(c).inc = seen[c].inc /\ seen[c].inc < counter /\ seen[c].inc \in Nat
          /\ value = Exchanged(c)
      BY <1>2, ExchangedType, ControlFields, KeyspaceAssumption
      DEF ExchangeEvict, DeleteConditional, Publish, CallOK, Exchanging, EraOK
    <2>2. QED
      BY <1>0, <2>1
  <1>3. CASE DestroyDelete(c)
    <2>1. seen[c].inc < counter /\ seen[c].inc \in Nat /\ value = seen[c]
      BY <1>3, ControlFields, KeyspaceAssumption
      DEF DestroyDelete, DeleteConditional, Publish, CallOK, Destroying, EraOK
    <2>2. QED
      BY <1>0, <2>1
  <1>4. QED
    BY <1>1, <1>2, <1>3

LEMMA StepRefines ==
  ASSUME RegisterInv, NEW c \in Clients, Steps(c)
  PROVE  Register!Next \/ UNCHANGED Register!regVars
  <1>0. /\ TypeOK /\ CallOK(c) /\ EraOK(c) /\ counter \in Nat
        /\ value # None => value.inc \in Nat /\ value.inc <= counter
    BY ControlFields, KeyspaceAssumption DEF RegisterInv, EraInv, TypeInv, TypeOK
  <1> USE DEF Register!Next
  <1>1. CASE UNCHANGED <<value, counter, raw, acked>>
    BY <1>1, QuietStepRefines
  <1>2. CASE CreatePut(c)
    <2>1. Created(c).inc = era[c] /\ Created(c).ver = 0 /\ Created(c) # None
      BY <1>0, <1>2, CreatedType DEF CreatePut, Creating
    <2>2. CASE value = None /\ value' = Created(c)
      <3>1. UNCHANGED <<counter, raw, acked>>
        BY <1>2 DEF CreatePut
      <3>2. CASE era[c] = counter
        <4>1. OpenValue = None /\ OpenValue' = Created(c)
          BY <2>1, <2>2, <3>1, <3>2 DEF OpenValue
        <4>2. Register!Write
          BY <2>1, <3>1, <3>2, <4>1 DEF Register!Write, Register!NextVersion
        <4>3. QED
          BY <4>2
      <3>3. CASE era[c] # counter
        BY <2>1, <2>2, <3>1, <3>3, ClosedStepRefines
      <3>4. QED
        BY <3>2, <3>3
    <2>3. CASE value' = value
      BY <1>1, <1>2, <2>3 DEF CreatePut
    <2>4. QED
      BY <1>2, <2>2, <2>3 DEF CreatePut, Publish
  <1>3. CASE ExchangePut(c)
    <2>1. /\ Exchanged(c).inc = seen[c].inc /\ Exchanged(c).ver = seen[c].ver + 1
          /\ Exchanged(c) # None /\ seen[c] # None
      BY <1>0, <1>3, ExchangedType, ControlFields DEF ExchangePut, CallOK, Exchanging
    <2>2. CASE value = seen[c] /\ value' = Exchanged(c)
      <3>1. UNCHANGED <<counter, raw, acked>>
        BY <1>3 DEF ExchangePut
      <3>2. CASE seen[c].inc = counter
        <4>1. OpenValue = seen[c] /\ OpenValue' = Exchanged(c)
          BY <2>1, <2>2, <3>1, <3>2 DEF OpenValue
        <4>2. Register!Write
          BY <2>1, <3>1, <3>2, <4>1 DEF Register!Write, Register!NextVersion
        <4>3. QED
          BY <4>2
      <3>3. CASE seen[c].inc # counter
        BY <2>1, <2>2, <3>1, <3>3, ClosedStepRefines
      <3>4. QED
        BY <3>2, <3>3
    <2>3. CASE value' = value
      BY <1>1, <1>3, <2>3 DEF ExchangePut
    <2>4. QED
      BY <1>3, <2>2, <2>3 DEF ExchangePut, Publish
  <1>4. CASE Delete(c) \/ DeleteIfMatch(c)
    <2>1. /\ value # None /\ value' = None /\ raw' = raw \cup {value.inc}
          /\ UNCHANGED <<counter, acked>>
      BY <1>0, <1>4, ControlFields DEF Delete, DeleteIfMatch, Publish, TypeOK
    <2>2. CASE value.inc = counter
      <3>1. OpenValue # None /\ OpenValue' = None /\ (counter \in raw)'
        BY <2>1, <2>2 DEF OpenValue
      <3>2. Register!Void
        BY <2>1, <3>1 DEF Register!Void
      <3>3. QED
        BY <3>2
    <2>3. CASE value.inc # counter
      BY <2>1, <2>3, ClosedStepRefines
    <2>4. QED
      BY <2>2, <2>3
  <1>5. CASE CreateEvict(c) \/ ExchangeEvict(c) \/ DestroyDelete(c)
    <2>1. /\ UNCHANGED <<counter, raw, acked>>
          /\ value' \in {value, None}
      BY <1>5 DEF CreateEvict, ExchangeEvict, DestroyDelete, DeleteConditional, Publish
    <2>2. CASE value' = value
      BY <1>1, <2>1, <2>2
    <2>3. CASE value' # value
      <3>1. value.inc # counter
        BY <2>3, <1>5, <1>0, ClosedValueGoes
      <3>2. QED
        BY <2>1, <2>3, <3>1, ClosedStepRefines
    <2>4. QED
      BY <2>2, <2>3
  <1>6. CASE BumpCas(c)
    <2>1. CASE counter' = counter + 1
      <3>1. OpenValue' = None
        BY <1>0, <1>6, <2>1 DEF BumpCas, OpenValue
      <3>2. UNCHANGED <<raw, acked>>
        BY <1>6 DEF BumpCas, ghosts
      <3>3. counter + 1 \notin raw
        BY <1>0 DEF RegisterInv
      <3>4. Register!Close
        BY <2>1, <3>1, <3>2, <3>3 DEF Register!Close
      <3>5. QED
        BY <3>4
    <2>2. CASE counter' = counter
      BY <1>1, <1>6, <2>2 DEF BumpCas, ghosts
    <2>3. QED
      BY <1>6, <2>1, <2>2 DEF BumpCas
  <1>7. CASE CreateRecheck(c) \/ ExchangeRecheck(c)
    <2>1. pc[c] \in Rechecking /\ Landed(Pending(c)) /\ UNCHANGED <<value, counter, raw>>
      BY <1>0, <1>7 DEF CreateRecheck, ExchangeRecheck, EraOK, Rechecking, store
    <2>2. CASE acked' = acked \cup {Pending(c)} /\ Pending(c).inc = counter
      <3>1. OpenValue' = OpenValue /\ (counter \in raw)' = (counter \in raw)
        BY <2>1 DEF OpenValue
      <3>2. counter \in raw \/ Register!Reached(Pending(c))
        BY <2>1, <2>2 DEF Landed, Clean, Register!Reached, OpenValue
      <3>3. Pending(c) \in acked'
        BY <2>2
      <3>4. Register!Promise
        BY <2>1, <2>2, <3>1, <3>2, <3>3 DEF Register!Promise
      <3>5. QED
        BY <3>4
    <2>3. CASE acked' = acked
      BY <1>1, <2>1, <2>3
    <2>4. QED
      <3>1. CASE CreateRecheck(c)
        BY <1>0, <2>2, <2>3, <3>1, CreatedType DEF CreateRecheck, Pending, Creating
      <3>2. CASE ExchangeRecheck(c)
        BY <1>0, <2>2, <2>3, <3>2, ExchangedType DEF ExchangeRecheck, Pending
      <3>3. QED
        BY <1>7, <3>1, <3>2
  <1>8. CASE \/ \E d \in Payloads : Create(c, d)
             \/ \E d \in Payloads : CompareExchange(c, d)
             \/ Destroy(c) \/ GetWithEtag(c) \/ ReadState(c)
             \/ CreateReadEra(c) \/ CreateLook(c) \/ ExchangeEra(c)
             \/ DestroyTombstone(c) \/ BumpRead(c) \/ ReadTombstone(c) \/ Abort(c)
    BY <1>1, <1>8
    DEF Create, CompareExchange, Destroy, GetWithEtag, ReadState, CreateReadEra,
        CreateLook, ExchangeEra, DestroyTombstone, BumpRead, ReadTombstone, Abort,
        store, ghosts
  <1>9. QED
    BY <1>2, <1>3, <1>4, <1>5, <1>6, <1>7, <1>8 DEF Steps

\* Every behaviour of the key's requests is a behaviour of KeyRegister: an
\* incarnation is a register whose versions follow each other, that only a raw
\* delete empties, and that has had every version it is said to have had.
THEOREM Refinement == Spec => ImplementsKeyRegister
  <1>1. Init => RegisterInv /\ Register!Init
    BY InitEra DEF Init, RegisterInv, Register!Init, OpenValue
  <1>2. RegisterInv /\ [Next]_vars => [Register!Next]_(Register!regVars)
    <2> SUFFICES ASSUME RegisterInv, [Next]_vars
                 PROVE  Register!Next \/ UNCHANGED Register!regVars
      OBVIOUS
    <2>1. CASE UNCHANGED vars
      BY <2>1, QuietStepRefines DEF vars
    <2>2. CASE Next
      BY <2>2, NextSteps, StepRefines
    <2>3. QED
      BY <2>1, <2>2
  <1>3. QED
    BY <1>1, <1>2, NextRegister, PTL DEF Spec, ImplementsKeyRegister, Register!Spec

-----------------------------------------------------------------------------
(* Destruction leaves a witness.                                           *)

\* No incarnation closes, and no destroy gets as far as closing one, before the
\* tombstone is there.
WitnessInv ==
  /\ EraInv
  /\ counter > 0 => tombstone # None
  /\ \A c \in Clients : pc[c] \in {"bRead", "bCas", "dDelete"} => tombstone # None

\* What every step of client c does to the tombstone and the counter.
LEMMA StepWitness ==
  ASSUME TypeInv, NEW c \in Clients, Steps(c),
         pc[c] \in {"bRead", "bCas", "dDelete"} => tombstone # None
  PROVE  /\ tombstone # None => tombstone' = tombstone
         /\ pc'[c] \in {"bRead", "bCas", "dDelete"} => tombstone' # None
         /\ counter' # counter => tombstone' # None
  <1>0. TypeOK /\ CallOK(c)
    BY DEF TypeInv
  <1> USE DEF TypeOK
  <1>1. CASE DestroyTombstone(c)
    <2>1. [inc |-> seen[c].inc, gen |-> seen[c].ver] # None
      <3>1. [inc |-> seen[c].inc, gen |-> seen[c].ver] \in Tombstones
        BY <1>0, <1>1, ControlFields DEF DestroyTombstone, CallOK, Destroying, Tombstones
      <3>2. QED
        BY <3>1, NoControlAssumption
    <2>2. QED
      BY <1>0, <1>1, <2>1 DEF DestroyTombstone, Goto
  <1>2. CASE BumpRead(c) \/ BumpCas(c)
    BY <1>0, <1>2 DEF BumpRead, BumpCas, Goto, Return, store
  <1>3. CASE \/ \E d \in Payloads : Create(c, d) \/ CompareExchange(c, d)
             \/ Delete(c) \/ DeleteIfMatch(c) \/ Destroy(c)
             \/ GetWithEtag(c) \/ ReadState(c)
    BY <1>0, <1>3
    DEF Create, CompareExchange, Delete, DeleteIfMatch, Destroy, GetWithEtag, ReadState,
        Goto, store, locals
  <1>4. CASE \/ CreateReadEra(c) \/ CreatePut(c) \/ CreateRecheck(c)
             \/ CreateLook(c) \/ CreateEvict(c)
    BY <1>0, <1>4
    DEF CreateReadEra, CreatePut, CreateRecheck, CreateLook, CreateEvict, Goto, Return, store
  <1>5. CASE \/ ExchangeEra(c) \/ ExchangePut(c) \/ ExchangeRecheck(c) \/ ExchangeEvict(c)
             \/ DestroyDelete(c) \/ ReadTombstone(c) \/ Abort(c)
    BY <1>0, <1>5
    DEF ExchangeEra, ExchangePut, ExchangeRecheck, ExchangeEvict, DestroyDelete,
        ReadTombstone, Abort, Goto, Return, store
  <1>6. QED
    BY <1>1, <1>2, <1>3, <1>4, <1>5 DEF Steps

LEMMA NextWitness == WitnessInv /\ [Next]_vars => WitnessInv'
  <1> SUFFICES ASSUME WitnessInv, [Next]_vars PROVE WitnessInv'
    OBVIOUS
  <1>1. EraInv'
    BY NextEra DEF WitnessInv
  <1>2. CASE UNCHANGED vars
    BY <1>1, <1>2 DEF vars, WitnessInv
  <1>3. CASE Next
    <2>1. PICK c \in Clients : Steps(c)
      BY <1>3, NextSteps
    <2>2. /\ tombstone # None => tombstone' = tombstone
          /\ pc'[c] \in {"bRead", "bCas", "dDelete"} => tombstone' # None
          /\ counter' # counter => tombstone' # None
      BY <2>1, StepWitness DEF WitnessInv, EraInv
    <2>3. ASSUME NEW d \in Clients, d # c PROVE pc'[d] = pc[d]
      BY <2>1, <2>3, StepIsPrivate DEF WitnessInv, EraInv, TypeInv, Private
    <2>4. \A d \in Clients : pc'[d] \in {"bRead", "bCas", "dDelete"} => tombstone' # None
      BY <2>2, <2>3 DEF WitnessInv
    <2>5. QED
      BY <1>1, <2>2, <2>4 DEF WitnessInv
  <1>4. QED
    BY <1>2, <1>3

\* An acknowledged key that no raw delete touched is there or has a tombstone,
\* and every closed incarnation has one: read_state does not take a destroyed
\* key for one that never was.
THEOREM DestructionWitnessedTheorem == Spec => []DestructionWitnessed
  <1>1. Init => WitnessInv
    BY InitEra DEF Init, WitnessInv
  <1>2. WitnessInv => DestructionWitnessed
    <2> SUFFICES ASSUME WitnessInv, value = None, NEW a \in acked, a.inc \notin raw
                 PROVE  tombstone # None
      BY DEF WitnessInv, DestructionWitnessed
    <2>1. Landed(a) /\ a.inc \in Nat /\ counter \in Nat
      BY ControlFields, KeyspaceAssumption DEF WitnessInv, EraInv, TypeInv, TypeOK
    <2>2. a.inc # counter
      BY <2>1 DEF Landed, Clean
    <2>3. counter > 0
      BY <2>1, <2>2 DEF Landed
    <2>4. QED
      BY <2>3 DEF WitnessInv
  <1>3. QED
    BY <1>1, <1>2, NextWitness, PTL DEF Spec

-----------------------------------------------------------------------------
(* Writers.  In a clean incarnation versions only grow, so the bytes that  *)
(* a conditional request matches are the object it means, and no two calls *)
(* publish the same version.                                               *)

\* What client c's token and call know of what replaced the token's object.
FreshOK(c) ==
  /\ pc[c] \in Exchanging => token[c] = seen[c]
  /\ token[c] # None /\ Clean(token[c].inc) /\ c \in stale => value.ver > token[c].ver
  /\ pc[c] \notin {"xRecheck", "xEvict"} => c \notin crossed
  /\ pc[c] = "xRecheck" /\ Clean(seen[c].inc) => c \notin crossed

\* The version that client c is about to be told Ok for has no other writer, and
\* nobody was told Ok for it yet.
UniqueOK(c) ==
  pc[c] \in Rechecking /\ Clean(Pending(c).inc) =>
    /\ \A a \in acked : ~ SameVersion(a, Pending(c))
    /\ \A d \in Clients : d # c /\ pc[d] \in Rechecking =>
         ~ SameVersion(Pending(d), Pending(c))

WinnerInv == EraInv /\ \A c \in Clients : FreshOK(c) /\ UniqueOK(c)

\* An incarnation that is clean after a step was clean before it.
LEMMA CleanBefore ==
  ASSUME TypeOK, KeepsValue, NEW i \in Nat, i <= counter, Clean(i)'
  PROVE  Clean(i) /\ counter' = counter
  BY KeyspaceAssumption DEF TypeOK, KeepsValue, Clean

\* A token goes out of date only when the object it names is replaced.
LEMMA StepStale ==
  ASSUME TypeInv, NEW c \in Clients, Steps(c), NEW d \in Clients, d \in stale', d \notin stale
  PROVE  value # None /\ value' # value
  <1>0. TypeOK /\ CallOK(c)
    BY DEF TypeInv
  <1>1. ASSUME NEW v, Publish(v), v # value PROVE value # None /\ value' # value
    BY <1>1 DEF Publish
  <1>2. CASE Delete(c) \/ DeleteIfMatch(c)
    BY <1>1, <1>2 DEF Delete, DeleteIfMatch
  <1>3. ASSUME NEW v, DeleteConditional(v), v # None PROVE value # None /\ value' # value
    BY <1>3 DEF DeleteConditional, Publish
  <1>4. CASE CreatePut(c)
    BY <1>4 DEF CreatePut, Publish
  <1>5. CASE CreateEvict(c)
    <2>1. Created(c) # None
      BY <1>0, <1>5, CreatedType DEF CreateEvict, Creating
    <2>2. QED
      BY <1>3, <1>5, <2>1 DEF CreateEvict
  <1>6. CASE ExchangePut(c)
    <2>1. Exchanged(c).ver = seen[c].ver + 1 /\ seen[c].ver \in Nat
      BY <1>0, <1>6, ExchangedType, ControlFields, KeyspaceAssumption
      DEF ExchangePut, CallOK, Exchanging
    <2>2. Exchanged(c) # seen[c]
      BY <2>1
    <2>3. QED
      BY <1>1, <1>6, <2>2 DEF ExchangePut
  <1>7. CASE ExchangeEvict(c)
    <2>1. Exchanged(c) # None
      BY <1>0, <1>7, ExchangedType DEF ExchangeEvict
    <2>2. QED
      BY <1>3, <1>7, <2>1 DEF ExchangeEvict
  <1>8. CASE DestroyDelete(c)
    <2>1. seen[c] # None
      BY <1>0, <1>8, ControlFields DEF DestroyDelete, CallOK, Destroying
    <2>2. QED
      BY <1>3, <1>8, <2>1 DEF DestroyDelete
  <1>9. CASE GetWithEtag(c) \/ ExchangeRecheck(c)
    BY <1>9 DEF GetWithEtag, ExchangeRecheck
  <1>10. CASE \/ \E p \in Payloads : Create(c, p) \/ CompareExchange(c, p)
              \/ Destroy(c) \/ ReadState(c) \/ CreateReadEra(c) \/ CreateRecheck(c)
              \/ CreateLook(c) \/ ExchangeEra(c) \/ DestroyTombstone(c)
              \/ BumpRead(c) \/ BumpCas(c) \/ ReadTombstone(c) \/ Abort(c)
    BY <1>10
    DEF Create, CompareExchange, Destroy, ReadState, CreateReadEra, CreateRecheck,
        CreateLook, ExchangeEra, DestroyTombstone, BumpRead, BumpCas, ReadTombstone,
        Abort, ghosts
  <1>11. QED
    BY <1>2, <1>4, <1>5, <1>6, <1>7, <1>8, <1>9, <1>10 DEF Steps

\* A token that stays is older than the value once its object was replaced.
LEMMA StaleIsOlder ==
  ASSUME WinnerInv, NEW c \in Clients, Steps(c), NEW d \in Clients,
         token'[d] = token[d], token[d] # None, Clean(token[d].inc)', d \in stale'
  PROVE  value'.ver > token[d].ver
  <1>1. /\ TypeOK /\ TypeInv /\ EraOK(d) /\ FreshOK(d) /\ KeepsValue
    BY StepKeepsValue DEF WinnerInv, EraInv, TypeInv
  <1>2. /\ token[d] \in Controls /\ Landed(token[d])
        /\ token[d].inc \in Nat /\ token[d].ver \in Nat
    BY <1>1, ControlFields, KeyspaceAssumption DEF TypeOK, EraOK
  <1>3. ASSUME NEW i \in Nat, i = token[d].inc PROVE Clean(i) /\ counter' = counter /\ i \notin raw'
    <2>1. Clean(i)'
      BY <1>3 DEF Clean
    <2>2. QED
      BY <1>1, <1>2, <1>3, <2>1, CleanBefore DEF Landed, Clean
  <1>4. /\ Clean(token[d].inc) /\ counter' = counter /\ token[d].inc \notin raw'
    BY <1>2, <1>3
  <1>5. /\ value # None /\ value.inc = counter /\ counter \notin raw'
        /\ value.ver >= token[d].ver /\ value.ver \in Nat
    BY <1>1, <1>2, <1>4, ControlFields, KeyspaceAssumption DEF Landed, Clean, TypeOK
  <1>6. value' = value \/ value'.ver = value.ver + 1
    BY <1>1, <1>4, <1>5 DEF KeepsValue
  <1>7. CASE d \in stale
    <2>1. value.ver > token[d].ver
      BY <1>1, <1>4, <1>7 DEF FreshOK
    <2>2. QED
      BY <1>2, <1>5, <1>6, <2>1
  <1>8. CASE d \notin stale
    <2>1. value' # value
      BY <1>1, <1>8, StepStale
    <2>2. QED
      BY <1>2, <1>5, <1>6, <2>1
  <1>9. QED
    BY <1>7, <1>8

\* A client that takes no step learns nothing new of its token.
LEMMA OthersFreshOK ==
  ASSUME WinnerInv, NEW c \in Clients, Steps(c), NEW d \in Clients, d # c
  PROVE  FreshOK(d)'
  <1>1. /\ TypeOK /\ TypeInv /\ CallOK(d) /\ EraOK(d) /\ FreshOK(d) /\ KeepsValue
        /\ Private(d)' = Private(d)
    BY StepKeepsValue, StepIsPrivate DEF WinnerInv, EraInv, TypeInv
  <1>2. /\ pc'[d] = pc[d] /\ seen'[d] = seen[d] /\ token'[d] = token[d]
        /\ (d \in crossed') = (d \in crossed)
    BY <1>1 DEF Private
  <1>3. (token[d] # None /\ Clean(token[d].inc) /\ d \in stale => value.ver > token[d].ver)'
    BY <1>2, StaleIsOlder
  <1>4. (pc[d] = "xRecheck" /\ Clean(seen[d].inc) => d \notin crossed)'
    <2> SUFFICES ASSUME pc[d] = "xRecheck", Clean(seen[d].inc)' PROVE d \notin crossed
      BY <1>2
    <2>1. seen[d].inc \in Nat /\ seen[d].inc <= counter
      BY <1>1, ControlFields, KeyspaceAssumption DEF CallOK, EraOK, Landed, Exchanging
    <2>2. ASSUME NEW i \in Nat, i = seen[d].inc PROVE Clean(i)
      <3>1. Clean(i)'
        BY <1>2, <2>2 DEF Clean
      <3>2. QED
        BY <1>1, <2>1, <2>2, <3>1, CleanBefore
    <2>3. QED
      BY <1>1, <2>1, <2>2 DEF FreshOK
  <1>5. QED
    BY <1>1, <1>2, <1>3, <1>4 DEF FreshOK

\* A step keeps what the client that takes it knows of its token.
LEMMA StepFreshOK ==
  ASSUME WinnerInv, NEW c \in Clients, Steps(c)
  PROVE  FreshOK(c)'
  <1>0. /\ TypeOK /\ CallOK(c) /\ EraOK(c) /\ FreshOK(c) /\ EraInv
        /\ crossed \subseteq Clients
    BY DEF WinnerInv, EraInv, TypeInv, TypeOK
  <1>1. token'[c] = token[c] =>
          (token[c] # None /\ Clean(token[c].inc) /\ c \in stale => value.ver > token[c].ver)'
    BY StaleIsOlder
  <1> USE DEF Exchanging
  <1>2. ASSUME pc'[c] \notin Exchanging, token'[c] = token[c], c \notin crossed'
        PROVE  FreshOK(c)'
    BY <1>1, <1>2 DEF FreshOK
  <1>3. ASSUME pc'[c] \notin Exchanging, token'[c] = token[c], crossed' = crossed,
               pc[c] \notin {"xRecheck", "xEvict"}
        PROVE  FreshOK(c)'
    BY <1>0, <1>2, <1>3 DEF FreshOK
  <1>4. CASE \/ \E p \in Payloads : Create(c, p)
             \/ Delete(c) \/ DeleteIfMatch(c) \/ Destroy(c) \/ ReadState(c)
    BY <1>0, <1>3, <1>4
    DEF Create, Delete, DeleteIfMatch, Destroy, ReadState, Goto, TypeOK, locals, ghosts
  <1>5. CASE \/ CreateReadEra(c) \/ CreatePut(c) \/ CreateRecheck(c)
             \/ CreateLook(c) \/ CreateEvict(c)
    BY <1>0, <1>3, <1>5
    DEF CreateReadEra, CreatePut, CreateRecheck, CreateLook, CreateEvict, Goto, Return,
        TypeOK, ghosts
  <1>6. CASE \/ DestroyTombstone(c) \/ BumpRead(c) \/ BumpCas(c) \/ DestroyDelete(c)
             \/ ReadTombstone(c)
    BY <1>0, <1>3, <1>6
    DEF DestroyTombstone, BumpRead, BumpCas, DestroyDelete, ReadTombstone, Goto, Return,
        TypeOK, ghosts
  <1>7. CASE ExchangeEvict(c) \/ Abort(c)
    <2>1. pc'[c] = "idle" /\ UNCHANGED token /\ c \notin crossed'
      BY <1>0, <1>7 DEF ExchangeEvict, Abort, Return, TypeOK
    <2>2. QED
      BY <1>2, <2>1
  <1>8. ASSUME NEW p \in Payloads, CompareExchange(c, p) PROVE FreshOK(c)'
    <2>1. /\ pc[c] = "idle" /\ pc'[c] = "xEra" /\ seen'[c] = token[c]
          /\ UNCHANGED <<token, crossed>>
      BY <1>0, <1>8 DEF CompareExchange, Goto, TypeOK, ghosts
    <2>2. QED
      BY <1>0, <1>1, <2>1 DEF FreshOK
  <1>9. CASE GetWithEtag(c)
    <2>1. pc[c] = "idle" /\ pc'[c] = "idle" /\ UNCHANGED crossed /\ c \notin stale'
      BY <1>9 DEF GetWithEtag, locals
    <2>2. QED
      BY <1>0, <2>1 DEF FreshOK
  <1>10. CASE ExchangeEra(c)
    <2>1. /\ pc[c] = "xEra" /\ UNCHANGED <<token, crossed>>
          /\ pc'[c] = "idle" \/ (pc'[c] = "xPut" /\ UNCHANGED seen)
      BY <1>0, <1>10 DEF ExchangeEra, Goto, Return, TypeOK, ghosts
    <2>2. QED
      BY <1>0, <1>1, <1>3, <2>1 DEF FreshOK
  <1>11. CASE ExchangePut(c)
    <2>1. CASE Return(c) /\ UNCHANGED crossed
      <3>1. pc[c] = "xPut" /\ pc'[c] = "idle" /\ UNCHANGED token
        BY <1>0, <1>11, <2>1 DEF ExchangePut, Return, TypeOK
      <3>2. QED
        BY <1>3, <2>1, <3>1
    <2>2. CASE value = seen[c] /\ Goto(c, "xRecheck") /\ UNCHANGED seen
      <3>1. /\ pc[c] = "xPut" /\ pc'[c] = "xRecheck" /\ UNCHANGED <<token, counter, raw>>
            /\ token[c] = seen[c] /\ value = token[c] /\ token[c] # None
            /\ c \notin crossed
        BY <1>0, <1>11, <2>2, ControlFields DEF ExchangePut, Goto, TypeOK, CallOK, FreshOK
      <3>2. Clean(seen[c].inc) => c \notin stale
        <4>1. value.ver \in Nat
          BY <1>0, <3>1, ControlFields, KeyspaceAssumption DEF TypeOK
        <4>2. QED
          BY <1>0, <3>1, <4>1 DEF FreshOK
      <3>3. crossed' = IF c \in stale THEN crossed \cup {c} ELSE crossed
        BY <1>11, <2>2 DEF ExchangePut
      <3>4. (Clean(seen[c].inc) => c \notin crossed)'
        BY <2>2, <3>1, <3>2, <3>3 DEF Clean
      <3>5. QED
        BY <1>1, <2>2, <3>1, <3>4 DEF FreshOK
    <2>3. QED
      BY <1>11, <2>1, <2>2 DEF ExchangePut
  <1>12. CASE ExchangeRecheck(c)
    <2>0. /\ pc[c] = "xRecheck" /\ Landed(Exchanged(c)) /\ UNCHANGED <<value, counter, raw>>
          /\ Exchanged(c).ver \in Nat
          /\ value # None => value.ver \in Nat
      BY <1>0, <1>12, ExchangedType, ControlFields, KeyspaceAssumption
      DEF ExchangeRecheck, EraOK, Pending, Rechecking, TypeOK, store
    <2>1. CASE Return(c) /\ token'[c] = Exchanged(c) /\ crossed' = crossed \ {c}
               /\ stale' = IF value = Exchanged(c) THEN stale \ {c} ELSE stale
      <3>1. pc'[c] = "idle" /\ c \notin crossed'
        BY <1>0, <2>1 DEF Return, TypeOK
      <3>2. Clean(Exchanged(c).inc) /\ c \in stale' => value.ver > Exchanged(c).ver
        BY <2>0, <2>1 DEF Landed
      <3>3. (token[c] # None /\ Clean(token[c].inc) /\ c \in stale => value.ver > token[c].ver)'
        BY <2>0, <2>1, <3>2 DEF Clean
      <3>4. QED
        BY <3>1, <3>3 DEF FreshOK
    <2>2. CASE counter # seen[c].inc /\ Goto(c, "xEvict") /\ UNCHANGED <<seen, token, crossed>>
      <3>1. pc'[c] = "xEvict"
        BY <1>0, <2>2 DEF Goto, TypeOK
      <3>2. QED
        BY <1>0, <1>1, <2>0, <2>2, <3>1 DEF FreshOK
    <2>3. QED
      BY <1>0, <1>12, <2>1, <2>2 DEF ExchangeRecheck, TypeOK
  <1>13. QED
    BY <1>4, <1>5, <1>6, <1>7, <1>8, <1>9, <1>10, <1>11, <1>12 DEF Steps

\* A call that comes to its second look at the counter has just published what
\* it is to acknowledge, over nothing or over the version before.
LEMMA StepPublishes ==
  ASSUME TypeInv, NEW c \in Clients, Steps(c), pc'[c] \in Rechecking
  PROVE  /\ pc[c] \notin Rechecking
         /\ value' = Pending(c)' /\ value' \in Controls
         /\ UNCHANGED <<counter, raw, acked>>
         /\ value = None \/ (value \in Controls /\ value'.ver = value.ver + 1)
  <1>0. TypeOK /\ CallOK(c)
    BY DEF TypeInv
  <1> USE DEF Rechecking
  <1>1. CASE CreatePut(c)
    <2>1. /\ pc[c] = "cPut" /\ pc'[c] = "cRecheck" /\ value = None /\ value' = Created(c)
          /\ UNCHANGED <<era, data, counter, raw, acked>>
      BY <1>0, <1>1 DEF CreatePut, Publish, Goto, Return, TypeOK
    <2>2. QED
      BY <1>0, <2>1, CreatedType DEF Creating, Pending, Created
  <1>2. CASE ExchangePut(c)
    <2>1. /\ pc[c] = "xPut" /\ pc'[c] = "xRecheck" /\ value = seen[c] /\ value' = Exchanged(c)
          /\ UNCHANGED <<seen, data, counter, raw, acked>>
      BY <1>0, <1>2 DEF ExchangePut, Publish, Goto, Return, TypeOK
    <2>2. /\ Exchanged(c) \in Controls /\ Exchanged(c).ver = seen[c].ver + 1
          /\ seen[c] \in Controls
      BY <1>0, <2>1, ExchangedType DEF CallOK, Exchanging
    <2>3. Pending(c)' = Exchanged(c)
      BY <2>1 DEF Pending, Exchanged
    <2>4. QED
      BY <2>1, <2>2, <2>3
  <1>3. CASE \/ \E p \in Payloads : Create(c, p) \/ CompareExchange(c, p)
             \/ Delete(c) \/ DeleteIfMatch(c) \/ Destroy(c) \/ GetWithEtag(c) \/ ReadState(c)
    BY <1>0, <1>3
    DEF Create, CompareExchange, Delete, DeleteIfMatch, Destroy, GetWithEtag, ReadState,
        Goto, TypeOK, locals
  <1>4. CASE \/ CreateReadEra(c) \/ CreateRecheck(c) \/ CreateLook(c) \/ CreateEvict(c)
             \/ ExchangeEra(c) \/ ExchangeRecheck(c) \/ ExchangeEvict(c)
    BY <1>0, <1>4
    DEF CreateReadEra, CreateRecheck, CreateLook, CreateEvict, ExchangeEra, ExchangeRecheck,
        ExchangeEvict, Goto, Return, TypeOK
  <1>5. CASE \/ DestroyTombstone(c) \/ BumpRead(c) \/ BumpCas(c) \/ DestroyDelete(c)
             \/ ReadTombstone(c) \/ Abort(c)
    BY <1>0, <1>5
    DEF DestroyTombstone, BumpRead, BumpCas, DestroyDelete, ReadTombstone, Abort, Goto,
        Return, TypeOK
  <1>6. QED
    BY <1>1, <1>2, <1>3, <1>4, <1>5 DEF Steps

\* What is published over nothing, or over the version before, is new to a clean
\* incarnation: nothing that landed in it has the same version.
LEMMA PublishedIsNew ==
  ASSUME NEW v \in Controls, Landed(v), Clean(v.inc),
         value = None \/ (value \in Controls /\ value'.ver = value.ver + 1)
  PROVE  ~ SameVersion(v, value')
  <1>1. value # None /\ value.ver >= v.ver /\ v.ver \in Nat
    BY ControlFields, KeyspaceAssumption DEF Landed
  <1>2. value \in Controls /\ value.ver \in Nat /\ value'.ver = value.ver + 1
    BY <1>1, ControlFields, KeyspaceAssumption
  <1>3. QED
    BY <1>1, <1>2 DEF SameVersion

LEMMA StepUniqueOK ==
  ASSUME WinnerInv, NEW c \in Clients, Steps(c), NEW d \in Clients
  PROVE  UniqueOK(d)'
  <1>0. /\ TypeOK /\ TypeInv /\ EraInv /\ KeepsValue
        /\ \A e \in Clients : CallOK(e) /\ EraOK(e) /\ UniqueOK(e)
    BY StepKeepsValue DEF WinnerInv, EraInv, TypeInv
  <1>1. \A e \in Clients : pc[e] \in Rechecking =>
          /\ Pending(e) \in Controls /\ Landed(Pending(e))
          /\ Pending(e).inc \in Nat /\ Pending(e).inc <= counter
    <2> SUFFICES ASSUME NEW e \in Clients, pc[e] \in Rechecking
                 PROVE  /\ Pending(e) \in Controls /\ Landed(Pending(e))
                        /\ Pending(e).inc \in Nat /\ Pending(e).inc <= counter
      OBVIOUS
    <2>1. Pending(e) \in Controls /\ Landed(Pending(e))
      BY <1>0, CreatedType, ExchangedType DEF EraOK, Rechecking, Creating, Pending
    <2>2. QED
      BY <2>1, ControlFields, KeyspaceAssumption DEF Landed
  <1>2. \A e \in Clients : e # c => pc'[e] = pc[e] /\ Pending(e)' = Pending(e)
    <2> SUFFICES ASSUME NEW e \in Clients, e # c
                 PROVE  pc'[e] = pc[e] /\ Pending(e)' = Pending(e)
      OBVIOUS
    <2>1. Private(e)' = Private(e)
      BY <1>0, StepIsPrivate
    <2>2. QED
      BY <2>1 DEF Private, Pending, Created, Exchanged
  <1>3. \A i \in Nat : i <= counter /\ Clean(i)' => Clean(i)
    BY <1>0, CleanBefore
  <1>4. SUFFICES ASSUME pc'[d] \in Rechecking, Clean(Pending(d).inc)'
                 PROVE  /\ \A a \in acked' : ~ SameVersion(a, Pending(d)')
                        /\ \A e \in Clients : e # d /\ pc'[e] \in Rechecking =>
                             ~ SameVersion(Pending(e)', Pending(d)')
    BY DEF UniqueOK, SameVersion
  <1>5. ASSUME d # c
        PROVE  /\ pc[d] \in Rechecking /\ Pending(d)' = Pending(d)
               /\ Clean(Pending(d).inc)
               /\ \A a \in acked : ~ SameVersion(a, Pending(d))
    <2>1. pc[d] \in Rechecking /\ Pending(d)' = Pending(d)
      BY <1>2, <1>4, <1>5
    <2>2. ASSUME NEW i \in Nat, i = Pending(d).inc PROVE Clean(i)
      <3>1. Clean(i)'
        BY <1>4, <2>1, <2>2 DEF Clean
      <3>2. QED
        BY <1>1, <1>3, <2>1, <2>2, <3>1
    <2>3. Clean(Pending(d).inc)
      BY <1>1, <2>1, <2>2
    <2>4. QED
      BY <1>0, <2>1, <2>3 DEF UniqueOK
  <1>6. CASE pc'[c] \in Rechecking
    <2>1. /\ value' = Pending(c)' /\ UNCHANGED <<counter, raw, acked>>
          /\ value = None \/ (value \in Controls /\ value'.ver = value.ver + 1)
      BY <1>0, <1>6, StepPublishes
    <2>2. \A v \in Controls : Landed(v) /\ Clean(v.inc) => ~ SameVersion(v, Pending(c)')
      BY <2>1, PublishedIsNew
    <2>3. CASE d = c
      <3>1. ASSUME NEW v \in Controls, Landed(v), SameVersion(v, Pending(d)') PROVE FALSE
        <4>1. Clean(v.inc)
          BY <1>4, <2>1, <3>1 DEF Clean, SameVersion
        <4>2. QED
          BY <2>2, <2>3, <3>1, <4>1
      <3>2. \A a \in acked : a \in Controls /\ Landed(a)
        BY <1>0 DEF EraInv, TypeOK
      <3>3. QED
        BY <1>1, <1>2, <2>1, <2>3, <3>1, <3>2
    <2>4. CASE d # c
      <3>1. ~ SameVersion(Pending(c)', Pending(d)')
        BY <1>1, <1>5, <2>2, <2>4 DEF SameVersion
      <3>2. ASSUME NEW e \in Clients, e # d, e # c, pc'[e] \in Rechecking
            PROVE  ~ SameVersion(Pending(e)', Pending(d)')
        BY <1>0, <1>2, <1>5, <2>4, <3>2 DEF UniqueOK
      <3>3. QED
        BY <1>5, <2>1, <2>4, <3>1, <3>2
    <2>5. QED
      BY <2>3, <2>4
  <1>7. CASE pc'[c] \notin Rechecking
    <2>1. d # c
      BY <1>4, <1>7
    <2>2. ASSUME NEW e \in Clients, e # d, pc'[e] \in Rechecking
          PROVE  ~ SameVersion(Pending(e)', Pending(d)')
      BY <1>0, <1>2, <1>5, <1>7, <2>1, <2>2 DEF UniqueOK
    <2>3. \A a \in acked' : ~ SameVersion(a, Pending(d)')
      <3>1. CASE acked' = acked
        BY <1>5, <2>1, <3>1
      <3>2. CASE pc[c] \in Rechecking /\ acked' = acked \cup {Pending(c)}
        BY <1>0, <1>5, <2>1, <3>2 DEF UniqueOK
      <3>3. QED
        BY <1>0, <3>1, <3>2, StepAcks
    <2>4. QED
      BY <2>2, <2>3
  <1>8. QED
    BY <1>6, <1>7

LEMMA NextWinner == WinnerInv /\ [Next]_vars => WinnerInv'
  <1> SUFFICES ASSUME WinnerInv, [Next]_vars PROVE WinnerInv'
    OBVIOUS
  <1>1. EraInv'
    BY NextEra DEF WinnerInv
  <1>2. CASE UNCHANGED vars
    BY <1>1, <1>2
    DEF vars, WinnerInv, FreshOK, UniqueOK, Clean, Pending, Created, Exchanged
  <1>3. CASE Next
    <2>1. PICK c \in Clients : Steps(c)
      BY <1>3, NextSteps
    <2>2. \A d \in Clients : FreshOK(d)' /\ UniqueOK(d)'
      BY <2>1, StepFreshOK, OthersFreshOK, StepUniqueOK
    <2>3. QED
      BY <1>1, <2>2 DEF WinnerInv
  <1>4. QED
    BY <1>2, <1>3

LEMMA WinnerInvariant == Spec => []WinnerInv
  <1>1. Init => WinnerInv
    BY InitEra DEF Init, WinnerInv, FreshOK, UniqueOK, Exchanging, Rechecking
  <1>2. QED
    BY <1>1, NextWinner, PTL DEF Spec

\* A version of an incarnation without raw deletes is acknowledged to one writer
\* only, however creates, exchanges, destroys and crashes interleave.
THEOREM OneWinnerTheorem == Spec => OneWinnerPerVersion
  <1> DEFINE Step == \A c \in Clients : pc'[c] = "idle" =>
        /\ CreateRecheck(c) /\ era[c] \notin raw =>
             \A a \in acked : ~ SameVersion(a, Created(c))
        /\ ExchangeRecheck(c) /\ seen[c].inc \notin raw =>
             \A a \in acked : ~ SameVersion(a, Exchanged(c))
  <1>1. WinnerInv => Step
    <2> SUFFICES ASSUME WinnerInv, NEW c \in Clients, pc'[c] = "idle"
                 PROVE  /\ CreateRecheck(c) /\ era[c] \notin raw =>
                             \A a \in acked : ~ SameVersion(a, Created(c))
                        /\ ExchangeRecheck(c) /\ seen[c].inc \notin raw =>
                             \A a \in acked : ~ SameVersion(a, Exchanged(c))
      OBVIOUS
    <2>0. TypeOK /\ CallOK(c) /\ UniqueOK(c)
      BY DEF WinnerInv, EraInv, TypeInv
    <2>1. ASSUME CreateRecheck(c), era[c] \notin raw
          PROVE  \A a \in acked : ~ SameVersion(a, Created(c))
      <3>1. pc[c] = "cRecheck" /\ counter = era[c] /\ Created(c).inc = era[c]
        BY <2>0, <2>1, CreatedType DEF CreateRecheck, Goto, TypeOK, Creating
      <3>2. QED
        BY <2>0, <2>1, <3>1 DEF UniqueOK, Pending, Clean, Rechecking
    <2>2. ASSUME ExchangeRecheck(c), seen[c].inc \notin raw
          PROVE  \A a \in acked : ~ SameVersion(a, Exchanged(c))
      <3>1. pc[c] = "xRecheck" /\ counter = seen[c].inc /\ Exchanged(c).inc = seen[c].inc
        BY <2>0, <2>2, ExchangedType DEF ExchangeRecheck, Goto, TypeOK
      <3>2. QED
        BY <2>0, <2>2, <3>1 DEF UniqueOK, Pending, Clean, Rechecking
    <2>3. QED
      BY <2>1, <2>2
  <1>2. WinnerInv => [Step]_vars
    BY <1>1
  <1>3. QED
    BY <1>2, WinnerInvariant, PTL DEF OneWinnerPerVersion

\* An acknowledged exchange replaced the object its caller had read, and not a
\* later one with the same ETag.
THEOREM AckedExchangeIsFreshTheorem == Spec => AckedExchangeIsFresh
  <1> DEFINE Step == \A c \in Clients :
        ExchangeRecheck(c) /\ pc'[c] = "idle" /\ seen[c].inc \notin raw => c \notin crossed
  <1>1. WinnerInv => [Step]_vars
    <2> SUFFICES ASSUME WinnerInv, NEW c \in Clients, ExchangeRecheck(c), pc'[c] = "idle",
                        seen[c].inc \notin raw
                 PROVE  c \notin crossed
      OBVIOUS
    <2>1. TypeOK /\ FreshOK(c)
      BY DEF WinnerInv, EraInv, TypeInv
    <2>2. pc[c] = "xRecheck" /\ counter = seen[c].inc
      BY <2>1 DEF ExchangeRecheck, Goto, TypeOK
    <2>3. QED
      BY <2>1, <2>2 DEF FreshOK, Clean
  <1>2. QED
    BY <1>1, WinnerInvariant, PTL DEF AckedExchangeIsFresh

==============================================================================
