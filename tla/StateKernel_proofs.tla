-------------------------- MODULE StateKernel_proofs --------------------------
(***************************************************************************)
(* Proofs about StateKernel for any clients, payloads and bounds.          *)
(***************************************************************************)
EXTENDS StateKernel, TLAPS

-----------------------------------------------------------------------------
(* Records.                                                                *)

\* A record's chain has between 1 and MaxGen + 1 records.
LEMMA RecordShape ==
  ASSUME NEW r \in Records
  PROVE  /\ Len(r) \in 1..(MaxGen + 1)
         /\ DOMAIN r = 1..Len(r)
         /\ r \in [1..Len(r) -> Payloads]
  <1>1. PICK n \in 1..(MaxGen + 1) : r \in [1..n -> Payloads]
    BY DEF Records
  <1>2. n \in Nat
    BY <1>1, BoundsAssumption
  <1>3. r \in Seq(Payloads) /\ Len(r) = n
    BY <1>1, <1>2
  <1>4. QED
    BY <1>1, <1>3

\* The ancestors of a record are records.
LEMMA PrefixIsRecord ==
  ASSUME NEW r \in Records, NEW n \in 1..Len(r)
  PROVE  Prefix(r, n) \in Records
  <1>1. n \in 1..(MaxGen + 1) /\ \A i \in 1..n : r[i] \in Payloads
    BY RecordShape, BoundsAssumption
  <1>2. Prefix(r, n) \in [1..n -> Payloads]
    BY <1>1 DEF Prefix
  <1>3. QED
    BY <1>1, <1>2 DEF Records

\* A record is the last of its own chain.
LEMMA PrefixWhole ==
  ASSUME NEW r \in Records
  PROVE  Prefix(r, Len(r)) = r
  BY RecordShape DEF Prefix

LEMMA ExtendsReflexive == \A r : Extends(r, r)
  BY DEF Extends

LEMMA ExtendsTransitive ==
  \A r, s, t : Extends(t, s) /\ Extends(s, r) => Extends(t, r)
  BY DEF Extends

\* A record that extends another one is that one or is longer.
LEMMA ProperExtension ==
  ASSUME NEW r \in Records, NEW s \in Records, Extends(r, s), r # s
  PROVE  Len(s) < Len(r)
  <1>1. /\ DOMAIN r = 1..Len(r) /\ Len(r) \in Nat \ {0} /\ r \in [1..Len(r) -> Payloads]
        /\ DOMAIN s = 1..Len(s) /\ Len(s) \in Nat \ {0} /\ s \in [1..Len(s) -> Payloads]
    BY RecordShape, BoundsAssumption
  <1>2. Len(s) <= Len(r)
    <2>1. Len(s) \in 1..Len(r)
      BY <1>1 DEF Extends
    <2>2. QED
      BY <1>1, <2>1
  <1>3. Len(s) # Len(r)
    <2>1. SUFFICES ASSUME Len(s) = Len(r) PROVE r = s
      OBVIOUS
    <2>2. QED
      BY <1>1, <2>1 DEF Extends
  <1>4. Len(r) \in Nat /\ Len(s) \in Nat
    BY <1>1
  <1>5. QED
    BY <1>2, <1>3, <1>4

\* Two ancestors of one record are ancestors of one another.
LEMMA AncestorsComparable ==
  ASSUME NEW r \in Records, NEW s \in Records, NEW t \in Records,
         Extends(t, r), Extends(t, s)
  PROVE  Extends(r, s) \/ Extends(s, r)
  <1>1. /\ DOMAIN r = 1..Len(r) /\ Len(r) \in Nat
        /\ DOMAIN s = 1..Len(s) /\ Len(s) \in Nat
    BY RecordShape, BoundsAssumption
  <1>2. CASE Len(r) <= Len(s)
    BY <1>1, <1>2 DEF Extends
  <1>3. CASE Len(s) <= Len(r)
    BY <1>1, <1>3 DEF Extends
  <1>4. QED
    BY <1>1, <1>2, <1>3

-----------------------------------------------------------------------------
(* Types, with what a call's locals hold while it is under way.            *)

Creating == {"cReadEra", "cPut", "cRecheck", "cEvict"}
Succeeding == {"sLoad", "sPublish", "sReplace", "sRecheck", "sEvict"}
Destroying == {"dTombstone", "bRead", "bCas", "dDelete"}

\* What client c's call knows of its own locals.
CallOK(c) ==
  /\ pc[c] \in Creating \cup Succeeding \cup {"gPublish"} => target[c] \in Records
  /\ pc[c] \in Succeeding \cup Destroying => seen[c] \in Heads
  /\ pc[c] \in {"gPublish", "sPublish"} => done[c] < Len(target[c])
  /\ pc[c] \in Succeeding => Extends(target[c], seen[c].rec)
  /\ pc[c] = "bCas" => era[c] < MaxInc

LocalsOK == \A c \in Clients : CallOK(c)

TypeInv == TypeOK /\ LocalsOK

LEMMA HeadV2Type ==
  ASSUME NEW i \in 0..MaxInc, NEW r \in Records
  PROVE  /\ HeadV2(i, r) \in Heads
         /\ HeadV2(i, r) # None
         /\ HeadV2(i, r).inc = i
         /\ HeadV2(i, r).rec = r
  BY NoneAssumption DEF HeadV2, Heads

LEMMA SuccessorHeadType ==
  ASSUME NEW h \in Heads, NEW r \in Records
  PROVE  /\ SuccessorHead(h, r) \in Heads
         /\ SuccessorHead(h, r) # None
         /\ SuccessorHead(h, r).inc = h.inc
         /\ SuccessorHead(h, r).rec = r
  BY NoneAssumption DEF SuccessorHead, Heads

LEMMA HeadFields ==
  ASSUME NEW h \in Heads
  PROVE  h.inc \in 0..MaxInc /\ h.rec \in Records
  BY DEF Heads

LEMMA InitType == Init => TypeInv
  <1> SUFFICES ASSUME Init PROVE TypeInv
    OBVIOUS
  <1>1. \A p \in Payloads : Genesis(p) \in Records
    BY BoundsAssumption DEF Records, Genesis
  <1>2. head \in Heads \cup {None}
    BY <1>1, BoundsAssumption DEF Init, Heads
  <1>3. acked \subseteq [inc : 0..MaxInc, rec : Records] /\ objects \subseteq Records
    BY <1>1, BoundsAssumption DEF Init
  <1>4. QED
    BY <1>2, <1>3, BoundsAssumption
    DEF Init, TypeInv, TypeOK, LocalsOK, CallOK, PCs, Creating, Succeeding, Destroying

\* A step of client c, by action.
Steps(c) ==
  \/ \E r \in Records : PublishRecord(c, r)
  \/ \E r \in Records : AppendGenesis(c, r)
  \/ \E r \in Records : AppendSuccessor(c, r)
  \/ Destroy(c) \/ ReadHead(c) \/ ReadHeadState(c)
  \/ GenesisPublish(c) \/ SuccessorPublish(c)
  \/ CreateReadEra(c) \/ CreatePut(c) \/ CreateRecheck(c) \/ CreateEvict(c)
  \/ SuccessorLoadHead(c) \/ ReplaceHead(c)
  \/ SuccessorRecheck(c) \/ SuccessorEvict(c)
  \/ DestroyTombstone(c) \/ BumpRead(c) \/ BumpCas(c) \/ DestroyDelete(c)
  \/ ReadTombstone(c) \/ Abort(c)

LEMMA NextSteps == Next => \E c \in Clients : Steps(c)
  BY DEF Next, Call, CallStep, Steps

\* The locals and the token of client d.
Private(d) == <<pc[d], era[d], target[d], done[d], seen[d], tries[d], token[d]>>

\* A step of one client leaves the others' locals and tokens alone.
LEMMA StepIsPrivate ==
  ASSUME TypeOK, NEW c \in Clients, Steps(c), NEW d \in Clients, d # c
  PROVE  Private(d)' = Private(d)
  <1> USE DEF TypeOK, Private
  <1>1. CASE \E r \in Records : PublishRecord(c, r)
    BY <1>1 DEF PublishRecord, locals
  <1>2. CASE \E r \in Records : AppendGenesis(c, r)
    BY <1>2 DEF AppendGenesis, Goto
  <1>3. CASE \E r \in Records : AppendSuccessor(c, r)
    BY <1>3 DEF AppendSuccessor, Goto
  <1>4. CASE Destroy(c) \/ ReadHead(c) \/ ReadHeadState(c)
    BY <1>4 DEF Destroy, ReadHead, ReadHeadState, Goto, locals
  <1>5. CASE GenesisPublish(c) \/ SuccessorPublish(c)
    BY <1>5 DEF GenesisPublish, SuccessorPublish, PublishNext, Goto
  <1>6. CASE CreateReadEra(c) \/ CreatePut(c)
    BY <1>6 DEF CreateReadEra, CreatePut, Goto, Return
  <1>7. CASE CreateRecheck(c) \/ CreateEvict(c)
    BY <1>7 DEF CreateRecheck, CreateEvict, Acknowledge, Goto, Return
  <1>8. CASE SuccessorLoadHead(c) \/ ReplaceHead(c)
    BY <1>8 DEF SuccessorLoadHead, ReplaceHead, Goto, Return
  <1>9. CASE SuccessorRecheck(c) \/ SuccessorEvict(c)
    BY <1>9 DEF SuccessorRecheck, SuccessorEvict, Acknowledge, Goto, Return
  <1>10. CASE DestroyTombstone(c) \/ BumpRead(c)
    BY <1>10 DEF DestroyTombstone, BumpRead, Goto, Return
  <1>11. CASE BumpCas(c) \/ DestroyDelete(c)
    BY <1>11 DEF BumpCas, DestroyDelete, Goto, Return
  <1>12. CASE ReadTombstone(c) \/ Abort(c)
    BY <1>12 DEF ReadTombstone, Abort, Return
  <1>13. QED
    BY <1>1, <1>2, <1>3, <1>4, <1>5, <1>6, <1>7, <1>8, <1>9, <1>10, <1>11, <1>12
    DEF Steps

\* A step keeps the types, and what the client that takes it knows.
LEMMA StepType ==
  ASSUME TypeInv, NEW c \in Clients, Steps(c)
  PROVE  TypeOK' /\ CallOK(c)'
  <1>0. TypeOK /\ CallOK(c)
    BY DEF TypeInv, LocalsOK
  <1> USE BoundsAssumption DEF Creating, Succeeding, Destroying
  <1>1. ASSUME NEW r \in Records, PublishRecord(c, r)
        PROVE  TypeOK' /\ CallOK(c)'
    <2>8. TypeOK'
      BY <1>0, <1>1 DEF TypeOK, PCs, PublishRecord, locals
    <2>9. CallOK(c)'
      BY <1>0, <1>1 DEF TypeOK, CallOK, PublishRecord, locals
    <2> QED
      BY <2>8, <2>9
  <1>2. ASSUME NEW r \in Records, AppendGenesis(c, r)
        PROVE  TypeOK' /\ CallOK(c)'
    <2>1. Len(r) \in 1..(MaxGen + 1) /\ Prefix(r, 1) \in Records
      BY RecordShape, PrefixIsRecord
    <2>8. TypeOK'
      BY <1>0, <1>2, <2>1 DEF TypeOK, PCs, AppendGenesis, Goto
    <2>3. /\ target'[c] = r
          /\ done'[c] = 1
          /\ pc'[c] = IF Len(r) = 1 THEN "cReadEra" ELSE "gPublish"
      BY <1>0, <1>2 DEF TypeOK, AppendGenesis, Goto
    <2>4. ASSUME Len(r) = 1 PROVE CallOK(c)'
      BY <2>3, <2>4 DEF CallOK
    <2>5. ASSUME Len(r) # 1 PROVE CallOK(c)'
      <3>1. \A n \in 1..(MaxGen + 1) : n # 1 => 1 < n
        OBVIOUS
      <3>2. 1 < Len(r)
        BY ONLY <2>1, <2>5, <3>1, Zenon
      <3>3. QED
        BY <2>3, <2>5, <3>2 DEF CallOK
    <2>9. CallOK(c)'
      BY <2>4, <2>5
    <2> QED
      BY <2>8, <2>9
  <1>3. ASSUME NEW r \in Records, AppendSuccessor(c, r)
        PROVE  TypeOK' /\ CallOK(c)'
    <2>8. TypeOK'
      BY <1>0, <1>3 DEF TypeOK, PCs, AppendSuccessor, ValidBatch, Goto, store
    <2>9. CallOK(c)'
      BY <1>0, <1>3 DEF TypeOK, CallOK, AppendSuccessor, ValidBatch, Goto, store
    <2> QED
      BY <2>8, <2>9
  <1>4. CASE Destroy(c)
    <2>8. TypeOK'
      BY <1>0, <1>4 DEF TypeOK, PCs, Destroy, Goto, store
    <2>9. CallOK(c)'
      BY <1>0, <1>4 DEF TypeOK, CallOK, Destroy, Goto, store
    <2> QED
      BY <2>8, <2>9
  <1>5. CASE ReadHead(c)
    <2>8. TypeOK'
      BY <1>0, <1>5 DEF TypeOK, PCs, ReadHead, store, locals
    <2>9. CallOK(c)'
      BY <1>0, <1>5 DEF TypeOK, CallOK, ReadHead, store, locals
    <2> QED
      BY <2>8, <2>9
  <1>6. CASE ReadHeadState(c)
    <2>8. TypeOK'
      BY <1>0, <1>6 DEF TypeOK, PCs, ReadHeadState, Goto, store
    <2>9. CallOK(c)'
      BY <1>0, <1>6 DEF TypeOK, CallOK, ReadHeadState, Goto, store
    <2> QED
      BY <2>8, <2>9
  <1>7. CASE GenesisPublish(c)
    <2>1. /\ Len(target[c]) \in 1..(MaxGen + 1)
          /\ done[c] + 1 \in 1..Len(target[c])
      BY <1>0, <1>7, RecordShape DEF TypeOK, CallOK, GenesisPublish
    <2>2. Prefix(target[c], done[c] + 1) \in Records
      BY <1>0, <1>7, <2>1, PrefixIsRecord DEF TypeOK, CallOK, GenesisPublish
    <2>8. TypeOK'
      BY <1>0, <1>7, <2>1, <2>2 DEF TypeOK, PCs, GenesisPublish, PublishNext, Goto
    <2>9. CallOK(c)'
      BY <1>0, <1>7, <2>1, <2>2 DEF TypeOK, CallOK, GenesisPublish, PublishNext, Goto
    <2> QED
      BY <2>8, <2>9
  <1>8. CASE SuccessorPublish(c)
    <2>1. /\ Len(target[c]) \in 1..(MaxGen + 1)
          /\ done[c] + 1 \in 1..Len(target[c])
      BY <1>0, <1>8, RecordShape DEF TypeOK, CallOK, SuccessorPublish
    <2>2. Prefix(target[c], done[c] + 1) \in Records
      BY <1>0, <1>8, <2>1, PrefixIsRecord DEF TypeOK, CallOK, SuccessorPublish
    <2>8. TypeOK'
      BY <1>0, <1>8, <2>1, <2>2 DEF TypeOK, PCs, SuccessorPublish, PublishNext, Goto
    <2>9. CallOK(c)'
      BY <1>0, <1>8, <2>1, <2>2 DEF TypeOK, CallOK, SuccessorPublish, PublishNext, Goto
    <2> QED
      BY <2>8, <2>9
  <1>9. CASE CreateReadEra(c)
    <2>8. TypeOK'
      BY <1>0, <1>9 DEF TypeOK, PCs, CreateReadEra, Return, Goto, store
    <2>9. CallOK(c)'
      BY <1>0, <1>9 DEF TypeOK, CallOK, CreateReadEra, Return, Goto, store
    <2> QED
      BY <2>8, <2>9
  <1>10. CASE CreatePut(c)
    <2>1. head' \in Heads \cup {None}
      BY <1>0, <1>10, HeadV2Type DEF TypeOK, CallOK, CreatePut
    <2>8. TypeOK'
      BY <1>0, <1>10, <2>1 DEF TypeOK, PCs, CreatePut, Return, Goto
    <2>9. CallOK(c)'
      BY <1>0, <1>10, <2>1 DEF TypeOK, CallOK, CreatePut, Return, Goto
    <2> QED
      BY <2>8, <2>9
  <1>11. CASE CreateRecheck(c)
    <2>1. /\ HeadV2(era[c], target[c]) \in Heads
          /\ HeadV2(era[c], target[c]).inc \in 0..MaxInc
          /\ HeadV2(era[c], target[c]).rec \in Records
      BY <1>0, <1>11, HeadV2Type, HeadFields DEF TypeOK, CallOK, CreateRecheck
    <2>8. TypeOK'
      BY <1>0, <1>11, <2>1 DEF TypeOK, PCs, CreateRecheck, Acknowledge, Return, Goto, store
    <2>9. CallOK(c)'
      BY <1>0, <1>11, <2>1 DEF TypeOK, CallOK, CreateRecheck, Acknowledge, Return, Goto, store
    <2> QED
      BY <2>8, <2>9
  <1>12. CASE CreateEvict(c)
    <2>8. TypeOK'
      BY <1>0, <1>12 DEF TypeOK, PCs, CreateEvict, Return, Goto
    <2>9. CallOK(c)'
      BY <1>0, <1>12 DEF TypeOK, CallOK, CreateEvict, Return, Goto
    <2> QED
      BY <2>8, <2>9
  <1>13. CASE SuccessorLoadHead(c)
    <2>1. /\ Len(seen[c].rec) \in 0..(MaxGen + 1)
          /\ Len(target[c]) \in 0..(MaxGen + 1)
      BY <1>0, <1>13, RecordShape, HeadFields DEF TypeOK, CallOK, SuccessorLoadHead
    <2>2. ASSUME head = seen[c] /\ Decodes(head) PROVE TypeOK'
      BY ZenonT(60), <1>0, <1>13, <2>1, <2>2 DEF TypeOK, PCs, SuccessorLoadHead, Goto, store
    <2>3. ASSUME ~ (head = seen[c] /\ Decodes(head)) PROVE TypeOK'
      <3>1. Return(c) /\ UNCHANGED <<store, token, acked>>
        BY <1>13, <2>3 DEF SuccessorLoadHead
      <3>2. QED
        BY <1>0, <3>1 DEF TypeOK, PCs, Return, store
    <2>8. TypeOK'
      BY <2>2, <2>3
    <2>4. target[c] # seen[c].rec => Len(seen[c].rec) < Len(target[c])
      BY <1>0, <1>13, ProperExtension, HeadFields DEF CallOK, Succeeding, SuccessorLoadHead
    <2>9. CallOK(c)'
      BY <1>0, <1>13, <2>1, <2>4 DEF TypeOK, CallOK, SuccessorLoadHead, Return, Goto, store
    <2> QED
      BY <2>8, <2>9
  <1>14. CASE ReplaceHead(c)
    <2>1. head' \in Heads \cup {None}
      BY <1>0, <1>14, SuccessorHeadType DEF TypeOK, CallOK, ReplaceHead
    <2>8. TypeOK'
      BY <1>0, <1>14, <2>1 DEF TypeOK, PCs, ReplaceHead, Return, Goto
    <2>9. CallOK(c)'
      BY <1>0, <1>14, <2>1 DEF TypeOK, CallOK, ReplaceHead, Return, Goto
    <2> QED
      BY <2>8, <2>9
  <1>15. CASE SuccessorRecheck(c)
    <2>1. /\ SuccessorHead(seen[c], target[c]) \in Heads
          /\ SuccessorHead(seen[c], target[c]).inc \in 0..MaxInc
          /\ SuccessorHead(seen[c], target[c]).rec \in Records
      BY <1>0, <1>15, SuccessorHeadType, HeadFields DEF TypeOK, CallOK, SuccessorRecheck
    <2>8. TypeOK'
      BY <1>0, <1>15, <2>1 DEF TypeOK, PCs, SuccessorRecheck, Acknowledge, Return, Goto, store
    <2>9. CallOK(c)'
      BY <1>0, <1>15, <2>1 DEF TypeOK, CallOK, SuccessorRecheck, Acknowledge, Return, Goto, store
    <2> QED
      BY <2>8, <2>9
  <1>16. CASE SuccessorEvict(c)
    <2>8. TypeOK'
      BY <1>0, <1>16 DEF TypeOK, PCs, SuccessorEvict, Return
    <2>9. CallOK(c)'
      BY <1>0, <1>16 DEF TypeOK, CallOK, SuccessorEvict, Return
    <2> QED
      BY <2>8, <2>9
  <1>17. CASE DestroyTombstone(c)
    <2>1. [inc |-> seen[c].inc, gen |-> Generation(seen[c].rec)] \in Tombstones
      BY <1>0, <1>17, HeadFields, RecordShape DEF TypeOK, CallOK, DestroyTombstone, Generation, Tombstones
    <2>8. TypeOK'
      BY <1>0, <1>17, <2>1 DEF TypeOK, PCs, DestroyTombstone, Goto
    <2>9. CallOK(c)'
      BY <1>0, <1>17, <2>1 DEF TypeOK, CallOK, DestroyTombstone, Goto
    <2> QED
      BY <2>8, <2>9
  <1>18. CASE BumpRead(c)
    <2>8. TypeOK'
      BY <1>0, <1>18 DEF TypeOK, PCs, BumpRead, Return, Goto, store
    <2>9. CallOK(c)'
      BY <1>0, <1>18 DEF TypeOK, CallOK, BumpRead, Return, Goto, store
    <2> QED
      BY <2>8, <2>9
  <1>19. CASE BumpCas(c)
    <2>8. TypeOK'
      BY <1>0, <1>19 DEF TypeOK, CallOK, PCs, BumpCas, Goto
    <2>9. CallOK(c)'
      BY <1>0, <1>19 DEF TypeOK, CallOK, BumpCas, Goto
    <2> QED
      BY <2>8, <2>9
  <1>20. CASE DestroyDelete(c)
    <2>8. TypeOK'
      BY <1>0, <1>20 DEF TypeOK, PCs, DestroyDelete, Return
    <2>9. CallOK(c)'
      BY <1>0, <1>20 DEF TypeOK, CallOK, DestroyDelete, Return
    <2> QED
      BY <2>8, <2>9
  <1>21. CASE ReadTombstone(c) \/ Abort(c)
    <2>1. Return(c) /\ UNCHANGED <<store, token, acked>>
      BY <1>21 DEF ReadTombstone, Abort
    <2>8. TypeOK'
      BY <1>0, <2>1 DEF TypeOK, PCs, Return, store
    <2>9. CallOK(c)'
      BY <1>0, <2>1 DEF TypeOK, CallOK, Return, store
    <2> QED
      BY <2>8, <2>9
  <1> QED
    BY <1>1, <1>2, <1>3, <1>4, <1>5, <1>6, <1>7, <1>8, <1>9, <1>10, <1>11, <1>12, <1>13, <1>14, <1>15, <1>16, <1>17, <1>18, <1>19, <1>20, <1>21
    DEF Steps

LEMMA NextType == TypeInv /\ [Next]_vars => TypeInv'
  <1> SUFFICES ASSUME TypeInv, [Next]_vars PROVE TypeInv'
    OBVIOUS
  <1>1. CASE UNCHANGED vars
    BY <1>1 DEF vars, TypeInv, TypeOK, LocalsOK, CallOK
  <1>2. CASE Next
    <2>1. PICK c \in Clients : Steps(c)
      BY <1>2, NextSteps
    <2>2. TypeOK' /\ CallOK(c)'
      BY <2>1, StepType
    <2>3. ASSUME NEW d \in Clients, d # c PROVE CallOK(d)'
      <3>1. Private(d)' = Private(d)
        BY <2>1, <2>3, StepIsPrivate DEF TypeInv
      <3>2. CallOK(d)
        BY DEF TypeInv, LocalsOK
      <3>3. QED
        BY <3>1, <3>2 DEF Private, CallOK
    <2>4. QED
      BY <2>2, <2>3 DEF TypeInv, LocalsOK
  <1>3. QED
    BY <1>1, <1>2

\* Every variable keeps its type, and every local of a call under way holds
\* what the requests still to come need: a record to install, a head to match.
THEOREM TypeCorrect == Spec => []TypeOK
  <1>1. Spec => []TypeInv
    BY InitType, NextType, PTL DEF Spec
  <1>2. TypeInv => TypeOK
    BY DEF TypeInv
  <1>3. QED
    BY <1>1, <1>2, PTL

-----------------------------------------------------------------------------
(* Eras.  A call deletes a head only when it knows the head's era closed:  *)
(* the counter has passed the incarnation the call holds.  With that, what *)
(* landed in the open era stays.                                           *)

\* If era i is the open one, the head is in it and has r in its chain.
Landed(i, r) ==
  i = counter => head # None /\ head.inc = i /\ Extends(head.rec, r)

\* What client c's call and token know of the counter.
EraOK(c) ==
  /\ token[c] # None => token[c].inc <= counter
  /\ pc[c] \in Succeeding \cup Destroying => seen[c].inc <= counter
  /\ pc[c] \in {"cPut", "cRecheck", "cEvict"} => era[c] <= counter
  /\ pc[c] = "cEvict" => era[c] < counter
  /\ pc[c] \in {"sEvict", "dDelete"} => seen[c].inc < counter
  /\ pc[c] = "cRecheck" => Landed(era[c], target[c])
  /\ pc[c] = "sRecheck" => Landed(seen[c].inc, target[c])

HeadEra == head # None => head.inc <= counter

AckedEra == \A a \in acked : a.inc <= counter /\ Landed(a.inc, a.rec)

EraInv == /\ TypeInv
          /\ HeadEra
          /\ \A c \in Clients : EraOK(c)
          /\ AckedEra
          /\ AckedLinear

\* What every step does to the head and the counter.
KeepsOpenHead ==
  /\ counter' \in {counter, counter + 1}
  /\ head # None /\ head.inc = counter /\ counter' = counter =>
       head' # None /\ head'.inc = head.inc /\ Extends(head'.rec, head.rec)
  /\ HeadEra'

LEMMA StepKeepsOpenHead ==
  ASSUME EraInv, NEW c \in Clients, Steps(c)
  PROVE  KeepsOpenHead
  <1>0. /\ TypeOK /\ CallOK(c) /\ EraOK(c) /\ HeadEra
        /\ counter \in Nat
        /\ head # None => head \in Heads /\ head.inc \in Nat
    <2>1. TypeOK /\ CallOK(c) /\ EraOK(c) /\ HeadEra
      BY DEF EraInv, TypeInv, LocalsOK
    <2>2. counter \in Nat
      BY <2>1, BoundsAssumption DEF TypeOK
    <2>3. head # None => head \in Heads /\ head.inc \in Nat
      BY <2>1, HeadFields, BoundsAssumption DEF TypeOK
    <2>4. QED
      BY <2>1, <2>2, <2>3
  <1> USE DEF KeepsOpenHead, HeadEra
  <1>1. CASE UNCHANGED <<head, counter>>
    BY <1>0, <1>1, ExtendsReflexive
  <1>2. CASE CreatePut(c)
    <2>1. /\ HeadV2(era[c], target[c]) # None
          /\ HeadV2(era[c], target[c]).inc = era[c]
      BY <1>0, <1>2, HeadV2Type DEF CreatePut, TypeOK, CallOK, Creating
    <2>2. era[c] <= counter
      BY <1>0, <1>2 DEF CreatePut, EraOK
    <2>3. QED
      BY <1>0, <1>2, <2>1, <2>2, ExtendsReflexive DEF CreatePut
  <1>3. CASE CreateEvict(c)
    <2>1. /\ HeadV2(era[c], target[c]).inc = era[c]
          /\ era[c] < counter /\ era[c] \in Nat
      BY <1>0, <1>3, HeadV2Type, BoundsAssumption
      DEF CreateEvict, TypeOK, CallOK, EraOK, Creating
    <2>2. QED
      BY <1>0, <1>3, <2>1, ExtendsReflexive DEF CreateEvict
  <1>4. CASE ReplaceHead(c)
    <2>1. /\ seen[c] \in Heads /\ target[c] \in Records
          /\ Extends(target[c], seen[c].rec)
      BY <1>0, <1>4 DEF ReplaceHead, CallOK, Succeeding
    <2>2. /\ SuccessorHead(seen[c], target[c]) # None
          /\ SuccessorHead(seen[c], target[c]).inc = seen[c].inc
          /\ SuccessorHead(seen[c], target[c]).rec = target[c]
      BY <2>1, SuccessorHeadType
    <2>3. CASE head = seen[c]
      <3>1. head' = SuccessorHead(seen[c], target[c]) /\ counter' = counter
        BY <1>4, <2>3 DEF ReplaceHead
      <3>2. head # None /\ head.inc = seen[c].inc /\ Extends(head'.rec, head.rec)
        BY <2>1, <2>2, <2>3, <3>1, NoneAssumption
      <3>3. QED
        BY <1>0, <2>2, <3>1, <3>2
    <2>4. CASE head # seen[c]
      BY <1>0, <1>1, <1>4, <2>4 DEF ReplaceHead
    <2>5. QED
      BY <2>3, <2>4
  <1>5. CASE SuccessorEvict(c)
    <2>1. /\ SuccessorHead(seen[c], target[c]).inc = seen[c].inc
          /\ seen[c].inc < counter /\ seen[c].inc \in Nat
      BY <1>0, <1>5, SuccessorHeadType, HeadFields, BoundsAssumption
      DEF SuccessorEvict, CallOK, EraOK, Succeeding
    <2>2. QED
      BY <1>0, <1>5, <2>1, ExtendsReflexive DEF SuccessorEvict
  <1>6. CASE DestroyDelete(c)
    <2>1. seen[c].inc < counter /\ seen[c].inc \in Nat
      BY <1>0, <1>6, HeadFields, BoundsAssumption
      DEF DestroyDelete, CallOK, EraOK, Destroying
    <2>2. QED
      BY <1>0, <1>6, <2>1, ExtendsReflexive DEF DestroyDelete
  <1>7. CASE BumpCas(c)
    BY <1>0, <1>7, ExtendsReflexive DEF BumpCas
  <1>8. QED
    <2>1. ASSUME \/ \E r \in Records : PublishRecord(c, r)
                 \/ \E r \in Records : AppendGenesis(c, r)
                 \/ \E r \in Records : AppendSuccessor(c, r)
                 \/ Destroy(c) \/ ReadHead(c) \/ ReadHeadState(c)
          PROVE  UNCHANGED <<head, counter>>
      BY <2>1 DEF PublishRecord, AppendGenesis, AppendSuccessor, Destroy, ReadHead,
                  ReadHeadState, store
    <2>2. ASSUME \/ GenesisPublish(c) \/ SuccessorPublish(c) \/ CreateReadEra(c)
                 \/ CreateRecheck(c) \/ SuccessorLoadHead(c) \/ SuccessorRecheck(c)
                 \/ DestroyTombstone(c) \/ BumpRead(c)
                 \/ ReadTombstone(c) \/ Abort(c)
          PROVE  UNCHANGED <<head, counter>>
      BY <2>2 DEF GenesisPublish, SuccessorPublish, PublishNext, CreateReadEra,
                  CreateRecheck, SuccessorLoadHead, SuccessorRecheck,
                  DestroyTombstone, BumpRead, ReadTombstone, Abort, store
    <2>3. QED
      BY <1>1, <1>2, <1>3, <1>4, <1>5, <1>6, <1>7, <2>1, <2>2 DEF Steps

\* So what landed stays.
LEMMA LandedStays ==
  ASSUME KeepsOpenHead, counter \in Nat, NEW i \in Nat, NEW r, i <= counter,
         Landed(i, r)
  PROVE  i <= counter' /\ Landed(i, r)'
  BY ExtendsTransitive DEF KeepsOpenHead, Landed

\* An append that is about to be acknowledged has its record in the open log.
LEMMA AckedHasLanded ==
  ASSUME EraInv, NEW c \in Clients, NEW h, Acknowledge(c, h),
         h.inc = counter, h.rec \in Records, Landed(h.inc, h.rec),
         UNCHANGED store
  PROVE  AckedEra' /\ AckedLinear'
  <1>0. TypeOK /\ AckedEra /\ AckedLinear /\ counter \in Nat
    BY BoundsAssumption DEF EraInv, TypeInv, TypeOK
  <1>1. acked' = acked \cup {[inc |-> h.inc, rec |-> h.rec]}
    BY DEF Acknowledge
  <1>2. AckedEra'
    BY <1>0, <1>1 DEF AckedEra, Landed, store
  <1>3. ASSUME NEW a \in acked, a.inc = h.inc
        PROVE  Extends(a.rec, h.rec) \/ Extends(h.rec, a.rec)
    <2>1. a.rec \in Records /\ head \in Heads \cup {None}
      BY <1>0 DEF TypeOK
    <2>2. head # None /\ Extends(head.rec, a.rec) /\ Extends(head.rec, h.rec)
      BY <1>0, <1>3 DEF AckedEra, Landed
    <2>3. QED
      BY <2>1, <2>2, HeadFields, AncestorsComparable
  <1>4. AckedLinear'
    BY <1>0, <1>1, <1>3, ExtendsReflexive DEF AckedLinear
  <1>5. QED
    BY <1>2, <1>4

\* Until its next acknowledgement no promise is forgotten.
LEMMA AckedStays ==
  ASSUME EraInv, KeepsOpenHead, acked' = acked
  PROVE  AckedEra' /\ AckedLinear'
  <1>1. /\ counter \in Nat
        /\ \A a \in acked : a.inc \in Nat
    BY BoundsAssumption DEF EraInv, TypeInv, TypeOK
  <1>2. AckedEra'
    BY <1>1, LandedStays DEF EraInv, AckedEra
  <1>3. QED
    BY <1>2 DEF EraInv, AckedLinear

\* The same for the locals of a client that does not take the step.
LEMMA OthersEraOK ==
  ASSUME EraInv, KeepsOpenHead, NEW d \in Clients, Private(d)' = Private(d)
  PROVE  EraOK(d)'
  <1>1. TypeOK /\ CallOK(d) /\ EraOK(d) /\ counter \in Nat
    BY BoundsAssumption DEF EraInv, TypeInv, TypeOK, LocalsOK
  <1>2. /\ era[d] \in Nat
        /\ pc[d] \in Succeeding \cup Destroying => seen[d].inc \in Nat
        /\ token[d] # None => token[d].inc \in Nat
    BY <1>1, HeadFields, BoundsAssumption DEF TypeOK, CallOK
  <1>3. counter' \in {counter, counter + 1}
    BY DEF KeepsOpenHead
  <1>4. /\ pc[d] = "cRecheck" => Landed(era[d], target[d])'
        /\ pc[d] = "sRecheck" => Landed(seen[d].inc, target[d])'
    <2>1. ASSUME pc[d] = "cRecheck" PROVE Landed(era[d], target[d])'
      <3>1. Landed(era[d], target[d]) /\ era[d] <= counter
        BY <1>1, <2>1 DEF EraOK
      <3>2. QED
        BY <1>1, <1>2, <1>3, <3>1, ExtendsTransitive DEF Private, Landed, KeepsOpenHead
    <2>2. ASSUME pc[d] = "sRecheck" PROVE Landed(seen[d].inc, target[d])'
      <3>1. Landed(seen[d].inc, target[d]) /\ seen[d].inc <= counter
        BY <1>1, <2>2 DEF EraOK, Succeeding
      <3>2. seen[d].inc \in Nat
        BY <1>2, <2>2 DEF Succeeding
      <3>3. QED
        BY <1>1, <1>3, <3>1, <3>2, ExtendsTransitive DEF Private, Landed, KeepsOpenHead
    <2>3. QED
      BY <2>1, <2>2
  <1>5. /\ pc[d]' = pc[d] /\ era[d]' = era[d] /\ seen[d]' = seen[d]
        /\ token[d]' = token[d] /\ target[d]' = target[d]
    BY DEF Private
  <1>6. /\ token[d] # None => token[d].inc <= counter'
        /\ pc[d] \in Succeeding \cup Destroying => seen[d].inc <= counter'
        /\ pc[d] \in {"cPut", "cRecheck", "cEvict"} => era[d] <= counter'
        /\ pc[d] = "cEvict" => era[d] < counter'
        /\ pc[d] \in {"sEvict", "dDelete"} => seen[d].inc < counter'
    <2>1. \A i \in Nat : /\ i <= counter => i <= counter'
                         /\ i < counter => i < counter'
      BY <1>1, <1>3
    <2>2. QED
      BY <1>1, <1>2, <2>1 DEF EraOK, Succeeding, Destroying
  <1>7. QED
    BY <1>4, <1>5, <1>6 DEF EraOK, Landed

\* What the client that takes the step knows after it.
LEMMA StepEraOK ==
  ASSUME EraInv, NEW c \in Clients, Steps(c)
  PROVE  EraOK(c)' /\ AckedEra' /\ AckedLinear'
  <1>0. /\ TypeOK /\ CallOK(c) /\ EraOK(c) /\ HeadEra
        /\ counter \in Nat /\ era[c] \in Nat
    BY BoundsAssumption DEF EraInv, TypeInv, TypeOK, LocalsOK
  <1>k. KeepsOpenHead
    BY StepKeepsOpenHead
  <1>a. ASSUME acked' = acked PROVE AckedEra' /\ AckedLinear'
    BY <1>a, <1>k, AckedStays
  <1>t. token[c] # None => token[c].inc \in Nat /\ token[c].inc <= counter
    BY <1>0, HeadFields, BoundsAssumption DEF TypeOK, EraOK
  <1>r. ASSUME Return(c), token' = token PROVE EraOK(c)'
    <2>1. counter' \in {counter, counter + 1}
      BY <1>k DEF KeepsOpenHead
    <2>2. pc'[c] = "idle"
      BY <1>0, <1>r DEF TypeOK, Return
    <2>3. token[c] # None => token[c].inc <= counter'
      BY <1>0, <1>t, <2>1
    <2>4. QED
      BY <1>r, <2>2, <2>3 DEF EraOK, Succeeding, Destroying
  <1> USE DEF Creating, Succeeding, Destroying
  <1>1. ASSUME NEW r \in Records, PublishRecord(c, r)
        PROVE  EraOK(c)' /\ AckedEra' /\ AckedLinear'
    BY <1>0, <1>a, <1>t, <1>1 DEF PublishRecord, locals, TypeOK, CallOK, EraOK
  <1>2. ASSUME NEW r \in Records, AppendGenesis(c, r)
        PROVE  EraOK(c)' /\ AckedEra' /\ AckedLinear'
    BY <1>0, <1>a, <1>t, <1>2 DEF AppendGenesis, Goto, TypeOK, CallOK, EraOK
  <1>3. ASSUME NEW r \in Records, AppendSuccessor(c, r)
        PROVE  EraOK(c)' /\ AckedEra' /\ AckedLinear'
    BY <1>0, <1>a, <1>t, <1>3 DEF AppendSuccessor, Goto, store, TypeOK, CallOK, EraOK
  <1>4. CASE Destroy(c)
    BY <1>0, <1>a, <1>t, <1>4 DEF Destroy, Goto, store, HeadEra, TypeOK, CallOK, EraOK
  <1>5. CASE ReadHead(c)
    BY <1>0, <1>a, <1>t, <1>5 DEF ReadHead, store, locals, HeadEra, TypeOK, CallOK, EraOK
  <1>6. CASE ReadHeadState(c)
    BY <1>0, <1>a, <1>t, <1>6 DEF ReadHeadState, Goto, store, TypeOK, CallOK, EraOK
  <1>7. CASE GenesisPublish(c)
    BY <1>0, <1>a, <1>t, <1>7 DEF GenesisPublish, PublishNext, Goto, TypeOK, CallOK, EraOK
  <1>8. CASE SuccessorPublish(c)
    BY <1>0, <1>a, <1>t, <1>8 DEF SuccessorPublish, PublishNext, Goto, TypeOK, CallOK, EraOK
  <1>9. CASE CreateReadEra(c)
    <2>1. CASE Return(c)
      BY <1>a, <1>r, <1>9, <2>1 DEF CreateReadEra
    <2>2. CASE ~ Return(c)
      BY <1>0, <1>a, <1>t, <1>9, <2>2 DEF CreateReadEra, Goto, store, TypeOK, CallOK, EraOK
    <2>3. QED
      BY <2>1, <2>2
  <1>10. CASE CreatePut(c)
    <2>1. CASE head # None
      BY <1>a, <1>r, <1>10, <2>1 DEF CreatePut
    <2>2. CASE head = None
      <3>1. /\ head' = HeadV2(era[c], target[c])
            /\ pc'[c] = "cRecheck" /\ acked' = acked
            /\ UNCHANGED <<era, target, counter, token>>
        BY <1>0, <1>10, <2>2 DEF CreatePut, Goto, TypeOK
      <3>2. /\ head' # None /\ head'.inc = era[c] /\ head'.rec = target[c]
            /\ era[c] <= counter
        BY <1>0, <1>10, <3>1, HeadV2Type DEF CreatePut, TypeOK, CallOK, EraOK
      <3>3. QED
        BY <1>0, <1>a, <1>t, <3>1, <3>2, ExtendsReflexive DEF EraOK, Landed
    <2>3. QED
      BY <2>1, <2>2
  <1>11. CASE CreateRecheck(c)
    <2>0. /\ HeadV2(era[c], target[c]).inc = era[c] /\ era[c] \in Nat /\ era[c] <= counter
          /\ HeadV2(era[c], target[c]).rec = target[c] /\ target[c] \in Records
          /\ Landed(era[c], target[c])
      BY <1>0, <1>11, HeadV2Type, HeadFields, BoundsAssumption
      DEF CreateRecheck, TypeOK, CallOK, EraOK
    <2>1. CASE counter = era[c]
      <3>1. Acknowledge(c, HeadV2(era[c], target[c])) /\ UNCHANGED store
        BY <1>11, <2>1 DEF CreateRecheck
      <3>2. AckedEra' /\ AckedLinear'
        BY <2>0, <2>1, <3>1, AckedHasLanded
      <3>3. /\ pc'[c] = "idle" /\ counter' = counter
            /\ token'[c] = HeadV2(era[c], target[c])
        BY <1>0, <3>1 DEF Acknowledge, Return, TypeOK, store
      <3>4. QED
        BY <2>0, <3>2, <3>3 DEF EraOK
    <2>2. CASE counter # era[c]
      <3>1. /\ pc'[c] = "cEvict" /\ UNCHANGED <<era, seen, target, token, acked, counter>>
        BY <1>0, <1>11, <2>2 DEF CreateRecheck, Goto, TypeOK, store
      <3>2. era[c] < counter
        BY <1>0, <2>0, <2>2
      <3>3. QED
        BY <1>a, <1>t, <2>0, <3>1, <3>2 DEF EraOK
    <2>3. QED
      BY <2>1, <2>2
  <1>12. CASE CreateEvict(c)
    <2>1. CASE Return(c)
      BY <1>a, <1>r, <1>12, <2>1 DEF CreateEvict
    <2>2. CASE ~ Return(c)
      BY <1>0, <1>a, <1>t, <1>12, <2>2 DEF CreateEvict, Goto, TypeOK, CallOK, EraOK
    <2>3. QED
      BY <2>1, <2>2
  <1>13. CASE SuccessorLoadHead(c)
    <2>1. CASE Return(c)
      BY <1>a, <1>r, <1>13, <2>1 DEF SuccessorLoadHead
    <2>2. CASE ~ Return(c)
      BY <1>0, <1>a, <1>t, <1>13, <2>2 DEF SuccessorLoadHead, Goto, store, TypeOK, CallOK, EraOK
    <2>3. QED
      BY <2>1, <2>2
  <1>14. CASE ReplaceHead(c)
    <2>1. CASE head # seen[c]
      BY <1>a, <1>r, <1>14, <2>1 DEF ReplaceHead
    <2>2. CASE head = seen[c]
      <3>1. /\ head' = SuccessorHead(seen[c], target[c])
            /\ pc'[c] = "sRecheck" /\ acked' = acked
            /\ UNCHANGED <<seen, target, counter, token>>
        BY <1>0, <1>14, <2>2 DEF ReplaceHead, Goto, TypeOK
      <3>2. /\ head' # None /\ head'.inc = seen[c].inc /\ head'.rec = target[c]
            /\ seen[c].inc <= counter
        BY <1>0, <1>14, <3>1, SuccessorHeadType, HeadFields
        DEF ReplaceHead, TypeOK, CallOK, EraOK
      <3>3. QED
        BY <1>0, <1>a, <1>t, <3>1, <3>2, ExtendsReflexive DEF EraOK, Landed
    <2>3. QED
      BY <2>1, <2>2
  <1>15. CASE SuccessorRecheck(c)
    <2>0. /\ SuccessorHead(seen[c], target[c]).inc = seen[c].inc /\ seen[c].inc \in Nat /\ seen[c].inc <= counter
          /\ SuccessorHead(seen[c], target[c]).rec = target[c] /\ target[c] \in Records
          /\ Landed(seen[c].inc, target[c])
      BY <1>0, <1>15, SuccessorHeadType, HeadFields, BoundsAssumption
      DEF SuccessorRecheck, TypeOK, CallOK, EraOK
    <2>1. CASE counter = seen[c].inc
      <3>1. Acknowledge(c, SuccessorHead(seen[c], target[c])) /\ UNCHANGED store
        BY <1>15, <2>1 DEF SuccessorRecheck
      <3>2. AckedEra' /\ AckedLinear'
        BY <2>0, <2>1, <3>1, AckedHasLanded
      <3>3. /\ pc'[c] = "idle" /\ counter' = counter
            /\ token'[c] = SuccessorHead(seen[c], target[c])
        BY <1>0, <3>1 DEF Acknowledge, Return, TypeOK, store
      <3>4. QED
        BY <2>0, <3>2, <3>3 DEF EraOK
    <2>2. CASE counter # seen[c].inc
      <3>1. /\ pc'[c] = "sEvict" /\ UNCHANGED <<era, seen, target, token, acked, counter>>
        BY <1>0, <1>15, <2>2 DEF SuccessorRecheck, Goto, TypeOK, store
      <3>2. seen[c].inc < counter
        BY <1>0, <2>0, <2>2
      <3>3. QED
        BY <1>a, <1>t, <2>0, <3>1, <3>2 DEF EraOK
    <2>3. QED
      BY <2>1, <2>2
  <1>16. CASE SuccessorEvict(c) \/ DestroyDelete(c) \/ ReadTombstone(c) \/ Abort(c)
    BY <1>a, <1>r, <1>16 DEF SuccessorEvict, DestroyDelete, ReadTombstone, Abort
  <1>17. CASE DestroyTombstone(c)
    BY <1>0, <1>a, <1>t, <1>17 DEF DestroyTombstone, Goto, TypeOK, CallOK, EraOK
  <1>18. CASE BumpRead(c)
    <2>1. CASE Return(c)
      BY <1>a, <1>r, <1>18, <2>1 DEF BumpRead
    <2>2. CASE ~ Return(c)
      BY <1>0, <1>a, <1>t, <1>18, <2>2 DEF BumpRead, Goto, store, TypeOK, CallOK, EraOK
    <2>3. QED
      BY <2>1, <2>2
  <1>19. CASE BumpCas(c)
    <2>1. /\ seen[c].inc \in Nat /\ seen[c].inc <= counter
      BY <1>0, <1>19, HeadFields, BoundsAssumption DEF BumpCas, CallOK, EraOK
    <2>2. /\ pc'[c] \in {"bRead", "dDelete"}
          /\ pc'[c] = "dDelete" => counter' = counter + 1
          /\ counter' \in {counter, counter + 1}
          /\ UNCHANGED <<seen, token, acked>>
      BY <1>0, <1>19 DEF BumpCas, Goto, TypeOK
    <2>3. QED
      BY <1>0, <1>a, <1>t, <2>1, <2>2 DEF EraOK
  <1> QED
    BY <1>1, <1>2, <1>3, <1>4, <1>5, <1>6, <1>7, <1>8, <1>9, <1>10, <1>11, <1>12, <1>13, <1>14, <1>15, <1>16, <1>17, <1>18, <1>19
    DEF Steps

LEMMA NextEra == EraInv /\ [Next]_vars => EraInv'
  <1> SUFFICES ASSUME EraInv, [Next]_vars PROVE EraInv'
    OBVIOUS
  <1>1. TypeInv'
    BY NextType DEF EraInv
  <1>2. CASE UNCHANGED vars
    BY <1>1, <1>2 DEF vars, EraInv, HeadEra, EraOK, Landed, AckedEra, AckedLinear
  <1>3. CASE Next
    <2>1. PICK c \in Clients : Steps(c)
      BY <1>3, NextSteps
    <2>2. EraOK(c)' /\ AckedEra' /\ AckedLinear'
      BY <2>1, StepEraOK
    <2>3. KeepsOpenHead
      BY <2>1, StepKeepsOpenHead
    <2>4. ASSUME NEW d \in Clients, d # c PROVE EraOK(d)'
      BY <2>1, <2>3, <2>4, StepIsPrivate, OthersEraOK DEF EraInv, TypeInv
    <2>5. QED
      BY <1>1, <2>2, <2>3, <2>4 DEF EraInv, KeepsOpenHead
  <1>4. QED
    BY <1>2, <1>3

\* The store is empty or holds one legacy head.
LEMMA InitHead ==
  ASSUME Init
  PROVE  \/ head = None /\ acked = {}
         \/ \E r \in Records : /\ head # None
                               /\ head = [fmt |-> "v1", inc |-> 0, rec |-> r]
                               /\ acked = {[inc |-> 0, rec |-> r]}
  <1>1. \A p \in Payloads : Genesis(p) \in Records
    BY BoundsAssumption DEF Records, Genesis
  <1>2. \A r \in Records : [fmt |-> "v1", inc |-> 0, rec |-> r] # None
    BY NoneAssumption, BoundsAssumption DEF Heads
  <1>3. QED
    BY <1>1, <1>2 DEF Init

LEMMA InitEra == Init => EraInv
  <1> SUFFICES ASSUME Init PROVE EraInv
    OBVIOUS
  <1>1. TypeInv
    BY InitType
  <1>2. \A c \in Clients : EraOK(c)
    BY DEF Init, EraOK, Succeeding, Destroying
  <1>3. HeadEra /\ AckedEra /\ AckedLinear
    <2>1. CASE head = None /\ acked = {}
      BY <2>1 DEF HeadEra, AckedEra, AckedLinear
    <2>2. ASSUME NEW r \in Records, head # None,
                 head = [fmt |-> "v1", inc |-> 0, rec |-> r],
                 acked = {[inc |-> 0, rec |-> r]}
          PROVE  HeadEra /\ AckedEra /\ AckedLinear
      <3>1. /\ head.inc = 0 /\ head.rec = r
            /\ \A a \in acked : a.inc = 0 /\ a.rec = r
        BY <2>2
      <3>2. counter = 0
        BY DEF Init
      <3>3. QED
        BY <2>2, <3>1, <3>2, ExtendsReflexive DEF HeadEra, AckedEra, AckedLinear, Landed
    <2>3. QED
      BY <2>1, <2>2, InitHead
  <1>4. QED
    BY <1>1, <1>2, <1>3 DEF EraInv

LEMMA EraInvariant == Spec => []EraInv
  BY InitEra, NextEra, PTL DEF Spec

\* No acknowledged append is lost while its era is open: whatever destroys,
\* evictions and retries of other clients are in flight, the head of the open
\* era has every acknowledged record of the era in its chain.
THEOREM AckedSurvivesTheorem == Spec => []AckedSurvives
  <1>1. EraInv => AckedSurvives
    BY DEF EraInv, AckedEra, Landed, AckedSurvives
  <1>2. QED
    BY <1>1, EraInvariant, PTL

\* Acknowledged appends of one era are linearly ordered, in eras long closed
\* too: a fork of the lineage is never acknowledged on both sides.
THEOREM AckedLinearTheorem == Spec => []AckedLinear
  <1>1. EraInv => AckedLinear
    BY DEF EraInv
  <1>2. QED
    BY <1>1, EraInvariant, PTL

\* A tombstone, once written, stands.
LEMMA StepKeepsTombstone ==
  ASSUME NEW c \in Clients, Steps(c), tombstone # None
  PROVE  tombstone' = tombstone
  <1>1. CASE DestroyTombstone(c)
    BY <1>1 DEF DestroyTombstone
  <1>2. CASE ~ DestroyTombstone(c)
    <2>1. CASE \/ \E r \in Records : PublishRecord(c, r)
               \/ \E r \in Records : AppendGenesis(c, r)
               \/ \E r \in Records : AppendSuccessor(c, r)
               \/ Destroy(c) \/ ReadHead(c) \/ ReadHeadState(c)
      BY <2>1 DEF PublishRecord, AppendGenesis, AppendSuccessor, Destroy, ReadHead,
                  ReadHeadState, store
    <2>2. CASE \/ GenesisPublish(c) \/ SuccessorPublish(c)
               \/ CreateReadEra(c) \/ CreatePut(c) \/ CreateRecheck(c) \/ CreateEvict(c)
               \/ SuccessorLoadHead(c) \/ ReplaceHead(c)
               \/ SuccessorRecheck(c) \/ SuccessorEvict(c)
      BY <2>2 DEF GenesisPublish, SuccessorPublish, PublishNext, CreateReadEra,
                  CreatePut, CreateRecheck, CreateEvict, SuccessorLoadHead,
                  ReplaceHead, SuccessorRecheck, SuccessorEvict, store
    <2>3. CASE BumpRead(c) \/ BumpCas(c) \/ DestroyDelete(c) \/ ReadTombstone(c) \/ Abort(c)
      BY <2>3 DEF BumpRead, BumpCas, DestroyDelete, ReadTombstone, Abort, store
    <2>4. QED
      BY <1>2, <2>1, <2>2, <2>3 DEF Steps
  <1>3. QED
    BY <1>1, <1>2

\* How a step bears on the witness: who moves the counter, who enters the end
\* of a destroy, who deletes, who acknowledges.
LEMMA WitnessOfStep ==
  ASSUME EraInv, NEW c \in Clients, Steps(c)
  PROVE  /\ counter' # counter => pc[c] = "bCas"
         /\ pc'[c] \in {"bRead", "bCas", "dDelete"} =>
              \/ pc[c] \in {"bRead", "bCas", "dDelete"}
              \/ tombstone' # None
         /\ head # None /\ head' = None => pc[c] = "dDelete" \/ counter > 0
         /\ acked' # acked => head' # None
  <1>0. /\ TypeOK /\ CallOK(c) /\ EraOK(c)
        /\ counter \in Nat /\ era[c] \in Nat
    BY BoundsAssumption DEF EraInv, TypeInv, TypeOK, LocalsOK
  <1> USE DEF Creating, Succeeding, Destroying
  <1>1. CASE \/ \E r \in Records : PublishRecord(c, r)
             \/ \E r \in Records : AppendGenesis(c, r)
             \/ \E r \in Records : AppendSuccessor(c, r)
             \/ Destroy(c) \/ ReadHead(c) \/ ReadHeadState(c)
    BY <1>0, <1>1 DEF TypeOK, PublishRecord, AppendGenesis, AppendSuccessor, Destroy,
                      ReadHead, ReadHeadState, Goto, store, locals
  <1>2. CASE GenesisPublish(c) \/ SuccessorPublish(c)
    BY <1>0, <1>2 DEF TypeOK, GenesisPublish, SuccessorPublish, PublishNext, Goto
  <1>3. CASE CreateReadEra(c) \/ SuccessorLoadHead(c)
    BY <1>0, <1>3 DEF TypeOK, CreateReadEra, SuccessorLoadHead, Goto, Return, store
  <1>4. CASE CreatePut(c) \/ ReplaceHead(c)
    <2>1. /\ HeadV2(era[c], target[c]) # None
          /\ pc[c] = "sReplace" => SuccessorHead(seen[c], target[c]) # None
      BY <1>0, <1>4, HeadV2Type, SuccessorHeadType DEF TypeOK, CallOK, CreatePut, ReplaceHead
    <2>2. QED
      BY <1>0, <1>4, <2>1 DEF TypeOK, CreatePut, ReplaceHead, Goto, Return
  <1>5. CASE CreateRecheck(c)
    BY <1>0, <1>5 DEF TypeOK, EraOK, Landed, CreateRecheck, Acknowledge, Goto, Return, store
  <1>6. CASE SuccessorRecheck(c)
    BY <1>0, <1>6 DEF TypeOK, EraOK, Landed, SuccessorRecheck, Acknowledge, Goto, Return, store
  <1>7. CASE CreateEvict(c)
    BY <1>0, <1>7 DEF TypeOK, EraOK, CreateEvict, Goto, Return
  <1>8. CASE SuccessorEvict(c)
    <2>1. counter > 0
      BY <1>0, <1>8, HeadFields, BoundsAssumption DEF CallOK, EraOK, SuccessorEvict
    <2>2. QED
      BY <1>0, <1>8, <2>1 DEF TypeOK, SuccessorEvict, Return
  <1>9. CASE DestroyTombstone(c)
    <2>1. [inc |-> seen[c].inc, gen |-> Generation(seen[c].rec)] \in Tombstones
      BY <1>0, <1>9, HeadFields, RecordShape, BoundsAssumption
      DEF DestroyTombstone, Generation, Tombstones, TypeOK, CallOK
    <2>2. tombstone' # None
      BY <1>9, <2>1, NoneAssumption DEF DestroyTombstone
    <2>3. QED
      BY <1>9, <2>2 DEF DestroyTombstone
  <1>10. CASE BumpRead(c) \/ BumpCas(c) \/ DestroyDelete(c)
    BY <1>0, <1>10 DEF TypeOK, BumpRead, BumpCas, DestroyDelete, Goto, Return, store
  <1>11. CASE ReadTombstone(c) \/ Abort(c)
    BY <1>0, <1>11 DEF TypeOK, ReadTombstone, Abort, Return, store
  <1>12. QED
    BY <1>1, <1>2, <1>3, <1>4, <1>5, <1>6, <1>7, <1>8, <1>9, <1>10, <1>11 DEF Steps

\* The head of the open era is only ever extended; counter and tombstone never
\* go back.
THEOREM HeadMonotoneTheorem == Spec => HeadMonotone
  <1>1. EraInv /\ [Next]_vars =>
          [ /\ counter' >= counter
            /\ tombstone # None => tombstone' = tombstone
            /\ head # None /\ head.inc = counter /\ counter' = counter =>
                 /\ head' # None
                 /\ head'.inc = head.inc
                 /\ Extends(head'.rec, head.rec) ]_vars
    <2> SUFFICES ASSUME EraInv, Next
                 PROVE  /\ counter' >= counter
                        /\ tombstone # None => tombstone' = tombstone
                        /\ head # None /\ head.inc = counter /\ counter' = counter =>
                             /\ head' # None
                             /\ head'.inc = head.inc
                             /\ Extends(head'.rec, head.rec)
      OBVIOUS
    <2>1. PICK c \in Clients : Steps(c)
      BY NextSteps
    <2>2. KeepsOpenHead /\ counter \in Nat
      BY <2>1, StepKeepsOpenHead, BoundsAssumption DEF EraInv, TypeInv, TypeOK
    <2>3. tombstone # None => tombstone' = tombstone
      BY <2>1, StepKeepsTombstone
    <2>4. QED
      BY <2>2, <2>3 DEF KeepsOpenHead
  <1>2. QED
    BY <1>1, EraInvariant, PTL DEF Spec, HeadMonotone

-----------------------------------------------------------------------------
(* The witness.  The tombstone is written before the counter moves, and    *)
(* the counter moves before anything is deleted.                           *)

WitnessInv == /\ EraInv
              /\ DestructionWitnessed
              /\ \A c \in Clients :
                   pc[c] \in {"bRead", "bCas", "dDelete"} => tombstone # None

LEMMA NextWitness == WitnessInv /\ [Next]_vars => WitnessInv'
  <1> SUFFICES ASSUME WitnessInv, [Next]_vars PROVE WitnessInv'
    OBVIOUS
  <1>1. EraInv'
    BY NextEra DEF WitnessInv
  <1>2. CASE UNCHANGED vars
    BY <1>1, <1>2 DEF vars, WitnessInv, DestructionWitnessed
  <1>3. CASE Next
    <2>1. PICK c \in Clients : Steps(c)
      BY <1>3, NextSteps
    <2>2. TypeOK /\ CallOK(c) /\ EraOK(c) /\ counter \in Nat
      BY BoundsAssumption DEF WitnessInv, EraInv, TypeInv, TypeOK, LocalsOK
    <2>3. tombstone # None => tombstone' = tombstone
      BY <2>1, StepKeepsTombstone
    <2>4. \A d \in Clients : d # c => pc'[d] = pc[d]
      BY <2>1, <2>2, StepIsPrivate DEF Private
    <2>5. /\ counter' # counter => pc[c] = "bCas"
          /\ pc'[c] \in {"bRead", "bCas", "dDelete"} =>
               \/ pc[c] \in {"bRead", "bCas", "dDelete"}
               \/ tombstone' # None
          /\ head # None /\ head' = None =>
               \/ pc[c] = "dDelete"
               \/ counter > 0
          /\ acked' # acked => head' # None
      BY <2>1, <2>2, WitnessOfStep DEF WitnessInv
    <2>6. DestructionWitnessed'
      <3>1. counter' > 0 => tombstone' # None
        BY <2>2, <2>3, <2>5 DEF WitnessInv, DestructionWitnessed
      <3>2. head' = None /\ acked' # {} => tombstone' # None
        BY <2>2, <2>3, <2>5 DEF WitnessInv, DestructionWitnessed
      <3>3. QED
        BY <3>1, <3>2 DEF DestructionWitnessed
    <2>7. \A d \in Clients :
             pc'[d] \in {"bRead", "bCas", "dDelete"} => tombstone' # None
      BY <2>3, <2>4, <2>5 DEF WitnessInv
    <2>8. QED
      BY <1>1, <2>6, <2>7 DEF WitnessInv
  <1>4. QED
    BY <1>2, <1>3

\* Destruction always leaves a witness: a lineage that was acknowledged and has
\* no head has a tombstone, and no era closes without one.
THEOREM DestructionWitnessedTheorem == Spec => []DestructionWitnessed
  <1>1. Init => WitnessInv
    <2> SUFFICES ASSUME Init PROVE WitnessInv
      OBVIOUS
    <2>1. DestructionWitnessed
      BY InitHead DEF Init, DestructionWitnessed
    <2>2. QED
      BY <2>1, InitEra DEF Init, WitnessInv
  <1>2. WitnessInv => DestructionWitnessed
    BY DEF WitnessInv
  <1>3. QED
    BY <1>1, <1>2, NextWitness, PTL DEF Spec

-----------------------------------------------------------------------------
(* Histories.  Records are only ever added, and a call publishes its chain *)
(* from the oldest missing record on before it names the last of it.       *)

\* What client c's call and token have published.
PublishedOK(c) ==
  /\ token[c] # None => Readable(token[c].rec)
  /\ pc[c] \in Succeeding => Readable(seen[c].rec)
  /\ pc[c] \in {"gPublish", "sPublish"} =>
       \A n \in 1..done[c] : Prefix(target[c], n) \in objects
  /\ pc[c] \in Creating \cup {"sReplace", "sRecheck", "sEvict"} => Readable(target[c])

HistoryInv == /\ TypeInv
              /\ HistoryPublished
              /\ \A c \in Clients : PublishedOK(c)

\* A record below another one is an ancestor of both or of neither.
LEMMA PrefixOfExtension ==
  ASSUME NEW r \in Records, NEW s \in Records, Extends(r, s), NEW n \in 1..Len(s)
  PROVE  Prefix(r, n) = Prefix(s, n)
  <1>1. \A i \in 1..n : r[i] = s[i]
    BY RecordShape, BoundsAssumption DEF Extends
  <1>2. QED
    BY <1>1 DEF Prefix

\* The records of a chain that are published one by one are all of it.
LEMMA PublishedIsReadable ==
  ASSUME NEW r \in Records, \A n \in 1..Len(r) : Prefix(r, n) \in objects
  PROVE  Readable(r)
  BY RecordShape DEF Readable

\* A step that leaves the head, the promises and client c's token as they are,
\* or moves them to records that were readable, keeps them readable.
LEMMA StaysPublished ==
  ASSUME HistoryInv, objects \subseteq objects',
         head' # None => head' = head \/ Readable(head'.rec),
         \A a \in acked' : a \in acked \/ Readable(a.rec)
  PROVE  /\ (head # None => Readable(head.rec))'
         /\ (\A a \in acked : Readable(a.rec))'
  <1>1. /\ head # None => Readable(head.rec)
        /\ \A a \in acked : Readable(a.rec)
    BY DEF HistoryInv, HistoryPublished
  <1>2. head' # None => Readable(head'.rec)
    BY <1>1
  <1>3. \A a \in acked' : Readable(a.rec)
    BY <1>1
  <1>4. QED
    BY <1>2, <1>3 DEF Readable

\* What every step of client c does to the histories.
LEMMA StepPublished ==
  ASSUME HistoryInv, NEW c \in Clients, Steps(c)
  PROVE  /\ objects \subseteq objects'
         /\ (head # None => Readable(head.rec))'
         /\ (\A a \in acked : Readable(a.rec))'
         /\ PublishedOK(c)'
  <1>0. TypeOK /\ CallOK(c) /\ PublishedOK(c) /\ HistoryPublished
    BY DEF HistoryInv, TypeInv, LocalsOK
  <1> DEFINE Goal == /\ objects \subseteq objects'
                     /\ (head # None => Readable(head.rec))'
                     /\ (\A a \in acked : Readable(a.rec))'
                     /\ PublishedOK(c)'
  <1> USE DEF Creating, Succeeding
  <1>1. ASSUME UNCHANGED <<head, acked, objects>>, PublishedOK(c)' PROVE Goal
    BY <1>0, <1>1 DEF HistoryPublished, Readable
  <1>2. ASSUME NEW r \in Records, PublishRecord(c, r) PROVE Goal
    <2>1. objects \subseteq objects' /\ UNCHANGED <<head, acked>>
      BY <1>2 DEF PublishRecord
    <2>2. PublishedOK(c)'
      BY <1>0, <1>2 DEF PublishRecord, PublishedOK, Readable, locals
    <2>3. QED
      BY <2>1, <2>2, StaysPublished
  <1>3. ASSUME NEW r \in Records, AppendGenesis(c, r) PROVE Goal
    <2>1. /\ objects' = objects \cup {Prefix(r, 1)}
          /\ UNCHANGED <<head, acked, token>>
          /\ target'[c] = r /\ done'[c] = 1
          /\ pc'[c] = IF Len(r) = 1 THEN "cReadEra" ELSE "gPublish"
      BY <1>0, <1>3 DEF AppendGenesis, Goto, TypeOK
    <2>2. \A n \in 1..1 : Prefix(r, n) \in objects'
      BY <2>1
    <2>3. Len(r) = 1 => \A n \in DOMAIN r : Prefix(r, n) \in objects'
      BY <2>2, RecordShape
    <2>4. PublishedOK(c)'
      BY <1>0, <2>1, <2>2, <2>3 DEF PublishedOK, Readable
    <2>5. QED
      BY <2>1, <2>4, StaysPublished
  <1>4. ASSUME NEW p, pc[c] \in {"gPublish", "sPublish"}, PublishNext(c, p),
               p = IF pc[c] = "gPublish" THEN "cReadEra" ELSE "sReplace"
        PROVE  Goal
    <2>1. /\ objects' = objects \cup {Prefix(target[c], done[c] + 1)}
          /\ UNCHANGED <<head, acked, token, target, seen>>
          /\ done'[c] = done[c] + 1
          /\ pc'[c] = IF done[c] + 1 = Len(target[c]) THEN p ELSE pc[c]
      BY <1>0, <1>4 DEF PublishNext, Goto, TypeOK
    <2>2. \A n \in 1..done'[c] : Prefix(target[c], n) \in objects'
      BY <1>0, <1>4, <2>1, BoundsAssumption DEF PublishedOK, TypeOK
    <2>3. done'[c] = Len(target[c]) => \A n \in DOMAIN target[c] : Prefix(target[c], n) \in objects'
      BY <1>0, <1>4, <2>2, RecordShape DEF CallOK
    <2>4. PublishedOK(c)'
      BY <1>0, <1>4, <2>1, <2>2, <2>3 DEF PublishedOK, Readable
    <2>5. QED
      BY <2>1, <2>4, StaysPublished
  <1>5. CASE GenesisPublish(c) \/ SuccessorPublish(c)
    BY <1>4, <1>5 DEF GenesisPublish, SuccessorPublish
  <1>6. ASSUME NEW r \in Records, AppendSuccessor(c, r) PROVE Goal
    <2>1. PublishedOK(c)'
      BY <1>0, <1>6 DEF AppendSuccessor, Goto, PublishedOK, Readable, TypeOK, store
    <2>2. QED
      BY <1>1, <1>6, <2>1 DEF AppendSuccessor, store
  <1>7. CASE ReadHead(c)
    <2>1. PublishedOK(c)'
      BY <1>0, <1>7 DEF ReadHead, PublishedOK, HistoryPublished, Readable, TypeOK, store, locals
    <2>2. QED
      BY <1>1, <1>7, <2>1 DEF ReadHead, store
  <1>8. CASE Destroy(c) \/ ReadHeadState(c)
    <2>1. PublishedOK(c)'
      BY <1>0, <1>8 DEF Destroy, ReadHeadState, Goto, PublishedOK, Readable, TypeOK, store
    <2>2. QED
      BY <1>1, <1>8, <2>1 DEF Destroy, ReadHeadState, store
  <1>9. CASE CreateReadEra(c)
    <2>1. PublishedOK(c)'
      BY <1>0, <1>9 DEF CreateReadEra, Goto, Return, PublishedOK, Readable, TypeOK, store
    <2>2. QED
      BY <1>1, <1>9, <2>1 DEF CreateReadEra, store
  <1>10. CASE CreatePut(c)
    <2>1. UNCHANGED <<objects, acked, token>>
      BY <1>10 DEF CreatePut
    <2>2. head' # None => head' = head \/ Readable(head'.rec)
      BY <1>0, <1>10, HeadV2Type DEF CreatePut, CallOK, PublishedOK, TypeOK
    <2>3. PublishedOK(c)'
      BY <1>0, <1>10 DEF CreatePut, Goto, Return, PublishedOK, Readable, TypeOK
    <2>4. QED
      BY <2>1, <2>2, <2>3, StaysPublished
  <1>11. CASE CreateRecheck(c)
    <2>1. /\ Readable(HeadV2(era[c], target[c]).rec)
          /\ HeadV2(era[c], target[c]).rec = target[c]
      BY <1>0, <1>11, HeadV2Type DEF CreateRecheck, CallOK, PublishedOK, TypeOK
    <2>2. PublishedOK(c)'
      BY <1>0, <1>11, <2>1
      DEF CreateRecheck, Acknowledge, Goto, Return, PublishedOK, Readable, TypeOK, store
    <2>3. UNCHANGED <<head, objects>> /\ \A a \in acked' : a \in acked \/ a.rec = target[c]
      BY <1>11, <2>1 DEF CreateRecheck, Acknowledge, store
    <2>4. QED
      BY <2>1, <2>2, <2>3, StaysPublished
  <1>12. CASE CreateEvict(c) \/ SuccessorEvict(c) \/ DestroyDelete(c)
    <2>1. UNCHANGED <<objects, acked, token>> /\ head' \in {head, None}
      BY <1>12 DEF CreateEvict, SuccessorEvict, DestroyDelete
    <2>2. PublishedOK(c)'
      BY <1>0, <1>12
      DEF CreateEvict, SuccessorEvict, DestroyDelete, Goto, Return, PublishedOK, Readable, TypeOK
    <2>3. QED
      BY <2>1, <2>2, StaysPublished
  <1>13. CASE SuccessorLoadHead(c)
    <2>1. /\ target[c] \in Records /\ seen[c].rec \in Records
          /\ Extends(target[c], seen[c].rec)
          /\ Readable(seen[c].rec)
      BY <1>0, <1>13, HeadFields DEF SuccessorLoadHead, CallOK, PublishedOK
    <2>2. \A n \in 1..Len(seen[c].rec) : Prefix(target[c], n) \in objects
      BY <2>1, PrefixOfExtension, RecordShape DEF Readable
    <2>3. CASE head = seen[c] /\ Decodes(head)
      <3>1. /\ pc'[c] = IF target[c] = seen[c].rec THEN "sReplace" ELSE "sPublish"
            /\ done'[c] = Len(seen[c].rec)
            /\ UNCHANGED <<token, target, seen, objects>>
        BY <1>0, <1>13, <2>3 DEF SuccessorLoadHead, Goto, TypeOK, store
      <3>2. PublishedOK(c)'
        BY <1>0, <2>1, <2>2, <3>1 DEF PublishedOK, Readable
      <3>3. QED
        BY <1>1, <1>13, <3>2 DEF SuccessorLoadHead, store
    <2>4. CASE ~ (head = seen[c] /\ Decodes(head))
      <3>1. Return(c) /\ UNCHANGED <<store, token, acked>>
        BY <1>13, <2>4 DEF SuccessorLoadHead
      <3>2. PublishedOK(c)'
        BY <1>0, <3>1 DEF Return, PublishedOK, Readable, TypeOK, store
      <3>3. QED
        BY <1>1, <3>1, <3>2 DEF store
    <2>5. QED
      BY <2>3, <2>4
  <1>14. CASE ReplaceHead(c)
    <2>1. UNCHANGED <<objects, acked, token>>
      BY <1>14 DEF ReplaceHead
    <2>2. head' # None => head' = head \/ Readable(head'.rec)
      BY <1>0, <1>14, SuccessorHeadType DEF ReplaceHead, CallOK, PublishedOK
    <2>3. PublishedOK(c)'
      BY <1>0, <1>14 DEF ReplaceHead, Goto, Return, PublishedOK, Readable, TypeOK
    <2>4. QED
      BY <2>1, <2>2, <2>3, StaysPublished
  <1>15. CASE SuccessorRecheck(c)
    <2>1. /\ Readable(SuccessorHead(seen[c], target[c]).rec)
          /\ SuccessorHead(seen[c], target[c]).rec = target[c]
      BY <1>0, <1>15, SuccessorHeadType DEF SuccessorRecheck, CallOK, PublishedOK
    <2>2. PublishedOK(c)'
      BY <1>0, <1>15, <2>1
      DEF SuccessorRecheck, Acknowledge, Goto, Return, PublishedOK, Readable, TypeOK, store
    <2>3. UNCHANGED <<head, objects>> /\ \A a \in acked' : a \in acked \/ a.rec = target[c]
      BY <1>15, <2>1 DEF SuccessorRecheck, Acknowledge, store
    <2>4. QED
      BY <2>1, <2>2, <2>3, StaysPublished
  <1>16. CASE DestroyTombstone(c) \/ BumpRead(c) \/ BumpCas(c)
    <2>1. PublishedOK(c)'
      BY <1>0, <1>16
      DEF DestroyTombstone, BumpRead, BumpCas, Goto, Return, PublishedOK, Readable, TypeOK, store
    <2>2. QED
      BY <1>1, <1>16, <2>1 DEF DestroyTombstone, BumpRead, BumpCas, store
  <1>17. CASE ReadTombstone(c) \/ Abort(c)
    <2>1. Return(c) /\ UNCHANGED <<store, token, acked>>
      BY <1>17 DEF ReadTombstone, Abort
    <2>2. PublishedOK(c)'
      BY <1>0, <2>1 DEF Return, PublishedOK, Readable, TypeOK, store
    <2>3. QED
      BY <1>1, <2>1, <2>2 DEF store
  <1>18. QED
    BY <1>2, <1>3, <1>5, <1>6, <1>7, <1>8, <1>9, <1>10, <1>11, <1>12, <1>13, <1>14,
       <1>15, <1>16, <1>17
    DEF Steps

LEMMA NextHistory == HistoryInv /\ [Next]_vars => HistoryInv'
  <1> SUFFICES ASSUME HistoryInv, [Next]_vars PROVE HistoryInv'
    OBVIOUS
  <1>1. TypeInv'
    BY NextType DEF HistoryInv
  <1>2. CASE UNCHANGED vars
    BY <1>1, <1>2 DEF vars, HistoryInv, HistoryPublished, PublishedOK, Readable
  <1>3. CASE Next
    <2>1. PICK c \in Clients : Steps(c)
      BY <1>3, NextSteps
    <2>2. /\ objects \subseteq objects'
          /\ (head # None => Readable(head.rec))'
          /\ (\A a \in acked : Readable(a.rec))'
          /\ PublishedOK(c)'
      BY <2>1, StepPublished
    <2>3. ASSUME NEW d \in Clients, d # c PROVE PublishedOK(d)'
      <3>1. Private(d)' = Private(d) /\ PublishedOK(d)
        BY <2>1, <2>3, StepIsPrivate DEF HistoryInv, TypeInv
      <3>2. QED
        BY <2>2, <3>1 DEF Private, PublishedOK, Readable
    <2>4. \A d \in Clients : PublishedOK(d)'
      BY <2>2, <2>3
    <2>5. HistoryPublished'
      BY <2>2, <2>4 DEF HistoryPublished, PublishedOK
    <2>6. QED
      BY <1>1, <2>4, <2>5 DEF HistoryInv
  <1>4. QED
    BY <1>2, <1>3

LEMMA InitHistory == Init => HistoryInv
  <1> SUFFICES ASSUME Init PROVE HistoryInv
    OBVIOUS
  <1>1. \A p \in Payloads : Readable(Genesis(p)) \/ Genesis(p) \notin objects
    BY DEF Readable, Genesis, Prefix
  <1>2. HistoryPublished
    BY <1>1 DEF Init, HistoryPublished
  <1>3. \A c \in Clients : PublishedOK(c)
    BY DEF Init, PublishedOK, Creating, Succeeding
  <1>4. QED
    BY <1>2, <1>3, InitType DEF HistoryInv

\* Whatever batches, crashes and stray publications there are, the head, every
\* HeadRead a caller holds and every acknowledged append name a record whose
\* whole chain can be loaded: load_history never meets a missing object.
THEOREM HistoryPublishedTheorem == Spec => []HistoryPublished
  <1>1. HistoryInv => HistoryPublished
    BY DEF HistoryInv
  <1>2. QED
    BY <1>1, InitHistory, NextHistory, PTL DEF Spec

-----------------------------------------------------------------------------
(* The kernel implements the log of eras.                                  *)

LEMMA InitRefines == Init => Abstract!Init
  <1> SUFFICES ASSUME Init PROVE Abstract!Init
    OBVIOUS
  <1>1. counter = 0
    BY DEF Init
  <1>2. CASE head = None /\ acked = {}
    BY <1>1, <1>2 DEF Abstract!Init, OpenLog
  <1>3. ASSUME NEW r \in Records, head # None,
               head = [fmt |-> "v1", inc |-> 0, rec |-> r],
               acked = {[inc |-> 0, rec |-> r]}
        PROVE  Abstract!Init
    <2>1. OpenLog = r
      BY <1>1, <1>3 DEF OpenLog
    <2>2. QED
      BY <1>1, <1>3, <2>1 DEF Abstract!Init
  <1>4. QED
    BY <1>2, <1>3, InitHead

\* A step that leaves promises alone extends the log, closes the era, or is not
\* seen.
LEMMA QuietStepRefines ==
  ASSUME EraInv, KeepsOpenHead, acked' = acked, counter' = counter
  PROVE  Abstract!Extend \/ UNCHANGED Abstract!absVars
  <1>1. Abstract!GrowsTo(OpenLog, OpenLog')
    <2>1. CASE head # None /\ head.inc = counter
      BY <2>1 DEF KeepsOpenHead, OpenLog, Extends, Abstract!GrowsTo
    <2>2. CASE ~ (head # None /\ head.inc = counter)
      <3>1. OpenLog = <<>>
        BY <2>2 DEF OpenLog
      <3>2. DOMAIN <<>> = {}
        OBVIOUS
      <3>3. QED
        BY <3>1, <3>2 DEF Abstract!GrowsTo
    <2>3. QED
      BY <2>1, <2>2
  <1>2. QED
    BY <1>1 DEF Abstract!Extend, Abstract!absVars

LEMMA StepRefines ==
  ASSUME EraInv, NEW c \in Clients, Steps(c)
  PROVE  Abstract!Next \/ UNCHANGED Abstract!absVars
  <1>0. /\ TypeOK /\ CallOK(c) /\ EraOK(c) /\ HeadEra /\ counter \in Nat
        /\ KeepsOpenHead
    BY StepKeepsOpenHead, BoundsAssumption DEF EraInv, TypeInv, TypeOK, LocalsOK
  <1>1. CASE acked' = acked /\ counter' = counter
    BY <1>1, <1>0, QuietStepRefines DEF Abstract!Next
  <1>2. CASE BumpCas(c)
    <2>1. CASE counter' = counter
      BY <1>1, <1>2, <2>1 DEF BumpCas
    <2>2. CASE counter' = counter + 1
      <3>1. OpenLog' = <<>>
        BY <1>0, <1>2, <2>2, HeadFields, BoundsAssumption
        DEF OpenLog, HeadEra, BumpCas, TypeOK
      <3>2. QED
        BY <1>2, <2>2, <3>1 DEF BumpCas, Abstract!Next, Abstract!Close
    <2>3. QED
      BY <1>2, <2>1, <2>2 DEF BumpCas
  <1>3. ASSUME NEW h, Acknowledge(c, h), UNCHANGED store,
               h.inc = counter, Landed(h.inc, h.rec)
        PROVE  Abstract!Next
    <2>1. OpenLog = head.rec /\ OpenLog' = OpenLog /\ Extends(head.rec, h.rec)
      BY <1>3 DEF Landed, OpenLog, store
    <2>2. acked' = acked \cup {[inc |-> h.inc, rec |-> h.rec]}
      BY <1>3 DEF Acknowledge
    <2>3. /\ [inc |-> h.inc, rec |-> h.rec] \in acked'
          /\ [inc |-> h.inc, rec |-> h.rec].inc = counter
          /\ Abstract!GrowsTo([inc |-> h.inc, rec |-> h.rec].rec, OpenLog)
      BY <1>3, <2>1, <2>2 DEF Extends, Abstract!GrowsTo
    <2>4. UNCHANGED <<counter, OpenLog>>
      BY <1>3, <2>1 DEF store
    <2>5. QED
      BY <2>2, <2>3, <2>4 DEF Abstract!Next, Abstract!Promise
  <1>4. CASE CreateRecheck(c)
    <2>1. CASE counter = era[c]
      <3>1. /\ HeadV2(era[c], target[c]).inc = era[c]
            /\ HeadV2(era[c], target[c]).rec = target[c]
        BY <1>0, <1>4, HeadV2Type DEF CreateRecheck, TypeOK, CallOK, Creating
      <3>2. QED
        BY <1>0, <1>3, <1>4, <2>1, <3>1 DEF CreateRecheck, EraOK
    <2>2. CASE counter # era[c]
      BY <1>1, <1>4, <2>2 DEF CreateRecheck, store
    <2>3. QED
      BY <2>1, <2>2
  <1>5. CASE SuccessorRecheck(c)
    <2>1. CASE counter = seen[c].inc
      <3>1. /\ SuccessorHead(seen[c], target[c]).inc = seen[c].inc
            /\ SuccessorHead(seen[c], target[c]).rec = target[c]
        BY <1>0, <1>5, SuccessorHeadType, HeadFields
        DEF SuccessorRecheck, TypeOK, CallOK, Succeeding
      <3>2. QED
        BY <1>0, <1>3, <1>5, <2>1, <3>1 DEF SuccessorRecheck, EraOK
    <2>2. CASE counter # seen[c].inc
      BY <1>1, <1>5, <2>2 DEF SuccessorRecheck, store
    <2>3. QED
      BY <2>1, <2>2
  <1>6. CASE \/ \E r \in Records : PublishRecord(c, r)
             \/ \E r \in Records : AppendGenesis(c, r)
             \/ \E r \in Records : AppendSuccessor(c, r)
             \/ Destroy(c) \/ ReadHead(c) \/ ReadHeadState(c)
    BY <1>1, <1>6 DEF PublishRecord, AppendGenesis, AppendSuccessor, Destroy, ReadHead,
                ReadHeadState, store
  <1>7. CASE \/ GenesisPublish(c) \/ SuccessorPublish(c)
             \/ CreateReadEra(c) \/ CreatePut(c) \/ CreateEvict(c)
             \/ SuccessorLoadHead(c) \/ ReplaceHead(c) \/ SuccessorEvict(c)
             \/ DestroyTombstone(c) \/ BumpRead(c) \/ DestroyDelete(c)
             \/ ReadTombstone(c) \/ Abort(c)
    BY <1>1, <1>7
    DEF GenesisPublish, SuccessorPublish, PublishNext, CreateReadEra, CreatePut,
        CreateEvict, SuccessorLoadHead, ReplaceHead, SuccessorEvict,
        DestroyTombstone, BumpRead, DestroyDelete, ReadTombstone, Abort, store
  <1>8. QED
    BY <1>2, <1>4, <1>5, <1>6, <1>7 DEF Steps

\* Every behaviour of the kernel's requests is a behaviour of LineageLog: one
\* growing log per era whose acknowledged versions are versions it has had.
THEOREM Refinement == Spec => ImplementsLineageLog
  <1>1. EraInv /\ [Next]_vars => [Abstract!Next]_(Abstract!absVars)
    <2> SUFFICES ASSUME EraInv, [Next]_vars
                 PROVE  Abstract!Next \/ UNCHANGED Abstract!absVars
      OBVIOUS
    <2>1. CASE UNCHANGED vars
      BY <2>1 DEF vars, Abstract!absVars, OpenLog
    <2>2. CASE Next
      BY <2>2, NextSteps, StepRefines
    <2>3. QED
      BY <2>1, <2>2
  <1>2. QED
    BY <1>1, InitRefines, EraInvariant, PTL
    DEF Spec, ImplementsLineageLog, Abstract!Spec
=============================================================================
