-------------------------- MODULE ValueStream_proofs --------------------------
(***************************************************************************)
(* Proofs about ValueStream for any clients, payloads and bounds.          *)
(***************************************************************************)
EXTENDS ValueStream, TLAPS

-----------------------------------------------------------------------------
(* Types, with what a call's locals hold while it is under way.            *)

Writing == {"wFence", "wStage", "wPutEra", "wPut", "wAdjudicate", "wRecheck", "wEvict"}
Committing == {"wPutEra", "wPut", "wAdjudicate", "wRecheck", "wEvict"}
Destroying == {"dTombstone", "dBump", "dDelete"}

\* What client c's call knows of its own locals.
CallOK(c) ==
  /\ pc[c] \in {"wEra", "wOpen"} \cup Writing => new[c] \in Controls
  /\ pc[c] \in {"idle", "wEra"} => seen[c] = None
  /\ pc[c] \in {"wOpen"} \cup Destroying => seen[c] \in Controls

TypeInv == TypeOK /\ \A c \in Clients : CallOK(c)

LEMMA ControlFields ==
  ASSUME NEW a \in Controls
  PROVE  /\ a.inc \in 0..MaxInc /\ a.ver \in 0..MaxVersion /\ a.id \in 0..MaxCommits
         /\ a.data \in Payloads \cup {{}} /\ a # None
         /\ ChunksOf(a) \subseteq ChunkKeys
  <1>1. /\ a.inc \in 0..MaxInc /\ a.ver \in 0..MaxVersion /\ a.id \in 0..MaxCommits
        /\ a.data \in Payloads \cup {{}} /\ a # None
    BY NoControlAssumption DEF Controls
  <1>2. a.data \subseteq Digests
    BY <1>1 DEF Digests
  <1>3. ChunksOf(a) \subseteq ChunkKeys
    BY <1>1, <1>2 DEF ChunksOf, ChunkKeys
  <1>4. QED
    BY <1>1, <1>3

LEMMA ControlType ==
  ASSUME NEW i \in 0..MaxInc, NEW v \in 0..MaxVersion, NEW d \in Payloads \cup {{}}
  PROVE  /\ Control(i, v, d) \in Controls
         /\ Control(i, v, d).inc = i /\ Control(i, v, d).ver = v
         /\ Control(i, v, d).data = d /\ Control(i, v, d).id = 0
  BY ValueAssumption DEF Control, Controls

LEMMA InitType == Init => TypeInv
  <1> SUFFICES ASSUME Init PROVE TypeInv
    OBVIOUS
  <1>1. 0 \in 0..MaxInc /\ 0 \in 0..MaxVersion /\ 0 \in 0..MaxCommits /\ 0 \in 0..MaxFences
    BY ValueAssumption
  <1>2. value \in Controls \cup {None}
    BY <1>1, ControlType DEF Init
  <1>3. QED
    BY <1>1, <1>2 DEF Init, TypeInv, TypeOK, CallOK, PCs, Writing, Destroying

\* A step of client c, by action.
Steps(c) ==
  \/ \E a \in {"stream", "whole"}, d \in Payloads : Create(c, a, d)
  \/ \E a \in {"stream", "whole"}, d \in Payloads : CompareExchange(c, a, d)
  \/ Destroy(c) \/ OpenStream(c)
  \/ SetMaintenanceFence(c) \/ ReleaseMaintenanceFence(c) \/ SweepChunks(c)
  \/ CreateReadEra(c) \/ ExchangeEra(c) \/ EnsureUnfenced(c)
  \/ PutChunk(c) \/ Sealed(c) \/ CommitEra(c)
  \/ UploadConditional(c) \/ Adjudicate(c) \/ Recheck(c)
  \/ (Unpublish(c) /\ Return(c))
  \/ (seen[c] = None /\ api[c] = "whole" /\ Unpublish(c) /\ Goto(c, "wEra") /\ Keep(c))
  \/ DestroyTombstone(c) \/ DestroyBump(c) \/ DestroyDelete(c)
  \/ FetchChunk(c) \/ ReleaseObserved(c)
  \/ ListChunkPage(c) \/ ClassifyChunkPage(c) \/ SweepDelete(c)
  \/ Abort(c)

LEMMA NextSteps == Next => \E c \in Clients : Steps(c)
  BY DEF Next, Call, CallStep, Steps, Seal, StageChunks, Commit, CreateChunked,
     CompareExchangeChunked, FinishCreateAfterPublish, EvictStaleEra,
     FinishValueCasAfterPublish

\* The locals of client d.
Private(d) == <<pc[d], api[d], new[d], seen[d], page[d], epoch[d]>>

\* A step of one client leaves the others' locals alone.
LEMMA StepIsPrivate ==
  ASSUME TypeOK, NEW c \in Clients, Steps(c), NEW d \in Clients, d # c
  PROVE  Private(d)' = Private(d)
  <1> USE DEF TypeOK, Private, Goto, Keep, Return
  <1>1. CASE \E a \in {"stream", "whole"}, v \in Payloads : Create(c, a, v)
    BY <1>1 DEF Create
  <1>2. CASE \E a \in {"stream", "whole"}, v \in Payloads : CompareExchange(c, a, v)
    BY <1>2 DEF CompareExchange
  <1>3. CASE Destroy(c) \/ OpenStream(c) \/ SetMaintenanceFence(c)
             \/ ReleaseMaintenanceFence(c) \/ SweepChunks(c)
    BY <1>3 DEF Destroy, OpenStream, SetMaintenanceFence, ReleaseMaintenanceFence,
       SweepChunks, locals
  <1>4. CASE CreateReadEra(c)
    BY <1>4 DEF CreateReadEra
  <1>5. CASE ExchangeEra(c)
    BY <1>5 DEF ExchangeEra
  <1>6. CASE EnsureUnfenced(c) \/ PutChunk(c) \/ CommitEra(c)
    BY <1>6 DEF EnsureUnfenced, PutChunk, CommitEra
  <1>7. CASE Sealed(c)
    BY <1>7 DEF Sealed
  <1>8. CASE UploadConditional(c) \/ Adjudicate(c) \/ Recheck(c)
    BY <1>8 DEF UploadConditional, Adjudicate, Recheck
  <1>9. CASE (Unpublish(c) /\ Return(c)) \/ (Unpublish(c) /\ Goto(c, "wEra") /\ Keep(c))
    BY <1>9
  <1>10. CASE DestroyTombstone(c) \/ DestroyBump(c) \/ DestroyDelete(c)
    BY <1>10 DEF DestroyTombstone, DestroyBump, DestroyDelete
  <1>11. CASE FetchChunk(c) \/ ReleaseObserved(c) \/ Abort(c)
    BY <1>11 DEF FetchChunk, ReleaseObserved, Abort
  <1>12. CASE ListChunkPage(c) \/ ClassifyChunkPage(c) \/ SweepDelete(c)
    BY <1>12 DEF ListChunkPage, ClassifyChunkPage, SweepDelete
  <1>13. QED
    BY <1>1, <1>2, <1>3, <1>4, <1>5, <1>6, <1>7, <1>8, <1>9, <1>10, <1>11, <1>12 DEF Steps

\* A call that returns leaves nothing behind.
LEMMA Returned ==
  ASSUME TypeOK, NEW c \in Clients, Return(c)
  PROVE  /\ pc'[c] = "idle" /\ CallOK(c)'
         /\ pc' \in [Clients -> PCs] /\ api' \in [Clients -> {"none", "stream", "whole"}]
         /\ new' \in [Clients -> Controls \cup {None}]
         /\ seen' \in [Clients -> Controls \cup {None}]
         /\ page' \in [Clients -> SUBSET ChunkKeys] /\ epoch' \in [Clients -> 0..MaxFences]
  <1>1. 0 \in 0..MaxFences
    BY ValueAssumption
  <1>2. QED
    BY <1>1 DEF Return, TypeOK, CallOK, PCs, Writing, Destroying

\* A call that goes on keeps the type of its locals.
LEMMA GoneOn ==
  ASSUME TypeOK, NEW c \in Clients, NEW p \in PCs, Goto(c, p), Keep(c)
  PROVE  /\ pc'[c] = p
         /\ pc' \in [Clients -> PCs] /\ api' \in [Clients -> {"none", "stream", "whole"}]
         /\ new' \in [Clients -> Controls \cup {None}]
         /\ seen' \in [Clients -> Controls \cup {None}]
         /\ page' \in [Clients -> SUBSET ChunkKeys] /\ epoch' \in [Clients -> 0..MaxFences]
  BY DEF Goto, Keep, TypeOK

\* A step keeps the types, and what the client that takes it knows.
LEMMA StepType ==
  ASSUME TypeInv, NEW c \in Clients, Steps(c)
  PROVE  TypeOK' /\ CallOK(c)'
  <1>0. /\ TypeOK /\ CallOK(c) /\ None \notin Controls
        /\ MaxInc \in Nat /\ MaxVersion \in Nat /\ MaxCommits \in Nat /\ MaxFences \in Nat
        /\ 0 \in 0..MaxInc /\ 0 \in 0..MaxVersion
    BY ValueAssumption, NoControlAssumption DEF TypeInv
  <1> USE DEF store, drawn, PCs
  <1>1. ASSUME Return(c), value' \in Controls \cup {None}, counter' \in 0..MaxInc,
               UNCHANGED <<tombstone, drawn>>, chunks' \subseteq ChunkKeys,
               fence' \in 0..MaxFences, acked' \subseteq Controls
        PROVE  TypeOK' /\ CallOK(c)'
    BY <1>0, <1>1, Returned DEF TypeOK
  <1>2. ASSUME Return(c), UNCHANGED <<store, drawn, acked>> PROVE TypeOK' /\ CallOK(c)'
    BY <1>0, <1>1, <1>2 DEF TypeOK
  <1>3. CASE \E a \in {"stream", "whole"}, d \in Payloads : Create(c, a, d)
    <2>1. PICK a \in {"stream", "whole"}, d \in Payloads : Create(c, a, d)
      BY <1>3
    <2>2. Control(0, 0, d) \in Controls
      BY <1>0, ControlType
    <2>3. TypeOK'
      BY <1>0, <2>1, <2>2 DEF Create, Goto, TypeOK
    <2>4. pc'[c] = "wEra" /\ new'[c] \in Controls /\ seen'[c] = None
      BY <1>0, <2>1, <2>2 DEF Create, Goto, TypeOK, CallOK
    <2>5. QED
      BY <2>3, <2>4 DEF CallOK, Writing, Destroying
  <1>4. CASE \E a \in {"stream", "whole"}, d \in Payloads : CompareExchange(c, a, d)
    <2>1. PICK a \in {"stream", "whole"}, d \in Payloads : CompareExchange(c, a, d)
      BY <1>4
    <2>2. value \in Controls /\ Control(value.inc, value.ver, d) \in Controls
      BY <1>0, <2>1, ControlType, ControlFields DEF CompareExchange, TypeOK
    <2>3. TypeOK'
      BY <1>0, <2>1, <2>2 DEF CompareExchange, Goto, TypeOK
    <2>4. pc'[c] = "wOpen" /\ new'[c] \in Controls /\ seen'[c] \in Controls
      BY <1>0, <2>1, <2>2 DEF CompareExchange, Goto, TypeOK
    <2>5. QED
      BY <2>3, <2>4 DEF CallOK, Writing, Destroying
  <1>5. CASE Destroy(c)
    <2>1. TypeOK' /\ pc'[c] = "dTombstone" /\ seen'[c] \in Controls
      BY <1>0, <1>5 DEF Destroy, Goto, TypeOK
    <2>2. QED
      BY <2>1 DEF CallOK, Writing, Destroying
  <1>6. CASE OpenStream(c)
    <2>1. Referenced \subseteq ChunkKeys
      BY <1>0, ControlFields DEF Referenced, TypeOK
    <2>2. TypeOK' /\ pc'[c] = "rFetch"
      BY <1>0, <1>6, <2>1 DEF OpenStream, Goto, TypeOK
    <2>3. QED
      BY <2>2 DEF CallOK, Writing, Destroying
  <1>7. CASE SetMaintenanceFence(c)
    <2>1. TypeOK'
      BY <1>0, <1>7 DEF SetMaintenanceFence, locals, TypeOK
    <2>2. QED
      BY <1>0, <1>7, <2>1 DEF SetMaintenanceFence, locals, CallOK
  <1>8. CASE ReleaseMaintenanceFence(c)
    <2>1. TypeOK' /\ pc'[c] = "fRelease"
      BY <1>0, <1>8 DEF ReleaseMaintenanceFence, Goto, TypeOK
    <2>2. QED
      BY <2>1 DEF CallOK, Writing, Destroying
  <1>9. CASE SweepChunks(c)
    <2>1. TypeOK' /\ pc'[c] = "sList"
      BY <1>0, <1>9 DEF SweepChunks, Goto, TypeOK
    <2>2. QED
      BY <2>1 DEF CallOK, Writing, Destroying
  <1>10. CASE CreateReadEra(c)
    <2>0. pc[c] = "wEra" /\ new[c] \in Controls /\ seen[c] = None /\ counter \in 0..MaxInc
      BY <1>0, <1>10 DEF CreateReadEra, CallOK, TypeOK
    <2> DEFINE n == Control(counter, 0, new[c].data)
    <2>1. n \in Controls /\ ChunksOf(n) \subseteq ChunkKeys
      BY <1>0, <2>0, ControlType, ControlFields
    <2>2. new' = [new EXCEPT ![c] = n] /\ new'[c] = n
      BY <1>0, <1>10 DEF CreateReadEra, TypeOK
    <2> HIDE DEF n
    <2>3. /\ page' = [page EXCEPT ![c] = ChunksOf(n)]
          /\ Goto(c, IF api[c] = "stream" THEN "wFence" ELSE "wStage")
          /\ UNCHANGED <<store, drawn, api, seen, epoch, acked>>
      BY <1>10, <2>2 DEF CreateReadEra
    <2>4. TypeOK' /\ pc'[c] \in {"wFence", "wStage"}
      BY <1>0, <2>1, <2>2, <2>3 DEF Goto, TypeOK
    <2>5. QED
      BY <2>1, <2>2, <2>4 DEF CallOK, Writing, Destroying
  <1>11. CASE ExchangeEra(c)
    <2>0. pc[c] = "wOpen" /\ new[c] \in Controls /\ seen[c] \in Controls
      BY <1>0, <1>11 DEF ExchangeEra, CallOK
    <2>1. CASE Return(c)
      BY <1>2, <1>11, <2>1 DEF ExchangeEra
    <2> DEFINE n == Control(seen[c].inc, seen[c].ver + 1, new[c].data)
    <2>2. CASE /\ seen[c].ver < MaxVersion
               /\ new' = [new EXCEPT ![c] = n]
               /\ page' = [page EXCEPT ![c] = ChunksOf(n)]
               /\ Goto(c, IF api[c] = "stream" THEN "wFence" ELSE "wStage")
               /\ UNCHANGED <<api, seen, epoch>>
      <3>1. seen[c].ver + 1 \in 0..MaxVersion
        BY <1>0, <2>0, <2>2, ControlFields
      <3>2. n \in Controls /\ ChunksOf(n) \subseteq ChunkKeys
        BY <2>0, <3>1, ControlType, ControlFields
      <3> HIDE DEF n
      <3>3. TypeOK' /\ pc'[c] \in {"wFence", "wStage"} /\ new'[c] \in Controls
        BY <1>0, <1>11, <2>2, <3>2 DEF ExchangeEra, Goto, TypeOK
      <3>4. QED
        BY <3>3 DEF CallOK, Writing, Destroying
    <2>3. QED
      BY <1>11, <2>1, <2>2 DEF ExchangeEra
  <1>12. ASSUME NEW p \in PCs, Goto(c, p), Keep(c), value' \in Controls \cup {None},
                counter' \in 0..MaxInc, tombstone' \in BOOLEAN,
                UNCHANGED <<drawn, chunks, fence>>, acked' \subseteq Controls,
                \/ /\ pc[c] \in Writing
                   /\ p \in Writing \/ (p = "wEra" /\ seen[c] = None)
                \/ pc[c] \in Destroying /\ p \in Destroying
                \/ p = "rMissing"
         PROVE  TypeOK' /\ CallOK(c)'
    <2>1. TypeOK' /\ pc'[c] = p
      BY <1>0, <1>12, GoneOn DEF TypeOK
    <2>2. QED
      BY <1>0, <1>12, <2>1 DEF CallOK, Keep, Writing, Destroying
  <1>13. CASE EnsureUnfenced(c)
    BY <1>0, <1>2, <1>12, <1>13 DEF EnsureUnfenced, TypeOK, Writing
  <1>14. CASE PutChunk(c)
    <2>1. TypeOK' /\ pc' = pc /\ new' = new
      BY <1>0, <1>14 DEF PutChunk, TypeOK
    <2>2. QED
      BY <1>0, <1>14, <2>1 DEF PutChunk, CallOK, Writing, Destroying
  <1>15. CASE Sealed(c)
    <2>0. pc[c] = "wStage" /\ new[c] \in Controls
      BY <1>0, <1>15 DEF Sealed, CallOK, Writing
    <2>1. minted + 1 \in 0..MaxCommits
      BY <1>0, <1>15 DEF Sealed, TypeOK
    <2>2. [new[c] EXCEPT !.id = minted + 1] \in Controls
      BY <2>0, <2>1 DEF Controls
    <2>3. new' = [new EXCEPT ![c] = [new[c] EXCEPT !.id = minted + 1]]
      BY <1>15 DEF Sealed
    <2>4. TypeOK' /\ pc'[c] \in {"wPut", "wPutEra"} /\ new'[c] \in Controls
      BY <1>0, <1>15, <2>1, <2>2, <2>3 DEF Sealed, Goto, TypeOK
    <2>5. QED
      BY <2>4 DEF CallOK, Writing, Destroying
  <1>16. CASE CommitEra(c)
    BY <1>0, <1>2, <1>12, <1>16 DEF CommitEra, TypeOK, Writing
  <1>17. CASE UploadConditional(c)
    <2>1. new[c] \in Controls /\ pc[c] = "wPut"
      BY <1>0, <1>17 DEF UploadConditional, CallOK, Writing
    <2>2. value' \in Controls \cup {None} /\ UNCHANGED <<counter, tombstone, chunks, fence, drawn, acked>>
      BY <1>0, <1>17, <2>1 DEF UploadConditional, TypeOK
    <2>3. CASE Return(c)
      BY <1>0, <1>1, <2>2, <2>3 DEF TypeOK
    <2>4. CASE (Goto(c, "wRecheck") \/ Goto(c, "wAdjudicate")) /\ Keep(c)
      BY <1>0, <1>12, <2>1, <2>2, <2>4 DEF TypeOK, Writing
    <2>5. QED
      BY <1>17, <2>3, <2>4 DEF UploadConditional
  <1>18. CASE Adjudicate(c)
    BY <1>0, <1>2, <1>12, <1>18 DEF Adjudicate, TypeOK, Writing
  <1>19. CASE Recheck(c)
    <2>1. new[c] \in Controls /\ pc[c] = "wRecheck"
      BY <1>0, <1>19 DEF Recheck, CallOK, Writing
    <2>2. QED
      BY <1>0, <1>1, <1>12, <1>19, <2>1 DEF Recheck, TypeOK, Writing
  <1>20. CASE /\ Unpublish(c)
              /\ \/ Return(c)
                 \/ seen[c] = None /\ Goto(c, "wEra") /\ Keep(c)
    <2>1. /\ pc[c] = "wEvict" /\ value' \in Controls \cup {None}
          /\ UNCHANGED <<counter, tombstone, chunks, fence, drawn, acked>>
      BY <1>0, <1>20 DEF Unpublish, TypeOK
    <2>2. QED
      BY <1>0, <1>1, <1>12, <1>20, <2>1 DEF TypeOK, Writing
  <1>21. CASE DestroyTombstone(c)
    BY <1>0, <1>12, <1>21 DEF DestroyTombstone, TypeOK, Destroying
  <1>22. CASE DestroyBump(c)
    <2>1. counter' \in 0..MaxInc
      BY <1>0, <1>22 DEF DestroyBump, TypeOK
    <2>2. QED
      BY <1>0, <1>1, <1>12, <1>22, <2>1 DEF DestroyBump, TypeOK, Destroying
  <1>23. CASE DestroyDelete(c)
    BY <1>0, <1>1, <1>23 DEF DestroyDelete, TypeOK
  <1>24. CASE FetchChunk(c)
    <2>1. CASE /\ \E k \in page[c] : page' = [page EXCEPT ![c] = @ \ {k}]
               /\ UNCHANGED <<pc, api, new, seen, epoch>>
      <3>1. TypeOK'
        BY <1>0, <1>24, <2>1 DEF FetchChunk, TypeOK
      <3>2. QED
        BY <1>0, <2>1, <3>1 DEF CallOK
    <2>2. CASE Goto(c, "rMissing") /\ Keep(c)
      BY <1>0, <1>12, <1>24, <2>2 DEF FetchChunk, TypeOK
    <2>3. QED
      BY <1>2, <1>24, <2>1, <2>2 DEF FetchChunk
  <1>25. CASE ReleaseObserved(c)
    BY <1>0, <1>1, <1>25 DEF ReleaseObserved, TypeOK
  <1>26. CASE ListChunkPage(c) \/ ClassifyChunkPage(c)
    <2>1. TypeOK' /\ pc'[c] \in {"sClassify", "sDelete"}
      BY <1>0, <1>26 DEF ListChunkPage, ClassifyChunkPage, Goto, TypeOK
    <2>2. QED
      BY <2>1 DEF CallOK, Writing, Destroying
  <1>27. CASE SweepDelete(c)
    <2>1. CASE /\ \E k \in page[c] : /\ chunks' \in {chunks, chunks \ {k}}
                                     /\ page' = [page EXCEPT ![c] = @ \ {k}]
               /\ UNCHANGED <<pc, api, new, seen, epoch>>
      <3>1. TypeOK'
        BY <1>0, <1>27, <2>1 DEF SweepDelete, TypeOK
      <3>2. QED
        BY <1>0, <2>1, <3>1 DEF CallOK
    <2>2. CASE Return(c) /\ UNCHANGED chunks
      BY <1>2, <1>27, <2>2 DEF SweepDelete
    <2>3. QED
      BY <1>27, <2>1, <2>2 DEF SweepDelete
  <1>28. CASE Abort(c)
    BY <1>2, <1>28 DEF Abort
  <1>29. QED
    BY <1>3, <1>4, <1>5, <1>6, <1>7, <1>8, <1>9, <1>10, <1>11, <1>13, <1>14, <1>15, <1>16,
       <1>17, <1>18, <1>19, <1>20, <1>21, <1>22, <1>23, <1>24, <1>25, <1>26, <1>27, <1>28
    DEF Steps

LEMMA NextType == TypeInv /\ [Next]_vars => TypeInv'
  <1> SUFFICES ASSUME TypeInv, [Next]_vars PROVE TypeInv'
    OBVIOUS
  <1>1. CASE UNCHANGED vars
    BY <1>1 DEF vars, TypeInv, TypeOK, CallOK
  <1>2. CASE Next
    <2>1. PICK c \in Clients : Steps(c)
      BY <1>2, NextSteps
    <2>2. TypeOK' /\ CallOK(c)'
      BY <2>1, StepType
    <2>3. ASSUME NEW d \in Clients, d # c PROVE CallOK(d)'
      <3>1. Private(d)' = Private(d) /\ CallOK(d)
        BY <2>1, <2>3, StepIsPrivate DEF TypeInv
      <3>2. QED
        BY <3>1 DEF Private, CallOK
    <2>4. QED
      BY <2>2, <2>3 DEF TypeInv
  <1>3. QED
    BY <1>1, <1>2

\* Every variable keeps its type: no write, destroy or sweep goes past the largest
\* version or incarnation, or works on a control it does not have.
THEOREM TypeCorrect == Spec => []TypeOK
  <1>1. TypeInv => TypeOK
    BY DEF TypeInv
  <1>2. QED
    BY <1>1, InitType, NextType, PTL DEF Spec

-----------------------------------------------------------------------------
(* The fence, the sweep and the chunks.                                    *)

\* Where client c may be while a sweep is at work.
Calm(c) ==
  /\ pc[c] \in {"idle", "wEra", "wOpen", "wFence", "rFetch", "fRelease", "sList",
                "sClassify", "sDelete"}
  /\ pc[c] \in {"wEra", "wOpen"} => api[c] = "stream"
  /\ pc[c] = "fRelease" => epoch[c] # fence
  /\ pc[c] = "rFetch" => page[c] \subseteq Referenced

FenceInv == Sweeping => fence # 0 /\ \A c \in Clients : Calm(c)

\* What client c's call knows of the chunks.
ChunkOK(c) ==
  /\ pc[c] = "wFence" => page[c] = ChunksOf(new[c])
  /\ pc[c] = "wStage" => ChunksOf(new[c]) \subseteq chunks \cup page[c]
  /\ pc[c] \in {"wPutEra", "wPut"} => ChunksOf(new[c]) \subseteq chunks
  /\ pc[c] = "rFetch" => page[c] \subseteq chunks
  /\ pc[c] = "sDelete" => page[c] \cap Referenced = {}
  /\ pc[c] # "rMissing"

ChunkInv == TypeInv /\ FenceInv /\ ManifestIsBacked /\ \A c \in Clients : ChunkOK(c)

LEMMA InitChunks == Init => ChunkInv
  <1> SUFFICES ASSUME Init PROVE ChunkInv
    OBVIOUS
  <1>1. Referenced = {}
    BY DEF Init, Referenced, ChunksOf, Control
  <1>2. \A c \in Clients : pc[c] = "idle"
    BY DEF Init
  <1>3. FenceInv /\ \A c \in Clients : ChunkOK(c)
    BY <1>2 DEF FenceInv, Sweeping, ChunkOK
  <1>4. QED
    BY <1>1, <1>3, InitType DEF ChunkInv, ManifestIsBacked

\* While a sweep is at work nobody changes the value or the fence.
LEMMA SweepIsQuiet ==
  ASSUME ChunkInv, NEW c \in Clients, Steps(c), Sweeping
  PROVE  value' = value /\ fence' = fence /\ Referenced' = Referenced
  <1>0. Calm(c) /\ fence # 0
    BY DEF ChunkInv, FenceInv
  <1>1. value' = value
    BY <1>0 DEF Calm, Steps, store, Create, CompareExchange, Destroy, OpenStream,
       SetMaintenanceFence, ReleaseMaintenanceFence, SweepChunks, CreateReadEra, ExchangeEra,
       EnsureUnfenced, PutChunk, Sealed, CommitEra, UploadConditional, Adjudicate, Recheck,
       Unpublish, DestroyTombstone, DestroyBump, DestroyDelete, FetchChunk, ReleaseObserved,
       ListChunkPage, ClassifyChunkPage, SweepDelete, Abort
  <1>2. fence' = fence
    BY <1>0 DEF Calm, Steps, store, Create, CompareExchange, Destroy, OpenStream,
       SetMaintenanceFence, ReleaseMaintenanceFence, SweepChunks, CreateReadEra, ExchangeEra,
       EnsureUnfenced, PutChunk, Sealed, CommitEra, UploadConditional, Adjudicate, Recheck,
       Unpublish, DestroyTombstone, DestroyBump, DestroyDelete, FetchChunk, ReleaseObserved,
       FenceTag, ListChunkPage, ClassifyChunkPage, SweepDelete, Abort
  <1>3. QED
    BY <1>1, <1>2 DEF Referenced

\* A chunk goes only in a sweep, and only if the manifest does not name it.
LEMMA ChunksStay ==
  ASSUME ChunkInv, NEW c \in Clients, Steps(c)
  PROVE  \A k \in chunks : k \in chunks' \/ (Sweeping /\ k \notin Referenced)
  <1>1. CASE SweepDelete(c)
    <2>1. Sweeping /\ page[c] \cap Referenced = {}
      BY <1>1 DEF SweepDelete, Sweeping, ChunkInv, ChunkOK
    <2>2. chunks' = chunks \/ \E k \in page[c] : chunks' \in {chunks, chunks \ {k}}
      BY <1>1 DEF SweepDelete
    <2>3. QED
      BY <2>1, <2>2
  <1>2. CASE PutChunk(c)
    BY <1>2 DEF PutChunk
  <1>3. CASE ~ SweepDelete(c) /\ ~ PutChunk(c)
    <2>1. chunks' = chunks
      BY <1>3 DEF Steps, store, Create, CompareExchange, Destroy, OpenStream,
       SetMaintenanceFence, ReleaseMaintenanceFence, SweepChunks, CreateReadEra, ExchangeEra,
       EnsureUnfenced, Sealed, CommitEra, UploadConditional, Adjudicate, Recheck,
       Unpublish, DestroyTombstone, DestroyBump, DestroyDelete, FetchChunk, ReleaseObserved,
       ListChunkPage, ClassifyChunkPage, Abort
    <2>2. QED
      BY <2>1
  <1>4. QED
    BY <1>1, <1>2, <1>3

\* A manifest is published when its chunks are there.
LEMMA StepBacked ==
  ASSUME ChunkInv, NEW c \in Clients, Steps(c)
  PROVE  ManifestIsBacked'
  <1>0. TypeOK /\ ManifestIsBacked /\ ChunkOK(c) /\ CallOK(c)
    BY DEF ChunkInv, TypeInv
  <1>1. CASE value' = value
    <2>1. Referenced' = Referenced
      BY <1>1 DEF Referenced
    <2>2. QED
      BY <1>0, <2>1, ChunksStay DEF ManifestIsBacked
  <1>2. CASE value' = None
    BY <1>2 DEF ManifestIsBacked, Referenced
  <1>3. CASE UploadConditional(c) /\ value' = new[c]
    <2>1. new[c] \in Controls /\ ChunksOf(new[c]) \subseteq chunks /\ chunks' = chunks
      BY <1>0, <1>3 DEF UploadConditional, ChunkOK, CallOK, Writing
    <2>2. Referenced' \subseteq ChunksOf(new[c])
      BY <1>3 DEF Referenced, ChunksOf
    <2>3. QED
      BY <2>1, <2>2 DEF ManifestIsBacked
  <1>4. value' = value \/ value' = None \/ (UploadConditional(c) /\ value' = new[c])
    BY DEF Steps, store, Create, CompareExchange, Destroy, OpenStream,
       SetMaintenanceFence, ReleaseMaintenanceFence, SweepChunks, CreateReadEra, ExchangeEra,
       EnsureUnfenced, PutChunk, Sealed, CommitEra, UploadConditional, Adjudicate, Recheck,
       Unpublish, DestroyTombstone, DestroyBump, DestroyDelete, FetchChunk, ReleaseObserved,
       ListChunkPage, ClassifyChunkPage, SweepDelete, Abort
  <1>5. QED
    BY <1>1, <1>2, <1>3, <1>4

LEMMA OthersChunks ==
  ASSUME ChunkInv, NEW c \in Clients, Steps(c), NEW d \in Clients, d # c
  PROVE  ChunkOK(d)'
  <1>0. TypeOK /\ ChunkOK(d) /\ Private(d)' = Private(d)
    BY StepIsPrivate DEF ChunkInv, TypeInv
  <1>1. ASSUME Sweeping PROVE Calm(d)
    BY <1>1 DEF ChunkInv, FenceInv
  <1>2. pc[d] \in {"wStage", "wPutEra", "wPut"} => chunks \subseteq chunks'
    BY <1>1, ChunksStay DEF Calm
  <1>3. pc[d] = "rFetch" => page[d] \subseteq chunks'
    BY <1>0, <1>1, ChunksStay DEF Calm, ChunkOK
  <1>4. pc[d] = "sDelete" => page[d] \cap Referenced' = {}
    BY <1>0, SweepIsQuiet DEF Sweeping, ChunkOK
  <1>5. ChunksOf(new[d])' = ChunksOf(new[d])
    BY <1>0 DEF Private, ChunksOf
  <1>6. QED
    BY <1>0, <1>2, <1>3, <1>4, <1>5 DEF ChunkOK, Private

\* The client that takes the step has the chunks it counts on.
LEMMA StepChunks ==
  ASSUME ChunkInv, NEW c \in Clients, Steps(c)
  PROVE  ChunkOK(c)'
  <1>0. /\ TypeOK /\ ChunkOK(c) /\ CallOK(c) /\ ManifestIsBacked
        /\ pc \in [Clients -> PCs] /\ page \in [Clients -> SUBSET ChunkKeys]
        /\ new \in [Clients -> Controls \cup {None}]
    BY DEF ChunkInv, TypeInv, TypeOK
  <1> USE DEF Goto
  <1>1. CASE pc'[c] \in PCs \ {"wFence", "wStage", "wPutEra", "wPut", "rFetch", "sDelete",
                               "rMissing"}
    BY <1>1 DEF ChunkOK
  <1>2. ASSUME Return(c) PROVE ChunkOK(c)'
    BY <1>0, <1>1, <1>2 DEF Return, PCs
  <1>3. CASE \/ \E a \in {"stream", "whole"}, d \in Payloads : Create(c, a, d)
             \/ \E a \in {"stream", "whole"}, d \in Payloads : CompareExchange(c, a, d)
             \/ Destroy(c) \/ ReleaseMaintenanceFence(c) \/ SweepChunks(c)
             \/ DestroyTombstone(c) \/ ListChunkPage(c)
    BY <1>0, <1>1, <1>3 DEF Create, CompareExchange, Destroy, ReleaseMaintenanceFence,
       SweepChunks, DestroyTombstone, ListChunkPage, PCs
  <1>4. CASE DestroyBump(c) \/ DestroyDelete(c) \/ ReleaseObserved(c) \/ Abort(c)
             \/ Adjudicate(c) \/ Recheck(c)
    BY <1>0, <1>1, <1>2, <1>4 DEF DestroyBump, DestroyDelete, ReleaseObserved, Abort,
       Adjudicate, Recheck, PCs
  <1>5. CASE SetMaintenanceFence(c)
    BY <1>0, <1>1, <1>5 DEF SetMaintenanceFence, locals, PCs
  <1>6. CASE OpenStream(c)
    <2>1. pc'[c] = "rFetch" /\ page'[c] = Referenced /\ UNCHANGED <<value, chunks>>
      BY <1>0, <1>6 DEF OpenStream, store
    <2>2. QED
      BY <1>0, <2>1 DEF ChunkOK, ManifestIsBacked
  <1>7. CASE CreateReadEra(c)
    <2>1. pc'[c] \in {"wFence", "wStage"} /\ page'[c] = ChunksOf(new'[c])
      BY <1>0, <1>7 DEF CreateReadEra
    <2>2. QED
      BY <2>1 DEF ChunkOK, ChunksOf
  <1>8. CASE ExchangeEra(c)
    <2>1. CASE Return(c)
      BY <1>2, <2>1
    <2>2. CASE pc'[c] \in {"wFence", "wStage"} /\ page'[c] = ChunksOf(new'[c])
      BY <2>2 DEF ChunkOK, ChunksOf
    <2>3. QED
      BY <1>0, <1>8, <2>1, <2>2 DEF ExchangeEra
  <1>9. CASE EnsureUnfenced(c)
    <2>1. CASE pc'[c] = "wStage" /\ Keep(c)
      <3>1. page[c] = ChunksOf(new[c]) /\ page' = page /\ new' = new
        BY <1>0, <1>9, <2>1 DEF EnsureUnfenced, ChunkOK, Keep
      <3>2. QED
        BY <2>1, <3>1 DEF ChunkOK, ChunksOf
    <2>2. QED
      BY <1>0, <1>2, <1>9, <2>1 DEF EnsureUnfenced
  <1>10. CASE PutChunk(c)
    <2>1. PICK k \in page[c] : chunks' = chunks \cup {k} /\ page' = [page EXCEPT ![c] = @ \ {k}]
      BY <1>10 DEF PutChunk
    <2>2. pc[c] = "wStage" /\ pc' = pc /\ new' = new /\ page'[c] = page[c] \ {k}
      BY <1>0, <1>10, <2>1 DEF PutChunk
    <2>3. ChunksOf(new[c]) \subseteq chunks \cup page[c]
      BY <1>0, <2>2 DEF ChunkOK
    <2>4. QED
      BY <2>1, <2>2, <2>3 DEF ChunkOK, ChunksOf
  <1>11. CASE Sealed(c)
    <2>1. /\ pc[c] = "wStage" /\ page[c] = {} /\ pc'[c] \in {"wPut", "wPutEra"}
          /\ chunks' = chunks
      BY <1>0, <1>11 DEF Sealed, store
    <2>2. ChunksOf(new[c]) \subseteq chunks /\ new[c] \in Controls
      BY <1>0, <2>1 DEF ChunkOK, CallOK, Writing
    <2>3. new'[c] = [new[c] EXCEPT !.id = minted + 1]
      BY <1>0, <1>11 DEF Sealed
    <2>4. ChunksOf(new'[c]) = ChunksOf(new[c])
      BY <2>2, <2>3 DEF ChunksOf, Controls
    <2>5. QED
      BY <2>1, <2>2, <2>4 DEF ChunkOK, ChunksOf
  <1>12. CASE CommitEra(c)
    <2>1. CASE pc'[c] = "wPut" /\ Keep(c)
      BY <1>0, <1>12, <2>1 DEF CommitEra, ChunkOK, ChunksOf, Keep, store
    <2>2. QED
      BY <1>0, <1>2, <1>12, <2>1 DEF CommitEra
  <1>13. CASE UploadConditional(c)
    BY <1>0, <1>1, <1>2, <1>13 DEF UploadConditional, PCs
  <1>14. CASE Unpublish(c) /\ (Return(c) \/ Goto(c, "wEra"))
    BY <1>0, <1>1, <1>2, <1>14 DEF PCs
  <1>15. CASE FetchChunk(c)
    <2>0. pc[c] = "rFetch" /\ page[c] \subseteq chunks /\ chunks' = chunks
      BY <1>0, <1>15 DEF FetchChunk, ChunkOK, store
    <2>1. CASE \E k \in page[c] : page' = [page EXCEPT ![c] = @ \ {k}] /\ pc' = pc
      <3>1. page'[c] \subseteq page[c] /\ pc'[c] = "rFetch"
        BY <1>0, <2>0, <2>1
      <3>2. QED
        BY <2>0, <3>1 DEF ChunkOK
    <2>2. QED
      BY <1>2, <1>15, <2>0, <2>1 DEF FetchChunk
  <1>16. CASE ClassifyChunkPage(c)
    <2>1. pc'[c] = "sDelete" /\ page'[c] = page[c] \ Referenced /\ value' = value
      BY <1>0, <1>16 DEF ClassifyChunkPage, store
    <2>2. QED
      BY <2>1 DEF ChunkOK, Referenced
  <1>17. CASE SweepDelete(c)
    <2>0. pc[c] = "sDelete" /\ page[c] \cap Referenced = {} /\ value' = value
      BY <1>0, <1>17 DEF SweepDelete, ChunkOK
    <2>1. CASE \E k \in page[c] : page' = [page EXCEPT ![c] = @ \ {k}] /\ pc' = pc
      <3>1. page'[c] \subseteq page[c] /\ pc'[c] = "sDelete" /\ Referenced' = Referenced
        BY <1>0, <2>0, <2>1 DEF Referenced
      <3>2. QED
        BY <2>0, <3>1 DEF ChunkOK
    <2>2. QED
      BY <1>2, <1>17, <2>1 DEF SweepDelete
  <1>18. QED
    BY <1>3, <1>4, <1>5, <1>6, <1>7, <1>8, <1>9, <1>10, <1>11, <1>12, <1>13, <1>14, <1>15,
       <1>16, <1>17
    DEF Steps

\* A sweep that is at work stays behind its fence, with everyone calm.
LEMMA StepFence ==
  ASSUME ChunkInv, NEW c \in Clients, Steps(c)
  PROVE  FenceInv'
  <1>0. TypeOK /\ FenceInv /\ ChunkOK(c) /\ pc \in [Clients -> PCs]
    BY DEF ChunkInv, TypeInv, TypeOK
  <1> SUFFICES ASSUME Sweeping' PROVE fence' # 0 /\ \A d \in Clients : Calm(d)'
    BY DEF FenceInv
  <1>1. CASE Sweeping
    <2>0. value' = value /\ fence' = fence /\ Referenced' = Referenced /\ fence # 0 /\ Calm(c)
      BY <1>0, <1>1, SweepIsQuiet DEF FenceInv
    <2>1. ASSUME NEW d \in Clients, d # c PROVE Calm(d)'
      <3>1. Calm(d) /\ Private(d)' = Private(d)
        BY <1>0, <1>1, <2>1, StepIsPrivate DEF FenceInv
      <3>2. QED
        BY <2>0, <3>1 DEF Calm, Private
    <2>2. Calm(c)'
      <3> USE DEF Goto
      <3>1. CASE pc'[c] \in {"idle", "wFence", "sList", "sClassify", "sDelete"}
        BY <3>1 DEF Calm
      <3>2. ASSUME Return(c) PROVE Calm(c)'
        BY <1>0, <3>1, <3>2 DEF Return
      <3>3. CASE \/ \E a \in {"stream", "whole"}, d \in Payloads : Create(c, a, d)
                 \/ \E a \in {"stream", "whole"}, d \in Payloads : CompareExchange(c, a, d)
        <4>1. pc'[c] \in {"wEra", "wOpen"} /\ api'[c] = "stream"
          BY <1>0, <1>1, <3>3 DEF Create, CompareExchange, MayBegin, TypeOK
        <4>2. QED
          BY <4>1 DEF Calm
      <3>4. CASE Destroy(c) \/ ReleaseMaintenanceFence(c) \/ SetMaintenanceFence(c)
        BY <1>1, <2>0, <3>4 DEF Destroy, ReleaseMaintenanceFence, SetMaintenanceFence
      <3>5. CASE OpenStream(c)
        <4>1. pc'[c] = "rFetch" /\ page'[c] = Referenced
          BY <1>0, <3>5 DEF OpenStream, TypeOK
        <4>2. QED
          BY <2>0, <4>1 DEF Calm
      <3>6. CASE SweepChunks(c) \/ ListChunkPage(c) \/ ClassifyChunkPage(c)
        BY <1>0, <3>1, <3>6 DEF SweepChunks, ListChunkPage, ClassifyChunkPage
      <3>7. CASE CreateReadEra(c) \/ ExchangeEra(c)
        <4>1. api[c] = "stream"
          BY <2>0, <3>7 DEF CreateReadEra, ExchangeEra, Calm
        <4>2. QED
          BY <1>0, <3>1, <3>2, <3>7, <4>1 DEF CreateReadEra, ExchangeEra
      <3>8. CASE EnsureUnfenced(c)
        BY <2>0, <3>2, <3>8 DEF EnsureUnfenced
      <3>9. CASE FetchChunk(c)
        <4>1. pc[c] = "rFetch" /\ page[c] \subseteq Referenced /\ page[c] \subseteq chunks
          BY <1>0, <2>0, <3>9 DEF FetchChunk, Calm, ChunkOK
        <4>2. CASE \E k \in page[c] : page' = [page EXCEPT ![c] = @ \ {k}] /\ pc' = pc
          <5>1. page'[c] \subseteq page[c] /\ pc'[c] = "rFetch"
            BY <1>0, <4>1, <4>2 DEF TypeOK
          <5>2. QED
            BY <2>0, <4>1, <5>1 DEF Calm
        <4>3. QED
          BY <3>2, <3>9, <4>1, <4>2 DEF FetchChunk
      <3>10. CASE ReleaseObserved(c) \/ Abort(c)
        BY <3>2, <3>10 DEF ReleaseObserved, Abort
      <3>11. CASE SweepDelete(c)
        BY <1>0, <3>1, <3>2, <3>11 DEF SweepDelete
      <3>12. CASE pc[c] \in {"wStage", "dTombstone", "dBump", "dDelete"} \cup Committing
        BY <2>0, <3>12 DEF Calm, Committing
      <3>13. QED
        BY <3>3, <3>4, <3>5, <3>6, <3>7, <3>8, <3>9, <3>10, <3>11, <3>12
        DEF Steps, PutChunk, Sealed, CommitEra, UploadConditional, Adjudicate, Recheck,
            Unpublish, DestroyTombstone, DestroyBump, DestroyDelete, Committing
    <2>3. QED
      BY <2>0, <2>1, <2>2
  <1>2. CASE ~ Sweeping
    <2>1. SweepChunks(c)
      <3>1. PICK d \in Clients : pc'[d] \in {"sList", "sClassify", "sDelete"}
        BY DEF Sweeping
      <3>2. d = c
        <4>1. d # c => pc'[d] = pc[d]
          BY <1>0, StepIsPrivate DEF Private
        <4>2. QED
          BY <1>2, <3>1, <4>1 DEF Sweeping
      <3>3. pc[c] \notin {"sList", "sClassify", "sDelete"}
        BY <1>2 DEF Sweeping
      <3>4. CASE Return(c)
        BY <1>0, <3>1, <3>2, <3>4 DEF Return
      <3>5. QED
        BY <1>0, <3>1, <3>2, <3>3, <3>4
        DEF Steps, Goto, Create, CompareExchange, Destroy, OpenStream,
            SetMaintenanceFence, ReleaseMaintenanceFence, CreateReadEra, ExchangeEra,
            EnsureUnfenced, PutChunk, Sealed, CommitEra, UploadConditional, Adjudicate, Recheck,
            Unpublish, DestroyTombstone, DestroyBump, DestroyDelete, FetchChunk,
            ReleaseObserved, ListChunkPage, ClassifyChunkPage, SweepDelete, Abort, locals
    <2>2. /\ fence # 0 /\ fence' = fence /\ Quiesced(c) /\ pc' = [pc EXCEPT ![c] = "sList"]
          /\ epoch' = epoch
      BY <2>1 DEF SweepChunks, store, Goto
    <2>3. ASSUME NEW d \in Clients, d # c PROVE Calm(d)'
      BY <1>0, <2>2, <2>3 DEF Quiesced, Calm
    <2>4. Calm(c)'
      BY <1>0, <2>2 DEF Calm
    <2>5. QED
      BY <2>2, <2>3, <2>4
  <1>3. QED
    BY <1>1, <1>2

LEMMA NextChunks == ChunkInv /\ [Next]_vars => ChunkInv'
  <1> SUFFICES ASSUME ChunkInv, [Next]_vars PROVE ChunkInv'
    OBVIOUS
  <1>1. TypeInv'
    BY NextType DEF ChunkInv
  <1>2. CASE UNCHANGED vars
    BY <1>1, <1>2 DEF vars, ChunkInv, FenceInv, Sweeping, Calm, ManifestIsBacked, ChunkOK,
       Referenced, ChunksOf
  <1>3. CASE Next
    <2>1. PICK c \in Clients : Steps(c)
      BY <1>3, NextSteps
    <2>2. \A d \in Clients : ChunkOK(d)'
      BY <2>1, StepChunks, OthersChunks
    <2>3. QED
      BY <1>1, <2>1, <2>2, StepFence, StepBacked DEF ChunkInv
  <1>4. QED
    BY <1>2, <1>3

\* The fence stands as long as a sweep is at work, against every late release.
THEOREM SweepStaysFencedTheorem == Spec => []SweepStaysFenced
  <1>1. ChunkInv => SweepStaysFenced
    BY DEF ChunkInv, FenceInv, SweepStaysFenced
  <1>2. QED
    BY <1>1, InitChunks, NextChunks, PTL DEF Spec

\* The manifest at the key never names a chunk that is not there.
THEOREM ManifestIsBackedTheorem == Spec => []ManifestIsBacked
  <1>1. ChunkInv => ManifestIsBacked
    BY DEF ChunkInv
  <1>2. QED
    BY <1>1, InitChunks, NextChunks, PTL DEF Spec

\* No reader of a chunked value meets a missing chunk.
THEOREM SnapshotIsWholeTheorem == Spec => []SnapshotIsWhole
  <1>1. ChunkInv => SnapshotIsWhole
    BY DEF ChunkInv, ChunkOK, SnapshotIsWhole
  <1>2. QED
    BY <1>1, InitChunks, NextChunks, PTL DEF Spec

-----------------------------------------------------------------------------
(* Incarnations, versions and commit ids.                                  *)

\* In its incarnation control a, or a later version, is at the key.
Holds(a) ==
  a.inc = counter =>
    /\ value # None
    /\ value.inc = a.inc
    /\ value.ver >= a.ver
    /\ value.ver = a.ver => value = a

\* What client c's call knows of incarnations and commit ids.
EraOK(c) ==
  /\ pc[c] \in {"wEra"} \cup Writing => new[c].inc <= counter
  /\ pc[c] \in {"wOpen"} \cup Destroying => seen[c].inc <= counter
  /\ pc[c] \in {"wFence", "wStage", "wPutEra", "wPut"} /\ seen[c] # None =>
       new[c].inc = seen[c].inc /\ new[c].ver = seen[c].ver + 1
  /\ pc[c] = "wEvict" => new[c].inc < counter
  /\ pc[c] = "dDelete" => seen[c].inc < counter
  /\ pc[c] = "wRecheck" => Holds(new[c])
  /\ pc[c] \in Committing =>
       /\ new[c].id \in 1..minted
       /\ value # None /\ value.id = new[c].id => value = new[c]

EraInv ==
  /\ TypeInv
  /\ value # None => value.inc <= counter /\ value.id <= minted
  /\ \A a \in acked : a.inc <= counter /\ Holds(a)
  /\ \A c \in Clients : EraOK(c)
  /\ \A c, d \in Clients :
       pc[c] \in Committing /\ pc[d] \in Committing /\ c # d => new[c].id # new[d].id

LEMMA InitEra == Init => EraInv
  <1> SUFFICES ASSUME Init PROVE EraInv
    OBVIOUS
  <1>1. value # None => value.inc <= counter /\ value.id <= minted
    BY DEF Init, Control
  <1>2. \A c \in Clients : pc[c] = "idle"
    BY DEF Init
  <1>3. QED
    BY <1>1, <1>2, InitType DEF Init, EraInv, EraOK, Writing, Destroying, Committing

\* What a step does to the key: nothing, the publication of client c's control over
\* the one it expects, the removal of a control of a closed incarnation, or the
\* close of the open one.
KeyStep(c) ==
  \/ UNCHANGED <<value, counter>>
  \/ /\ pc[c] = "wPut" /\ value = seen[c] /\ value' = new[c] /\ UNCHANGED counter
  \/ /\ value # None /\ value.inc < counter /\ value' = None /\ UNCHANGED counter
  \/ counter' = counter + 1 /\ UNCHANGED value

LEMMA StepOfKey ==
  ASSUME EraInv, NEW c \in Clients, Steps(c)
  PROVE  KeyStep(c)
  <1>0. TypeOK /\ CallOK(c) /\ EraOK(c) /\ None \notin Controls
    BY NoControlAssumption DEF EraInv, TypeInv
  <1>1. CASE UploadConditional(c)
    BY <1>1 DEF UploadConditional, KeyStep
  <1>2. CASE Unpublish(c)
    <2>1. new[c] \in Controls /\ new[c].inc < counter
      BY <1>0, <1>2 DEF Unpublish, CallOK, EraOK, Writing
    <2>2. QED
      BY <1>0, <1>2, <2>1 DEF Unpublish, KeyStep
  <1>3. CASE DestroyBump(c)
    BY <1>3 DEF DestroyBump, KeyStep
  <1>4. CASE DestroyDelete(c)
    <2>1. seen[c] \in Controls /\ seen[c].inc < counter
      BY <1>0, <1>4 DEF DestroyDelete, CallOK, EraOK, Destroying
    <2>2. QED
      BY <1>0, <1>4, <2>1 DEF DestroyDelete, KeyStep
  <1>5. CASE ~ (UploadConditional(c) \/ Unpublish(c) \/ DestroyBump(c) \/ DestroyDelete(c))
    <2>1. UNCHANGED <<value, counter>>
      BY <1>5 DEF Steps, store, Create, CompareExchange, Destroy, OpenStream,
         SetMaintenanceFence, ReleaseMaintenanceFence, SweepChunks, CreateReadEra,
         ExchangeEra, EnsureUnfenced, PutChunk, Sealed, CommitEra, Adjudicate, Recheck,
         DestroyTombstone, FetchChunk, ReleaseObserved, ListChunkPage, ClassifyChunkPage,
         SweepDelete, Abort
    <2>2. QED
      BY <2>1 DEF KeyStep
  <1>6. QED
    BY <1>1, <1>2, <1>3, <1>4, <1>5

\* The counter and the commit ids only grow.
LEMMA Growing ==
  ASSUME EraInv, NEW c \in Clients, Steps(c)
  PROVE  /\ counter \in Nat /\ counter' \in Nat /\ counter <= counter'
         /\ minted \in Nat /\ minted' \in Nat /\ minted <= minted'
  <1>0. TypeOK /\ TypeOK'
    BY StepType DEF EraInv, TypeInv
  <1>1. counter \in Nat /\ counter' \in Nat /\ minted \in Nat /\ minted' \in Nat
    BY <1>0, ValueAssumption DEF TypeOK
  <1>2. counter <= counter'
    BY <1>1, StepOfKey DEF KeyStep
  <1>3. minted' = minted \/ minted' = minted + 1
    BY DEF Steps, drawn, Create, CompareExchange, Destroy, OpenStream,
       SetMaintenanceFence, ReleaseMaintenanceFence, SweepChunks, CreateReadEra,
       ExchangeEra, EnsureUnfenced, PutChunk, Sealed, CommitEra, UploadConditional, Adjudicate,
       Recheck, Unpublish, DestroyTombstone, DestroyBump, DestroyDelete, FetchChunk,
       ReleaseObserved, ListChunkPage, ClassifyChunkPage, SweepDelete, Abort
  <1>4. QED
    BY <1>1, <1>2, <1>3

\* A control that holds the key goes on holding it.
LEMMA HoldsStays ==
  ASSUME EraInv, NEW c \in Clients, Steps(c), NEW a \in Controls, a.inc <= counter, Holds(a)
  PROVE  Holds(a)'
  <1>0. /\ TypeOK /\ CallOK(c) /\ EraOK(c) /\ counter \in Nat /\ a.inc \in Nat /\ a.ver \in Nat
        /\ value # None => value.inc \in Nat /\ value.ver \in Nat
    BY Growing, ControlFields, ValueAssumption DEF EraInv, TypeInv, TypeOK
  <1>1. CASE UNCHANGED <<value, counter>>
    BY <1>1 DEF Holds
  <1>2. CASE pc[c] = "wPut" /\ value = seen[c] /\ value' = new[c] /\ UNCHANGED counter
    <2>1. new[c] \in Controls /\ new[c] # None
      BY <1>0, <1>2, ControlFields DEF CallOK, Writing
    <2>2. seen[c] # None => new[c].inc = seen[c].inc /\ new[c].ver = seen[c].ver + 1
      BY <1>0, <1>2 DEF EraOK
    <2>3. QED
      BY <1>0, <1>2, <2>1, <2>2 DEF Holds
  <1>3. CASE value # None /\ value.inc < counter /\ value' = None /\ UNCHANGED counter
    BY <1>0, <1>3 DEF Holds
  <1>4. CASE counter' = counter + 1 /\ UNCHANGED value
    BY <1>0, <1>4 DEF Holds
  <1>5. QED
    BY <1>1, <1>2, <1>3, <1>4, StepOfKey DEF KeyStep

\* No other's commit is taken for one's own.
LEMMA IdsApart ==
  ASSUME EraInv, NEW c \in Clients, Steps(c), NEW a \in Controls,
         value # None /\ value.id = a.id => value = a,
         pc[c] = "wPut" => new[c] = a \/ new[c].id # a.id
  PROVE  value' # None /\ value'.id = a.id => value' = a
  BY StepOfKey DEF KeyStep

LEMMA OthersEra ==
  ASSUME EraInv, NEW c \in Clients, Steps(c), NEW d \in Clients, d # c
  PROVE  EraOK(d)'
  <1>0. TypeOK /\ CallOK(d) /\ EraOK(d) /\ Private(d)' = Private(d)
    BY StepIsPrivate DEF EraInv, TypeInv
  <1>1. /\ counter \in Nat /\ counter' \in Nat /\ counter <= counter'
        /\ minted \in Nat /\ minted' \in Nat /\ minted <= minted'
    BY Growing
  <1>2. /\ pc[d] \in {"wEra"} \cup Writing => new[d] \in Controls /\ new[d].inc \in Nat
        /\ pc[d] \in {"wOpen"} \cup Destroying => seen[d].inc \in Nat
        /\ pc[d] \in Committing => new[d] \in Controls
    BY <1>0, ControlFields, ValueAssumption DEF CallOK, Writing, Committing
  <1>3. ASSUME pc[d] = "wRecheck" PROVE Holds(new[d])'
    <2>1. ASSUME NEW a, a = new[d] PROVE Holds(a)'
      BY <1>0, <1>2, <1>3, <2>1, HoldsStays DEF EraOK, Writing
    <2>2. QED
      BY <1>0, <2>1 DEF Holds, Private
  <1>4. ASSUME pc[d] \in Committing
        PROVE  value' # None /\ value'.id = new[d].id => value' = new[d]
    <2>1. pc[c] = "wPut" => new[c].id # new[d].id
      BY <1>4 DEF EraInv, Committing
    <2>2. QED
      BY <1>0, <1>2, <1>4, <2>1, IdsApart DEF EraOK
  <1>5. pc[d] \in Committing => new[d].id \in 1..minted'
    BY <1>0, <1>1 DEF EraOK
  <1>6. QED
    BY <1>0, <1>1, <1>2, <1>3, <1>4, <1>5 DEF EraOK, Private, Writing, Destroying


\* Actions after which no clause of EraOK(c) applies, or none changes.
LEMMA QuietEra ==
  ASSUME EraInv, NEW c \in Clients, Steps(c),
         \/ pc'[c] \notin {"wEra", "wOpen"} \cup Writing \cup Destroying
         \/ UNCHANGED <<value, counter, minted, pc, new, seen>>
  PROVE  EraOK(c)'
  <1>1. CASE pc'[c] \notin {"wEra", "wOpen"} \cup Writing \cup Destroying
    BY <1>1 DEF EraOK, Writing, Committing, Destroying
  <1>2. CASE UNCHANGED <<value, counter, minted, pc, new, seen>>
    BY <1>2 DEF EraInv, EraOK, Holds
  <1>3. QED
    BY <1>1, <1>2

\* The steps of a call up to its first chunk.
LEMMA BeginEra ==
  ASSUME EraInv, NEW c \in Clients, Steps(c),
         \/ \E a \in {"stream", "whole"}, d \in Payloads : Create(c, a, d)
         \/ \E a \in {"stream", "whole"}, d \in Payloads : CompareExchange(c, a, d)
         \/ Destroy(c) \/ CreateReadEra(c) \/ ExchangeEra(c) \/ EnsureUnfenced(c)
  PROVE  EraOK(c)'
  <1>0. /\ TypeOK /\ CallOK(c) /\ EraOK(c) /\ counter \in Nat
        /\ 0 \in 0..MaxInc /\ 0 \in 0..MaxVersion /\ None \notin Controls
        /\ value # None => value \in Controls /\ value.inc <= counter
    BY ValueAssumption, NoControlAssumption DEF EraInv, TypeInv, TypeOK
  <1>1. CASE \E a \in {"stream", "whole"}, d \in Payloads : Create(c, a, d)
    <2>1. PICK a \in {"stream", "whole"}, d \in Payloads : Create(c, a, d)
      BY <1>1
    <2>2. pc'[c] = "wEra" /\ new'[c].inc = 0 /\ counter' = counter
      BY <1>0, <2>1, ControlType DEF Create, Goto, TypeOK, store
    <2>3. QED
      BY <1>0, <2>2 DEF EraOK, Writing, Committing, Destroying
  <1>2. CASE \E a \in {"stream", "whole"}, d \in Payloads : CompareExchange(c, a, d)
    <2>1. PICK a \in {"stream", "whole"}, d \in Payloads : CompareExchange(c, a, d)
      BY <1>2
    <2>2. pc'[c] = "wOpen" /\ seen'[c] = value /\ counter' = counter /\ value # None
      BY <1>0, <2>1 DEF CompareExchange, Goto, TypeOK, store
    <2>3. QED
      BY <1>0, <2>2 DEF EraOK, Writing, Committing, Destroying
  <1>3. CASE Destroy(c)
    <2>2. pc'[c] = "dTombstone" /\ seen'[c] = value /\ counter' = counter /\ value # None
      BY <1>0, <1>3 DEF Destroy, Goto, TypeOK, store
    <2>3. QED
      BY <1>0, <2>2 DEF EraOK, Writing, Committing, Destroying
  <1>4. CASE CreateReadEra(c)
    <2>1. /\ pc'[c] \in {"wFence", "wStage"} /\ seen'[c] = None /\ counter' = counter
          /\ new'[c] = Control(counter, 0, new[c].data)
      BY <1>0, <1>4 DEF CreateReadEra, Goto, TypeOK, CallOK, store
    <2>2. new[c] \in Controls
      BY <1>0, <1>4 DEF CreateReadEra, CallOK
    <2>3. new'[c].inc = counter
      BY <2>1 DEF Control
    <2>4. QED
      BY <1>0, <2>1, <2>3 DEF EraOK, Writing, Committing, Destroying
  <1>5. CASE ExchangeEra(c)
    <2>0. seen[c] \in Controls /\ seen[c].inc <= counter /\ seen[c].inc \in Nat
      BY <1>0, <1>5, ControlFields, ValueAssumption DEF ExchangeEra, CallOK, EraOK
    <2>1. CASE Return(c)
      BY <1>0, <2>1, QuietEra DEF Return, TypeOK, Writing, Destroying
    <2>2. CASE ~ Return(c)
      <3>1. /\ pc'[c] \in {"wFence", "wStage"} /\ seen' = seen /\ counter' = counter
            /\ new'[c] = Control(seen[c].inc, seen[c].ver + 1, new[c].data)
        BY <1>0, <1>5, <2>2 DEF ExchangeEra, Goto, TypeOK, CallOK, store
      <3>2. new'[c].inc = seen[c].inc /\ new'[c].ver = seen[c].ver + 1
        BY <3>1 DEF Control
      <3>3. QED
        BY <1>0, <2>0, <3>1, <3>2 DEF EraOK, Writing, Committing, Destroying
    <2>3. QED
      BY <2>1, <2>2
  <1>6. CASE EnsureUnfenced(c)
    <2>1. CASE Return(c)
      BY <1>0, <2>1, QuietEra DEF Return, TypeOK, Writing, Destroying
    <2>2. CASE ~ Return(c)
      <3>1. pc[c] = "wFence" /\ pc'[c] = "wStage" /\ UNCHANGED <<new, seen, counter>>
        BY <1>0, <1>6, <2>2 DEF EnsureUnfenced, Goto, Keep, TypeOK, store
      <3>2. QED
        BY <1>0, <3>1 DEF EraOK, Writing, Committing, Destroying
    <2>3. QED
      BY <2>1, <2>2
  <1>7. QED
    BY <1>1, <1>2, <1>3, <1>4, <1>5, <1>6

\* From the seal to the receipt.
LEMMA CommitEras ==
  ASSUME EraInv, NEW c \in Clients, Steps(c),
         \/ Sealed(c) \/ CommitEra(c) \/ UploadConditional(c)
         \/ Adjudicate(c) \/ Recheck(c)
  PROVE  EraOK(c)'
  <1>0. /\ TypeOK /\ CallOK(c) /\ EraOK(c) /\ counter \in Nat /\ minted \in Nat
        /\ None \notin Controls
        /\ value # None => /\ value \in Controls /\ value.inc <= counter
                           /\ value.id <= minted /\ value.id \in Nat
    BY ValueAssumption, NoControlAssumption, ControlFields
    DEF EraInv, TypeInv, TypeOK
  <1>1. CASE Return(c)
    BY <1>0, <1>1, QuietEra DEF Return, TypeOK, Writing, Destroying
  <1>2. CASE Sealed(c)
    <2>1. /\ pc[c] = "wStage" /\ pc'[c] \in {"wPut", "wPutEra"} /\ minted' = minted + 1
          /\ UNCHANGED <<value, counter, seen>> /\ new'[c] = [new[c] EXCEPT !.id = minted + 1]
      BY <1>0, <1>2 DEF Sealed, Goto, TypeOK, store
    <2>2. new[c] \in Controls
      BY <1>0, <2>1 DEF CallOK, Writing
    <2>3. new'[c].inc = new[c].inc /\ new'[c].ver = new[c].ver /\ new'[c].id = minted + 1
      BY <2>1, <2>2 DEF Controls
    <2>4. QED
      BY <1>0, <2>1, <2>3 DEF EraOK, Writing, Committing, Destroying
  <1>3. CASE CommitEra(c) /\ ~ Return(c)
    <2>1. /\ pc[c] = "wPutEra" /\ pc'[c] = "wPut"
          /\ UNCHANGED <<value, counter, new, seen, minted>>
      BY <1>0, <1>3 DEF CommitEra, Goto, Keep, TypeOK, store, drawn
    <2>2. QED
      BY <1>0, <2>1 DEF EraOK, Writing, Committing, Destroying
  <1>4. CASE UploadConditional(c) /\ ~ Return(c)
    <2>1. /\ pc[c] = "wPut" /\ UNCHANGED <<counter, new, seen, minted>>
          /\ \/ pc'[c] \in {"wRecheck", "wAdjudicate"} /\ value' = new[c]
             \/ pc'[c] = "wAdjudicate" /\ value' = value
      BY <1>0, <1>4 DEF UploadConditional, Goto, Keep, TypeOK, drawn
    <2>2. new[c] \in Controls /\ new[c].ver \in Nat
      BY <1>0, <2>1, ControlFields, ValueAssumption DEF CallOK, Writing
    <2>3. QED
      BY <1>0, <2>1, <2>2 DEF EraOK, Writing, Committing, Destroying, Holds
  <1>5. CASE Adjudicate(c) /\ ~ Return(c)
    <2>1. /\ pc[c] = "wAdjudicate" /\ pc'[c] = "wRecheck" /\ value # None
          /\ value.id = new[c].id /\ UNCHANGED <<value, counter, new, seen, minted>>
      BY <1>0, <1>5 DEF Adjudicate, Goto, Keep, TypeOK, store, drawn
    <2>2. value = new[c] /\ new[c] \in Controls /\ new[c].ver \in Nat
      BY <1>0, <2>1, ControlFields, ValueAssumption DEF CallOK, Writing, EraOK, Committing
    <2>3. QED
      BY <1>0, <2>1, <2>2 DEF EraOK, Writing, Committing, Destroying, Holds
  <1>6. CASE Recheck(c) /\ ~ Return(c)
    <2>1. /\ pc[c] = "wRecheck" /\ pc'[c] = "wEvict" /\ counter # new[c].inc
          /\ UNCHANGED <<value, counter, new, seen, minted>>
      BY <1>0, <1>6 DEF Recheck, Goto, Keep, TypeOK, store, drawn
    <2>2. new[c] \in Controls /\ new[c].inc \in Nat
      BY <1>0, <2>1, ControlFields, ValueAssumption DEF CallOK, Writing
    <2>3. QED
      BY <1>0, <2>1, <2>2 DEF EraOK, Writing, Committing, Destroying
  <1>7. QED
    BY <1>1, <1>2, <1>3, <1>4, <1>5, <1>6

\* The retry of a create, and destroy.
LEMMA CloseEras ==
  ASSUME EraInv, NEW c \in Clients, Steps(c),
         \/ (Unpublish(c) /\ Goto(c, "wEra") /\ Keep(c))
         \/ DestroyTombstone(c) \/ DestroyBump(c) \/ DestroyDelete(c)
  PROVE  EraOK(c)'
  <1>0. /\ TypeOK /\ CallOK(c) /\ EraOK(c) /\ counter \in Nat
    BY ValueAssumption DEF EraInv, TypeInv, TypeOK
  <1>1. CASE Return(c)
    BY <1>0, <1>1, QuietEra DEF Return, TypeOK, Writing, Destroying
  <1>2. CASE Unpublish(c) /\ Goto(c, "wEra") /\ Keep(c)
    <2>1. pc[c] = "wEvict" /\ pc'[c] = "wEra" /\ UNCHANGED <<counter, new, seen>>
      BY <1>0, <1>2 DEF Unpublish, Goto, Keep, TypeOK
    <2>2. QED
      BY <1>0, <2>1 DEF EraOK, Writing, Committing, Destroying
  <1>3. CASE DestroyTombstone(c)
    <2>1. pc[c] = "dTombstone" /\ pc'[c] = "dBump" /\ UNCHANGED <<counter, new, seen>>
      BY <1>0, <1>3 DEF DestroyTombstone, Goto, Keep, TypeOK
    <2>2. QED
      BY <1>0, <2>1 DEF EraOK, Writing, Committing, Destroying
  <1>4. CASE DestroyBump(c) /\ ~ Return(c)
    <2>1. pc[c] = "dBump" /\ pc'[c] = "dDelete" /\ counter' = counter + 1 /\ seen' = seen
      BY <1>0, <1>4 DEF DestroyBump, Goto, Keep, TypeOK
    <2>2. seen[c].inc \in Nat
      BY <1>0, <2>1, ControlFields, ValueAssumption DEF CallOK, Destroying
    <2>3. QED
      BY <1>0, <2>1, <2>2 DEF EraOK, Writing, Committing, Destroying
  <1>5. CASE DestroyDelete(c)
    BY <1>1, <1>5 DEF DestroyDelete
  <1>6. QED
    BY <1>1, <1>2, <1>3, <1>4, <1>5

LEMMA StepEra ==
  ASSUME EraInv, NEW c \in Clients, Steps(c)
  PROVE  EraOK(c)'
  <1>0. TypeOK /\ pc \in [Clients -> PCs]
    BY DEF EraInv, TypeInv, TypeOK
  <1>1. CASE \/ \E a \in {"stream", "whole"}, d \in Payloads : Create(c, a, d)
             \/ \E a \in {"stream", "whole"}, d \in Payloads : CompareExchange(c, a, d)
             \/ Destroy(c) \/ CreateReadEra(c) \/ ExchangeEra(c) \/ EnsureUnfenced(c)
    BY <1>1, BeginEra
  <1>2. CASE \/ Sealed(c) \/ CommitEra(c) \/ UploadConditional(c)
             \/ Adjudicate(c) \/ Recheck(c)
    BY <1>2, CommitEras
  <1>3. CASE \/ (Unpublish(c) /\ Goto(c, "wEra") /\ Keep(c))
             \/ DestroyTombstone(c) \/ DestroyBump(c) \/ DestroyDelete(c)
    BY <1>3, CloseEras
  <1>4. CASE Return(c)
    BY <1>0, <1>4, QuietEra DEF Return, Writing, Destroying
  <1>5. CASE \/ OpenStream(c) \/ ReleaseMaintenanceFence(c) \/ SweepChunks(c)
             \/ ListChunkPage(c) \/ ClassifyChunkPage(c)
    <2>1. pc'[c] \in {"rFetch", "fRelease", "sList", "sClassify", "sDelete"}
      BY <1>0, <1>5 DEF OpenStream, ReleaseMaintenanceFence, SweepChunks, ListChunkPage,
         ClassifyChunkPage, Goto
    <2>2. QED
      BY <2>1, QuietEra DEF Writing, Destroying
  <1>6. CASE SetMaintenanceFence(c) \/ PutChunk(c)
    BY <1>6, QuietEra DEF SetMaintenanceFence, PutChunk, locals, drawn
  <1>7. CASE (FetchChunk(c) \/ SweepDelete(c)) /\ ~ Return(c)
    <2>1. \/ UNCHANGED <<value, counter, minted, pc, new, seen>>
          \/ pc'[c] = "rMissing"
      BY <1>0, <1>7 DEF FetchChunk, SweepDelete, store, drawn, Goto
    <2>2. QED
      BY <2>1, QuietEra DEF Writing, Destroying
  <1>8. CASE ReleaseObserved(c) \/ Abort(c)
    BY <1>4, <1>8 DEF ReleaseObserved, Abort
  <1>9. QED
    BY <1>1, <1>2, <1>3, <1>4, <1>5, <1>6, <1>7, <1>8 DEF Steps

\* A commit id is drawn once: no two commits under way share one.
LEMMA IdsStayApart ==
  ASSUME EraInv, NEW c \in Clients, Steps(c)
  PROVE  \A e, d \in Clients :
           pc'[e] \in Committing /\ pc'[d] \in Committing /\ e # d => new'[e].id # new'[d].id
  <1>0. TypeOK /\ CallOK(c) /\ minted \in Nat
    BY ValueAssumption DEF EraInv, TypeInv, TypeOK
  <1>1. \A d \in Clients \ {c} : pc'[d] = pc[d] /\ new'[d] = new[d]
    BY <1>0, StepIsPrivate DEF Private
  <1>2. ASSUME NEW d \in Clients \ {c}, pc[d] \in Committing, pc'[c] \in Committing
        PROVE  new'[c].id # new[d].id
    <2>1. new[d].id \in 1..minted
      BY <1>2 DEF EraInv, EraOK
    <2>2. CASE Sealed(c)
      <3>1. new[c] \in Controls /\ new'[c] = [new[c] EXCEPT !.id = minted + 1]
        BY <1>0, <2>2 DEF Sealed, CallOK, Writing, TypeOK
      <3>2. new'[c].id = minted + 1
        BY <3>1 DEF Controls
      <3>3. QED
        BY <1>0, <2>1, <3>2
    <2>3. CASE ~ Sealed(c)
      <3>1. pc[c] \in Committing /\ new'[c] = new[c]
        BY <1>0, <1>2, <2>3
        DEF Steps, Create, CompareExchange, Destroy, OpenStream,
            SetMaintenanceFence, ReleaseMaintenanceFence, SweepChunks, CreateReadEra,
            ExchangeEra, EnsureUnfenced, PutChunk, CommitEra, UploadConditional, Adjudicate,
            Recheck, Unpublish, DestroyTombstone, DestroyBump, DestroyDelete, FetchChunk,
            ReleaseObserved, ListChunkPage, ClassifyChunkPage, SweepDelete, Abort,
            Goto, Return, Keep, TypeOK, Committing, locals
      <3>2. QED
        BY <1>2, <3>1 DEF EraInv
    <2>4. QED
      BY <2>2, <2>3
  <1>3. QED
    BY <1>1, <1>2 DEF EraInv

\* Only a control that holds the key gets a receipt.
LEMMA ReceiptStep ==
  ASSUME EraInv, NEW c \in Clients, Steps(c)
  PROVE  \A a \in acked' : a.inc <= counter' /\ Holds(a)'
  <1>0. TypeOK /\ CallOK(c) /\ EraOK(c) /\ counter \in Nat /\ counter' \in Nat
        /\ counter <= counter'
    BY Growing DEF EraInv, TypeInv
  <1>1. \A a \in acked' : a \in acked \/ (pc[c] = "wRecheck" /\ a = new[c])
    BY DEF Steps, Create, CompareExchange, Destroy, OpenStream,
       SetMaintenanceFence, ReleaseMaintenanceFence, SweepChunks, CreateReadEra,
       ExchangeEra, EnsureUnfenced, PutChunk, Sealed, CommitEra, UploadConditional, Adjudicate,
       Recheck, Unpublish, DestroyTombstone, DestroyBump, DestroyDelete, FetchChunk,
       ReleaseObserved, ListChunkPage, ClassifyChunkPage, SweepDelete, Abort
  <1>2. ASSUME NEW a \in acked' PROVE a.inc <= counter' /\ Holds(a)'
    <2>1. a \in Controls /\ a.inc <= counter /\ Holds(a)
      BY <1>0, <1>1, <1>2 DEF EraInv, EraOK, CallOK, TypeOK, Writing
    <2>2. a.inc \in Nat
      BY <2>1, ControlFields, ValueAssumption
    <2>3. QED
      BY <1>0, <2>1, <2>2, HoldsStays
  <1>3. QED
    BY <1>2

LEMMA NextEra == EraInv /\ [Next]_vars => EraInv'
  <1> SUFFICES ASSUME EraInv, [Next]_vars PROVE EraInv'
    OBVIOUS
  <1>1. CASE UNCHANGED vars
    BY <1>1, NextType DEF vars, EraInv, EraOK, Holds
  <1>2. CASE Next
    <2>1. PICK c \in Clients : Steps(c)
      BY <1>2, NextSteps
    <2>2. TypeInv'
      BY NextType DEF EraInv
    <2>3. value' # None => value'.inc <= counter' /\ value'.id <= minted'
      <3>1. /\ counter \in Nat /\ counter' \in Nat /\ counter <= counter'
            /\ minted \in Nat /\ minted' \in Nat /\ minted <= minted'
        BY <2>1, Growing
      <3>2. value # None => value.inc \in Nat /\ value.id \in Nat
        BY ControlFields, ValueAssumption DEF EraInv, TypeInv, TypeOK
      <3>3. CASE pc[c] = "wPut" /\ value' = new[c]
        <4>1. new[c].inc <= counter /\ new[c].id \in 1..minted /\ new[c].inc \in Nat
          BY <2>1, <3>3, ControlFields, ValueAssumption
          DEF EraInv, EraOK, TypeInv, CallOK, Writing, Committing
        <4>2. QED
          BY <3>1, <3>3, <4>1
      <3>4. CASE value' \in {value, None}
        BY <3>1, <3>2, <3>4 DEF EraInv
      <3>5. QED
        BY <2>1, <3>3, <3>4, StepOfKey DEF KeyStep
    <2>4. \A a \in acked' : a.inc <= counter' /\ Holds(a)'
      BY <2>1, ReceiptStep
    <2>5. \A d \in Clients : EraOK(d)'
      <3>1. EraOK(c)'
        BY <2>1, StepEra
      <3>2. ASSUME NEW d \in Clients, d # c PROVE EraOK(d)'
        BY <2>1, <3>2, OthersEra
      <3>3. QED
        BY <3>1, <3>2
    <2>6. QED
      BY <2>1, <2>2, <2>3, <2>4, <2>5, IdsStayApart DEF EraInv
  <1>3. QED
    BY <1>1, <1>2

\* In the open incarnation the key holds every write that a receipt was given for,
\* or a later version, for any number of clients and payloads: a receipt given by
\* adjudicate_manifest_put after a lost answer is as good as any other.
THEOREM ReceiptsSurviveTheorem == Spec => []ReceiptsSurvive
  <1>1. EraInv => ReceiptsSurvive
    BY DEF EraInv, ReceiptsSurvive, Holds
  <1>2. QED
    BY InitEra, NextEra, <1>1, PTL DEF Spec

==============================================================================
