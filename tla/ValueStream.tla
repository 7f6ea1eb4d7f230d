----------------------------- MODULE ValueStream -----------------------------
(***************************************************************************)
(* Chunked values of one key: a writer stages content-addressed chunks     *)
(* under the generation it is bound to and then publishes a manifest at    *)
(* the key with one conditional PUT.  A lost answer of that PUT is         *)
(* adjudicated by a read.  Readers are snapshots of the manifest they      *)
(* opened.  A maintenance fence and a sweep take orphaned chunks away.     *)
(*                                                                         *)
(* The kernel cannot see whether the namespace is quiesced; the sweep's    *)
(* contract makes that the caller's assertion, which is Quiesced below.    *)
(* Streamed begins are not covered by it: the fence has to refuse them.    *)
(***************************************************************************)
EXTENDS Naturals, FiniteSets

CONSTANTS
  Clients,     \* processes that use the key
  Payloads,    \* logical values, each the set of its chunks' digests
  MaxVersion,  \* the largest version, u64::MAX in the code
  MaxInc,      \* the largest incarnation, u64::MAX in the code
  MaxCommits,  \* manifests ever built; a bound of the model
  MaxFences,   \* fences ever erected; a bound of the model
  None         \* no object, no value

ASSUME ValueAssumption ==
  /\ {MaxVersion, MaxInc, MaxCommits, MaxFences} \subseteq Nat
  /\ \A d \in Payloads : IsFiniteSet(d)

Digests == UNION Payloads

\* chunk_object_key: a chunk's address names its generation and its content.
ChunkKeys == [inc : 0..MaxInc, ver : 0..MaxVersion, dig : Digests]

\* ControlEnvelope.  An inline v2 control has no chunks and commit id 0; a
\* manifest that is not sealed yet has no commit id either.
Controls == [inc : 0..MaxInc, ver : 0..MaxVersion, id : 0..MaxCommits,
             data : Payloads \cup {{}}]

ASSUME NoControlAssumption == None \notin Controls

VARIABLES
  value,      \* keyspace/{namespace}/{key}
  counter,    \* incarnations/{key}; 0 when the object is absent
  tombstone,  \* whether tombstones/{key} is there
  chunks,     \* the objects under keyspace-chunks/v1/{namespace}
  fence,      \* fences/gc: which erection it is, 0 when absent
  minted,     \* commit ids drawn so far
  erected,    \* fence bodies drawn so far
  pc,         \* the request a client is about to send
  api,        \* whether a write is streamed or whole-value
  new,        \* the control a client's write is to publish
  seen,       \* the control a client's call expects, None for a create
  page,       \* chunks a client has yet to upload, fetch or look at
  epoch,      \* the fence a release has read
  acked       \* history: the controls the keyspace has returned a receipt for

store  == <<value, counter, tombstone, chunks, fence>>
drawn  == <<minted, erected>>
locals == <<pc, api, new, seen, page, epoch>>
vars   == <<value, counter, tombstone, chunks, fence, minted, erected,
            pc, api, new, seen, page, epoch, acked>>

-----------------------------------------------------------------------------
ChunksOf(ctl) == [inc : {ctl.inc}, ver : {ctl.ver}, dig : ctl.data]

\* What a manifest at the key refers to; an inline or absent control nothing.
Referenced == IF value = None THEN {} ELSE ChunksOf(value)

Control(i, v, d) == [inc |-> i, ver |-> v, id |-> 0, data |-> d]

PCs == {"idle", "wEra", "wOpen", "wFence", "wStage", "wPutEra", "wPut", "wAdjudicate",
        "wRecheck", "wEvict", "dTombstone", "dBump", "dDelete",
        "rFetch", "rMissing", "fRelease", "sList", "sClassify", "sDelete"}

Sweeping == \E c \in Clients : pc[c] \in {"sList", "sClassify", "sDelete"}

\* The operational assertion of sweep_chunks: no other writer, no mutation, no
\* open reader, and no operator who is about to release the fence that stands.
Quiesced(c) ==
  \A d \in Clients \ {c} :
    /\ pc[d] \in {"idle", "fRelease", "sList", "sClassify", "sDelete"}
    /\ pc[d] = "fRelease" => epoch[d] # fence

Init ==
  /\ value \in {None, Control(0, 0, {})}      \* absent, or an inline value
  /\ counter = 0
  /\ tombstone = FALSE
  /\ chunks = {}
  /\ fence = 0
  /\ minted = 0
  /\ erected = 0
  /\ pc = [c \in Clients |-> "idle"]
  /\ api = [c \in Clients |-> "none"]
  /\ new = [c \in Clients |-> None]
  /\ seen = [c \in Clients |-> None]
  /\ page = [c \in Clients |-> {}]
  /\ epoch = [c \in Clients |-> 0]
  /\ acked = {}

Goto(c, p) == pc' = [pc EXCEPT ![c] = p]

\* The call returns to its caller and its locals are gone.
Return(c) ==
  /\ pc' = [pc EXCEPT ![c] = "idle"]
  /\ api' = [api EXCEPT ![c] = "none"]
  /\ new' = [new EXCEPT ![c] = None]
  /\ seen' = [seen EXCEPT ![c] = None]
  /\ page' = [page EXCEPT ![c] = {}]
  /\ epoch' = [epoch EXCEPT ![c] = 0]

Keep(c) == UNCHANGED <<api, new, seen, page, epoch>>

-----------------------------------------------------------------------------
(* Begin: bind the generation, then ask for the fence.                     *)

\* Whole-value writes do not read the fence; the caller keeps them away from a
\* sweep.
MayBegin(a) == a = "whole" => ~ Sweeping

\* begin_stream_create, or create of a value above INLINE_MAX.
Create(c, a, d) ==
  /\ pc[c] = "idle"
  /\ MayBegin(a)
  /\ api' = [api EXCEPT ![c] = a]
  /\ new' = [new EXCEPT ![c] = Control(0, 0, d)]
  /\ Goto(c, "wEra")
  /\ UNCHANGED <<store, drawn, seen, page, epoch, acked>>

\* current_incarnation; create_chunked comes back here after an eviction.
CreateReadEra(c) ==
  /\ pc[c] = "wEra"
  /\ new' = [new EXCEPT ![c] = Control(counter, 0, @.data)]
  /\ page' = [page EXCEPT ![c] = ChunksOf(new'[c])]
  /\ Goto(c, IF api[c] = "stream" THEN "wFence" ELSE "wStage")
  /\ UNCHANGED <<store, drawn, api, seen, epoch, acked>>

\* begin_stream_compare_exchange, or compare_exchange with a large value.  The
\* download finds the control the caller's ETag names; another one, or none, is
\* a conflict that changes nothing.
CompareExchange(c, a, d) ==
  /\ pc[c] = "idle"
  /\ MayBegin(a)
  /\ value # None
  /\ api' = [api EXCEPT ![c] = a]
  /\ seen' = [seen EXCEPT ![c] = value]
  /\ new' = [new EXCEPT ![c] = Control(value.inc, value.ver, d)]
  /\ Goto(c, "wOpen")
  /\ UNCHANGED <<store, drawn, page, epoch, acked>>

\* ensure_open_value_era, and the successor's version.
ExchangeEra(c) ==
  LET allowed == counter = seen[c].inc /\ seen[c].ver < MaxVersion
      bound   == Control(seen[c].inc, seen[c].ver + 1, new[c].data)
  IN /\ pc[c] = "wOpen"
     /\ \/ /\ allowed
           /\ new' = [new EXCEPT ![c] = bound]
           /\ page' = [page EXCEPT ![c] = ChunksOf(bound)]
           /\ Goto(c, IF api[c] = "stream" THEN "wFence" ELSE "wStage")
           /\ UNCHANGED <<api, seen, epoch>>
        \/ ~ allowed /\ Return(c)
     /\ UNCHANGED <<store, drawn, acked>>

\* Mutant: a streamed begin does not look at the fence.
EnsureUnfencedSkipped(c) ==
  /\ pc[c] = "wFence"
  /\ Goto(c, "wStage")
  /\ UNCHANGED <<store, drawn, api, new, seen, page, epoch, acked>>

EnsureUnfenced(c) ==
  /\ pc[c] = "wFence"
  /\ \/ fence = 0 /\ Goto(c, "wStage") /\ Keep(c)
     \/ fence # 0 /\ Return(c)                       \* MaintenanceFenced
  /\ UNCHANGED <<store, drawn, acked>>

-----------------------------------------------------------------------------
(* Stage, seal, commit.                                                    *)

\* put_chunk: a chunk that is there already, from a contender or from this
\* writer's own lost request, is verified and shared.  Uploads of one writer
\* finish in any order.
PutChunk(c) ==
  /\ pc[c] = "wStage"
  /\ \E k \in page[c] :
       /\ chunks' = chunks \cup {k}
       /\ page' = [page EXCEPT ![c] = @ \ {k}]
  /\ UNCHANGED <<value, counter, tombstone, fence, drawn, pc, api, new, seen, epoch, acked>>

\* The manifest is built with a fresh commit id once every chunk is uploaded.
Sealed(c) ==
  /\ pc[c] = "wStage"
  /\ page[c] = {}
  /\ minted < MaxCommits
  /\ minted' = minted + 1
  /\ new' = [new EXCEPT ![c].id = minted + 1]
  /\ Goto(c, IF seen[c] = None THEN "wPut" ELSE "wPutEra")
  /\ UNCHANGED <<store, erected, api, seen, page, epoch, acked>>

\* A streamed writer's seal; the value is published by a later commit.
Seal(c) == api[c] = "stream" /\ Sealed(c)

\* The end of stage_chunks.
StageChunks(c) == api[c] = "whole" /\ Sealed(c)

\* ensure_open_value_era, before the PUT of an exchange.
CommitEra(c) ==
  /\ pc[c] = "wPutEra"
  /\ \/ counter = new[c].inc /\ Goto(c, "wPut") /\ Keep(c)
     \/ counter # new[c].inc /\ Return(c)            \* StaleIncarnation
  /\ UNCHANGED <<store, drawn, acked>>

\* upload_conditional of the manifest: If-None-Match for a create, If-Match for
\* an exchange.  It is answered, refused, or fails with an error that says
\* nothing about whether it took effect; a request the SDK resends is refused
\* although the first one took effect.
UploadConditional(c) ==
  /\ pc[c] = "wPut"
  /\ \/ /\ value = seen[c]
        /\ value' = new[c]
        /\ \/ Goto(c, "wRecheck") /\ Keep(c)
           \/ Goto(c, "wAdjudicate") /\ Keep(c)
           \/ Return(c)
     \/ value # seen[c] /\ Return(c) /\ UNCHANGED value
     \/ Goto(c, "wAdjudicate") /\ Keep(c) /\ UNCHANGED value
  /\ UNCHANGED <<counter, tombstone, chunks, fence, drawn, acked>>

\* PendingValue::commit, and the whole-value writes that publish at once.
Commit(c) == api[c] = "stream" /\ UploadConditional(c)
CreateChunked(c) == api[c] = "whole" /\ seen[c] = None /\ UploadConditional(c)
CompareExchangeChunked(c) == api[c] = "whole" /\ seen[c] # None /\ UploadConditional(c)

\* Mutant: whatever control holds the bound generation counts as one's own.
AdjudicateByGeneration(c) ==
  LET landed == value # None /\ value.inc = new[c].inc /\ value.ver = new[c].ver
  IN /\ pc[c] = "wAdjudicate"
     /\ \/ landed /\ Goto(c, "wRecheck") /\ Keep(c)
        \/ ~ landed /\ Return(c)
     /\ UNCHANGED <<store, drawn, acked>>

\* adjudicate_manifest_put: the bound generation and this commit id - landed; a
\* foreign commit there is a conflict, anything else is ambiguous.  The key is
\* not seq-shaped, so no certificate retires it.
Adjudicate(c) ==
  LET landed == /\ value # None
                /\ value.inc = new[c].inc
                /\ value.ver = new[c].ver
                /\ value.id = new[c].id
  IN /\ pc[c] = "wAdjudicate"
     /\ \/ landed /\ Goto(c, "wRecheck") /\ Keep(c)
        \/ ~ landed /\ Return(c)
     /\ UNCHANGED <<store, drawn, acked>>

\* The incarnation post-check of finish_create_after_publish, evict_stale_era
\* and finish_value_cas_after_publish.
Recheck(c) ==
  /\ pc[c] = "wRecheck"
  /\ \/ counter = new[c].inc /\ acked' = acked \cup {new[c]} /\ Return(c)
     \/ counter # new[c].inc /\ Goto(c, "wEvict") /\ Keep(c) /\ UNCHANGED acked
  /\ UNCHANGED <<store, drawn>>

\* The stale publication is taken back if it is still this commit.
Unpublish(c) ==
  /\ pc[c] = "wEvict"
  /\ value' = IF value = new[c] THEN None ELSE value
  /\ UNCHANGED <<counter, tombstone, chunks, fence, drawn, acked>>

\* A streamed create cannot upload its bytes again: StaleIncarnation.
FinishCreateAfterPublish(c) ==
  api[c] = "stream" /\ seen[c] = None /\ Unpublish(c) /\ Return(c)

\* A whole-value create holds its bytes and tries again in the new incarnation,
\* unless another lifetime has the key.
EvictStaleEra(c) ==
  /\ api[c] = "whole" /\ seen[c] = None
  /\ Unpublish(c)
  /\ \/ value \in {new[c], None} /\ Goto(c, "wEra") /\ Keep(c)
     \/ value \notin {new[c], None} /\ Return(c)

FinishValueCasAfterPublish(c) ==
  seen[c] # None /\ Unpublish(c) /\ Return(c)

-----------------------------------------------------------------------------
(* destroy closes the incarnation; chunks are left to the sweep.           *)

Destroy(c) ==
  /\ pc[c] = "idle"
  /\ ~ Sweeping
  /\ value # None
  /\ seen' = [seen EXCEPT ![c] = value]
  /\ Goto(c, "dTombstone")
  /\ UNCHANGED <<store, drawn, api, new, page, epoch, acked>>

DestroyTombstone(c) ==
  /\ pc[c] = "dTombstone"
  /\ tombstone' = TRUE
  /\ Goto(c, "dBump")
  /\ Keep(c)
  /\ UNCHANGED <<value, counter, chunks, fence, drawn, acked>>

\* bump_incarnation, whose loop is in AtomicKeyspace.
DestroyBump(c) ==
  /\ pc[c] = "dBump"
  /\ \/ counter < MaxInc /\ counter' = counter + 1 /\ Goto(c, "dDelete") /\ Keep(c)
     \/ counter = MaxInc /\ Return(c) /\ UNCHANGED counter
  /\ UNCHANGED <<value, tombstone, chunks, fence, drawn, acked>>

DestroyDelete(c) ==
  /\ pc[c] = "dDelete"
  /\ value' = IF value = seen[c] THEN None ELSE value
  /\ Return(c)
  /\ UNCHANGED <<counter, tombstone, chunks, fence, drawn, acked>>

-----------------------------------------------------------------------------
(* open_stream, and every whole read of a chunked value.                   *)

\* The reader keeps the references of the control it saw; an inline control has
\* nothing to fetch.
OpenStream(c) ==
  /\ pc[c] = "idle"
  /\ Referenced # {}
  /\ page' = [page EXCEPT ![c] = Referenced]
  /\ Goto(c, "rFetch")
  /\ UNCHANGED <<store, drawn, api, new, seen, epoch, acked>>

\* fetch_chunk: chunks arrive in any order; a missing one is ChunkMissing.
FetchChunk(c) ==
  /\ pc[c] = "rFetch"
  /\ \/ \E k \in page[c] \cap chunks :
          page' = [page EXCEPT ![c] = @ \ {k}] /\ UNCHANGED <<pc, api, new, seen, epoch>>
     \/ /\ page[c] \ chunks # {}
        /\ Goto(c, "rMissing")
        /\ Keep(c)
     \/ page[c] = {} /\ Return(c)
  /\ UNCHANGED <<store, drawn, acked>>

-----------------------------------------------------------------------------
(* The maintenance fence and the sweep.                                    *)

\* Mutant: every fence has the same bytes, hence the same ETag.
SameTag(e) == 0

\* The ETag of an erection's fence: each has a freshly drawn body.
FenceTag(e) == e

\* Put-if-absent of fresh bytes; a fence that stands is left as it is.
SetMaintenanceFence(c) ==
  /\ pc[c] = "idle"
  /\ fence = 0
  /\ erected < MaxFences
  /\ erected' = erected + 1
  /\ fence' = erected + 1
  /\ UNCHANGED <<value, counter, tombstone, chunks, minted, locals, acked>>

\* release_maintenance_fence reads the fence's ETag; an operator does not start a
\* release during a sweep.
ReleaseMaintenanceFence(c) ==
  /\ pc[c] = "idle"
  /\ ~ Sweeping
  /\ fence # 0
  /\ epoch' = [epoch EXCEPT ![c] = fence]
  /\ Goto(c, "fRelease")
  /\ UNCHANGED <<store, drawn, api, new, seen, page, acked>>

\* release_observed_maintenance_fence, however late.
ReleaseObserved(c) ==
  /\ pc[c] = "fRelease"
  /\ fence' = IF fence # 0 /\ FenceTag(fence) = FenceTag(epoch[c]) THEN 0 ELSE fence
  /\ Return(c)
  /\ UNCHANGED <<value, counter, tombstone, chunks, drawn, acked>>

\* Without a fence the sweep is refused.
SweepChunks(c) ==
  /\ pc[c] = "idle"
  /\ Quiesced(c)
  /\ fence # 0
  /\ Goto(c, "sList")
  /\ UNCHANGED <<store, drawn, api, new, seen, page, epoch, acked>>

ListChunkPage(c) ==
  /\ pc[c] = "sList"
  /\ page' = [page EXCEPT ![c] = chunks]
  /\ Goto(c, "sClassify")
  /\ UNCHANGED <<store, drawn, api, new, seen, epoch, acked>>

\* Mutant: chunks of the control's generation count as orphans too.
ClassifyChunkPageEmpty(c) ==
  /\ pc[c] = "sClassify"
  /\ Goto(c, "sDelete")
  /\ Keep(c)
  /\ UNCHANGED <<store, drawn, acked>>

\* The exact read of the control decides which of the listed chunks are kept.
ClassifyChunkPage(c) ==
  /\ pc[c] = "sClassify"
  /\ page' = [page EXCEPT ![c] = @ \ Referenced]
  /\ Goto(c, "sDelete")
  /\ UNCHANGED <<store, drawn, api, new, seen, epoch, acked>>

\* A delete that fails leaves its chunk for a later sweep.
SweepDelete(c) ==
  /\ pc[c] = "sDelete"
  /\ \/ \E k \in page[c] :
          /\ chunks' \in {chunks, chunks \ {k}}
          /\ page' = [page EXCEPT ![c] = @ \ {k}]
          /\ UNCHANGED <<pc, api, new, seen, epoch>>
     \/ page[c] = {} /\ Return(c) /\ UNCHANGED chunks
  /\ UNCHANGED <<value, counter, tombstone, fence, drawn, acked>>

-----------------------------------------------------------------------------
\* The process dies, drops its handle, or the request fails.
Abort(c) ==
  /\ pc[c] # "idle"
  /\ Return(c)
  /\ UNCHANGED <<store, drawn, acked>>

CallStep(c) ==
  \/ CreateReadEra(c) \/ ExchangeEra(c) \/ EnsureUnfenced(c)
  \/ PutChunk(c) \/ Seal(c) \/ StageChunks(c) \/ CommitEra(c)
  \/ Commit(c) \/ CreateChunked(c) \/ CompareExchangeChunked(c)
  \/ Adjudicate(c) \/ Recheck(c)
  \/ FinishCreateAfterPublish(c) \/ EvictStaleEra(c) \/ FinishValueCasAfterPublish(c)
  \/ DestroyTombstone(c) \/ DestroyBump(c) \/ DestroyDelete(c)
  \/ FetchChunk(c) \/ ReleaseObserved(c)
  \/ ListChunkPage(c) \/ ClassifyChunkPage(c) \/ SweepDelete(c)

Call(c) ==
  \/ \E a \in {"stream", "whole"}, d \in Payloads : Create(c, a, d) \/ CompareExchange(c, a, d)
  \/ Destroy(c) \/ OpenStream(c)
  \/ SetMaintenanceFence(c) \/ ReleaseMaintenanceFence(c) \/ SweepChunks(c)

Next == \E c \in Clients : Call(c) \/ CallStep(c) \/ Abort(c)

Spec == Init /\ [][Next]_vars

-----------------------------------------------------------------------------
(* Properties.                                                             *)

TypeOK ==
  /\ value \in Controls \cup {None}
  /\ counter \in 0..MaxInc
  /\ tombstone \in BOOLEAN
  /\ chunks \subseteq ChunkKeys
  /\ fence \in 0..MaxFences
  /\ minted \in 0..MaxCommits
  /\ erected \in 0..MaxFences
  /\ pc \in [Clients -> PCs]
  /\ api \in [Clients -> {"none", "stream", "whole"}]
  /\ new \in [Clients -> Controls \cup {None}]
  /\ seen \in [Clients -> Controls \cup {None}]
  /\ page \in [Clients -> SUBSET ChunkKeys]
  /\ epoch \in [Clients -> 0..MaxFences]
  /\ acked \subseteq Controls

\* The manifest at the key never names a chunk that is not there: neither an
\* early commit nor a sweep with a streamed writer about takes one away.
ManifestIsBacked == Referenced \subseteq chunks

\* No reader meets a missing chunk, whatever was published, destroyed and swept
\* since it opened the value.
SnapshotIsWhole == \A c \in Clients : pc[c] # "rMissing"

\* In the open incarnation the key holds every write a receipt was given for, or
\* a later version: a receipt given after a lost answer is as good as any other.
ReceiptsSurvive ==
  \A a \in acked : a.inc = counter =>
    /\ value # None
    /\ value.inc = a.inc
    /\ value.ver >= a.ver
    /\ value.ver = a.ver => value = a

\* The fence stands as long as a sweep is at work: a release that was meant for
\* an earlier erection does not take the present one down.
SweepStaysFenced == Sweeping => fence # 0
===============================================================================
