----------------------------- MODULE StateKernel -----------------------------
(***************************************************************************)
(* One lineage of the state kernel: a head object that names the newest    *)
(* record of a hash chain of immutable records, an incarnation counter     *)
(* that says which deletion lifetime (era) is open, and a tombstone.       *)
(*                                                                         *)
(* Clients share nothing but the object store.  Every request of a client  *)
(* to the store is one step; a call of the library is a sequence of steps  *)
(* whose locals live in pc, era, target, done, seen and tries.             *)
(*                                                                         *)
(* A record is named by the digest of its bytes, which include the digest  *)
(* of its prior record.  With no hash collision a digest therefore stands  *)
(* for the whole chain of payloads that ends in the record, and a record   *)
(* is modelled by that sequence: its generation is its length less one.    *)
(* ETags are functions of an object's bytes, so two objects with the same  *)
(* content have the same ETag: the weakest promise S3 makes.               *)
(***************************************************************************)
EXTENDS Naturals, Sequences

CONSTANTS
  Clients,    \* processes that use the lineage
  Payloads,   \* record contents
  Strays,     \* records that callers publish outside any append
  Appends,    \* records that callers' appends, of one record or a batch, end in
  Legacy,     \* payloads of geneses written before heads had incarnations
  MaxGen,     \* the largest generation, u64::MAX in the code
  MaxInc,     \* the largest incarnation, u64::MAX in the code
  Attempts,   \* iterations of the create and bump loops, 8 in the code
  Custodian,  \* the client that re-runs destroy (the liveness property)
  Policy,     \* "SuccessorCapable" or "GenesisOnly"
  None        \* no object, no value

ASSUME BoundsAssumption ==
  /\ MaxGen \in Nat
  /\ MaxInc \in Nat
  /\ Attempts \in Nat \ {0}
  /\ Custodian \in Clients
  /\ Policy \in {"SuccessorCapable", "GenesisOnly"}

VARIABLES
  head,       \* {lineage}/head
  counter,    \* {lineage}/incarnation; 0 when the object is absent
  tombstone,  \* {lineage}/tombstone
  objects,    \* {lineage}/objects/: the published records
  pc,         \* the request a client is about to send
  era,        \* the counter value a client's call has read
  target,     \* the record a client's append is to make current
  done,       \* how many records of the target's chain are published
  seen,       \* the head a client's call has observed or expects
  tries,      \* iterations left of the loop a client is in
  token,      \* the HeadRead a client holds between calls
  acked       \* history: the heads the kernel has returned from an append

store  == <<head, counter, tombstone, objects>>
locals == <<pc, era, target, done, seen, tries>>
vars   == <<head, counter, tombstone, objects, pc, era, target, done, seen,
            tries, token, acked>>

-----------------------------------------------------------------------------
(* Records, heads and tokens.                                              *)

\* Every record the lineage can hold, as the chain that ends in it.
Records == UNION {[1..n -> Payloads] : n \in 1..(MaxGen + 1)}

\* A record with no prior.
Genesis(p) == [i \in 1..1 |-> p]

Generation(r) == Len(r) - 1

\* The record of r's chain at generation n - 1.
Prefix(r, n) == [i \in 1..n |-> r[i]]

\* r is s, or has s among its ancestors.
Extends(r, s) == /\ DOMAIN s \subseteq DOMAIN r
                 /\ \A i \in DOMAIN s : r[i] = s[i]

\* CanonicalHead.  A "v1" head is what a store written before incarnations
\* holds; it decodes as incarnation 0 and its bytes (hence its ETag) differ
\* from those of the "v2" head with the same fields.  A "noprior" head is v2
\* bytes without the prior position that a generation above 0 must have.
Heads == [fmt : {"v1", "v2", "noprior"}, inc : 0..MaxInc, rec : Records]

\* CanonicalHead::from_bytes accepts the head; load_head fails otherwise, and
\* every operation that loads the head fails with it.
Decodes(h) == h.fmt # "noprior"

Tombstones == [inc : 0..MaxInc, gen : 0..MaxGen]

ASSUME NoneAssumption == None \notin Heads \cup Tombstones \cup Records

HeadV2(i, r) == [fmt |-> "v2", inc |-> i, rec |-> r]

\* The head an append_successor_batch that ends in r builds on head h.  It takes
\* prior from the batch's last record: an empty batch, whose r is h's own record,
\* has none.
SuccessorHead(h, r) ==
  [fmt |-> IF r = h.rec /\ Generation(r) > 0 THEN "noprior" ELSE "v2",
   inc |-> h.inc, rec |-> r]

-----------------------------------------------------------------------------
PCs == {"idle", "gPublish", "cReadEra", "cPut", "cRecheck", "cEvict",
        "sLoad", "sPublish", "sReplace", "sRecheck", "sEvict",
        "dTombstone", "bRead", "bCas", "dDelete", "rTombstone"}

\* The store is empty, or holds the genesis of a lineage written before heads
\* carried an incarnation.
Init ==
  /\ \/ /\ head = None /\ objects = {} /\ acked = {}
     \/ \E p \in Legacy \cap Payloads :
          /\ head = [fmt |-> "v1", inc |-> 0, rec |-> Genesis(p)]
          /\ objects = {Genesis(p)}
          /\ acked = {[inc |-> 0, rec |-> Genesis(p)]}
  /\ counter = 0
  /\ tombstone = None
  /\ pc = [c \in Clients |-> "idle"]
  /\ era = [c \in Clients |-> 0]
  /\ target = [c \in Clients |-> None]
  /\ done = [c \in Clients |-> 0]
  /\ seen = [c \in Clients |-> None]
  /\ tries = [c \in Clients |-> 0]
  /\ token = [c \in Clients |-> None]

\* The call returns to its caller and its locals are gone.
Return(c) ==
  /\ pc' = [pc EXCEPT ![c] = "idle"]
  /\ era' = [era EXCEPT ![c] = 0]
  /\ target' = [target EXCEPT ![c] = None]
  /\ done' = [done EXCEPT ![c] = 0]
  /\ seen' = [seen EXCEPT ![c] = None]
  /\ tries' = [tries EXCEPT ![c] = 0]

\* The call goes on to the request named by p.
Goto(c, p) == pc' = [pc EXCEPT ![c] = p]

\* An append returns Ok(HeadRead): the caller holds it, and the history
\* variable remembers the promise.
Acknowledge(c, h) ==
  /\ token' = [token EXCEPT ![c] = h]
  /\ acked' = acked \cup {[inc |-> h.inc, rec |-> h.rec]}
  /\ Return(c)

-----------------------------------------------------------------------------
(* Publishing immutable records: a put-if-absent and a readback of the     *)
(* bytes.  Nothing deletes or overwrites a record, so the readback finds   *)
(* what the put left and the pair is one step.                             *)

\* publish_record, called by itself: it asks for nothing but a well-formed
\* record, so it may publish a record whose prior is not there.
PublishRecord(c, r) ==
  /\ pc[c] = "idle"
  /\ objects' = objects \cup {r}
  /\ UNCHANGED <<head, counter, tombstone, locals, token, acked>>

\* append_genesis and append_genesis_batch: the first publication.
AppendGenesis(c, r) ==
  /\ pc[c] = "idle"
  /\ Len(r) = 1 \/ Len(r) <= MaxGen      \* a batch may not end at u64::MAX
  /\ objects' = objects \cup {Prefix(r, 1)}
  /\ Goto(c, IF Len(r) = 1 THEN "cReadEra" ELSE "gPublish")
  /\ target' = [target EXCEPT ![c] = r]
  /\ done' = [done EXCEPT ![c] = 1]
  /\ tries' = [tries EXCEPT ![c] = Attempts]
  /\ UNCHANGED <<head, counter, tombstone, era, seen, token, acked>>

\* One publish_record of an append's batch; after the last one the append goes
\* on to p.
PublishNext(c, p) ==
  LET n == done[c] + 1
  IN /\ objects' = objects \cup {Prefix(target[c], n)}
     /\ done' = [done EXCEPT ![c] = n]
     /\ Goto(c, IF n = Len(target[c]) THEN p ELSE pc[c])
     /\ UNCHANGED <<head, counter, tombstone, era, target, seen, tries, token,
                    acked>>

GenesisPublish(c) == pc[c] = "gPublish" /\ PublishNext(c, "cReadEra")

SuccessorPublish(c) == pc[c] = "sPublish" /\ PublishNext(c, "sReplace")

-----------------------------------------------------------------------------
(* create_head: read the counter, put-if-absent a head stamped with it,    *)
(* read the counter again, and take the head back if the era has closed.   *)

CreateReadEra(c) ==
  /\ pc[c] = "cReadEra"
  /\ \/ /\ tries[c] > 0
        /\ era' = [era EXCEPT ![c] = counter]
        /\ tries' = [tries EXCEPT ![c] = @ - 1]
        /\ Goto(c, "cPut")
        /\ UNCHANGED <<target, done, seen>>
     \/ tries[c] = 0 /\ Return(c)        \* incarnation contention
  /\ UNCHANGED <<store, token, acked>>

CreatePut(c) ==
  /\ pc[c] = "cPut"
  /\ \/ /\ head = None
        /\ head' = HeadV2(era[c], target[c])
        /\ Goto(c, "cRecheck")
        /\ UNCHANGED <<era, target, done, seen, tries>>
     \/ head # None /\ Return(c) /\ UNCHANGED head
  /\ UNCHANGED <<counter, tombstone, objects, token, acked>>

\* Mutant: the create is acknowledged without a second look at the counter.
CreateRecheckSkipped(c) ==
  /\ pc[c] = "cRecheck"
  /\ Acknowledge(c, HeadV2(era[c], target[c]))
  /\ UNCHANGED store

CreateRecheck(c) ==
  /\ pc[c] = "cRecheck"
  /\ \/ counter = era[c] /\ Acknowledge(c, HeadV2(era[c], target[c]))
     \/ /\ counter # era[c]
        /\ Goto(c, "cEvict")
        /\ UNCHANGED <<era, target, done, seen, tries, token, acked>>
  /\ UNCHANGED store

\* Mutant: the eviction deletes whatever head is there.
CreateEvictUnconditional(c) ==
  /\ pc[c] = "cEvict"
  /\ head' = None
  /\ Goto(c, "cReadEra")
  /\ era' = [era EXCEPT ![c] = 0]
  /\ UNCHANGED <<counter, tombstone, objects, target, done, seen, tries, token, acked>>

\* DELETE with If-Match on the ETag the put earned.
CreateEvict(c) ==
  LET own == HeadV2(era[c], target[c])
  IN /\ pc[c] = "cEvict"
     /\ \/ /\ head \in {own, None}
           /\ head' = None
           /\ Goto(c, "cReadEra")
           /\ era' = [era EXCEPT ![c] = 0]
           /\ UNCHANGED <<target, done, seen, tries>>
        \/ head \notin {own, None} /\ Return(c) /\ UNCHANGED head
     /\ UNCHANGED <<counter, tombstone, objects, token, acked>>

-----------------------------------------------------------------------------
(* append_successor and append_successor_batch.                            *)

\* r is the last of a batch of records built one on the other on top of head h:
\* sequence numbers and priors line up, and no generation overflows.  A batch of
\* no records passes on top of a head: its terminal is the head's own record.
ValidBatch(h, r) ==
  /\ Extends(r, h.rec)
  /\ Len(r) = Len(h.rec) + 1 \/ Len(r) <= MaxGen

\* The policy check and ensure_open_era: the counter must name the era of the
\* HeadRead the caller passes.  r ends the caller's batch; a batch that does
\* not fit the HeadRead is refused before anything is written, and a call that
\* is refused without a write is no step.
AppendSuccessor(c, r) ==
  /\ pc[c] = "idle"
  /\ Policy = "SuccessorCapable"
  /\ token[c] # None
  /\ counter = token[c].inc
  /\ ValidBatch(token[c], r)
  /\ Goto(c, "sLoad")
  /\ seen' = [seen EXCEPT ![c] = token[c]]
  /\ target' = [target EXCEPT ![c] = r]
  /\ UNCHANGED <<store, era, done, tries, token, acked>>

\* Mutant: the head is replaced before the batch's records are published.
SuccessorLoadHeadUnpublished(c) ==
  /\ pc[c] = "sLoad"
  /\ \/ /\ head = seen[c] /\ Decodes(head)
        /\ Goto(c, "sReplace")
        /\ done' = [done EXCEPT ![c] = Len(seen[c].rec)]
        /\ UNCHANGED <<era, target, seen, tries>>
     \/ ~ (head = seen[c] /\ Decodes(head)) /\ Return(c)
  /\ UNCHANGED <<store, token, acked>>

\* load_head, and the comparison of its identity and ETag with the expected.
SuccessorLoadHead(c) ==
  /\ pc[c] = "sLoad"
  /\ \/ /\ head = seen[c] /\ Decodes(head)
        /\ Goto(c, IF target[c] = seen[c].rec THEN "sReplace" ELSE "sPublish")
        /\ done' = [done EXCEPT ![c] = Len(seen[c].rec)]
        /\ UNCHANGED <<era, target, seen, tries>>
     \/ ~ (head = seen[c] /\ Decodes(head)) /\ Return(c)
  /\ UNCHANGED <<store, token, acked>>

\* Mutant: replace_head is a plain PUT.
ReplaceHeadUnconditional(c) ==
  /\ pc[c] = "sReplace"
  /\ head' = SuccessorHead(seen[c], target[c])
  /\ Goto(c, "sRecheck")
  /\ UNCHANGED <<counter, tombstone, objects, era, target, done, seen, tries, token,
                 acked>>

\* replace_head: PUT with If-Match on the expected ETag.
ReplaceHead(c) ==
  /\ pc[c] = "sReplace"
  /\ \/ /\ head = seen[c]
        /\ head' = SuccessorHead(seen[c], target[c])
        /\ Goto(c, "sRecheck")
        /\ UNCHANGED <<era, target, done, seen, tries>>
     \/ head # seen[c] /\ Return(c) /\ UNCHANGED head
  /\ UNCHANGED <<counter, tombstone, objects, token, acked>>

\* retire_closed_era_publication: the counter read, then the eviction.
SuccessorRecheck(c) ==
  /\ pc[c] = "sRecheck"
  /\ \/ counter = seen[c].inc /\ Acknowledge(c, SuccessorHead(seen[c], target[c]))
     \/ /\ counter # seen[c].inc
        /\ Goto(c, "sEvict")
        /\ UNCHANGED <<era, target, done, seen, tries, token, acked>>
  /\ UNCHANGED store

SuccessorEvict(c) ==
  LET own == SuccessorHead(seen[c], target[c])
  IN /\ pc[c] = "sEvict"
     /\ head' = IF head = own THEN None ELSE head
     /\ Return(c)
     /\ UNCHANGED <<counter, tombstone, objects, token, acked>>

-----------------------------------------------------------------------------
(* destroy: load_head, tombstone, bump_incarnation, conditional delete.    *)

\* Mutant: destroy goes straight to the counter and leaves no tombstone.
DestroyUnwitnessed(c) ==
  /\ pc[c] = "idle"
  /\ head # None /\ Decodes(head)
  /\ seen' = [seen EXCEPT ![c] = head]
  /\ tries' = [tries EXCEPT ![c] = Attempts]
  /\ Goto(c, "bRead")
  /\ UNCHANGED <<store, era, target, done, token, acked>>

\* An absent head is Ok(()) at once, one that does not decode an error; both
\* change nothing.
Destroy(c) ==
  /\ pc[c] = "idle"
  /\ head # None /\ Decodes(head)
  /\ seen' = [seen EXCEPT ![c] = head]
  /\ tries' = [tries EXCEPT ![c] = Attempts]
  /\ Goto(c, "dTombstone")
  /\ UNCHANGED <<store, era, target, done, token, acked>>

\* Put-if-absent: the first tombstone stands.
DestroyTombstone(c) ==
  /\ pc[c] = "dTombstone"
  /\ tombstone' = IF tombstone # None THEN tombstone
                  ELSE [inc |-> seen[c].inc, gen |-> Generation(seen[c].rec)]
  /\ Goto(c, "bRead")
  /\ UNCHANGED <<head, counter, objects, era, target, done, seen, tries, token,
                 acked>>

\* Mutant: the addition is not checked.
BumpReadUnchecked(c) ==
  /\ pc[c] = "bRead"
  /\ \/ /\ tries[c] > 0
        /\ era' = [era EXCEPT ![c] = counter]
        /\ tries' = [tries EXCEPT ![c] = @ - 1]
        /\ Goto(c, "bCas")
        /\ UNCHANGED <<target, done, seen>>
     \/ tries[c] = 0 /\ Return(c)
  /\ UNCHANGED <<store, token, acked>>

\* The download of the counter; checked_add refuses the last incarnation.
BumpRead(c) ==
  /\ pc[c] = "bRead"
  /\ \/ /\ tries[c] > 0 /\ counter < MaxInc
        /\ era' = [era EXCEPT ![c] = counter]
        /\ tries' = [tries EXCEPT ![c] = @ - 1]
        /\ Goto(c, "bCas")
        /\ UNCHANGED <<target, done, seen>>
     \/ ~ (tries[c] > 0 /\ counter < MaxInc) /\ Return(c)
  /\ UNCHANGED <<store, token, acked>>

\* The compare-and-swap of the counter, a put-if-absent at 1 when it was
\* absent.  The SDK resends a request whose answer was lost; the resent one is
\* refused although the first took effect, and the loop goes round again.
BumpCas(c) ==
  /\ pc[c] = "bCas"
  /\ \/ counter = era[c] /\ counter' = counter + 1 /\ Goto(c, "dDelete")
     \/ counter = era[c] /\ counter' = counter + 1 /\ Goto(c, "bRead")
     \/ counter # era[c] /\ counter' = counter /\ Goto(c, "bRead")
  /\ era' = [era EXCEPT ![c] = 0]
  /\ UNCHANGED <<head, tombstone, objects, target, done, seen, tries, token,
                 acked>>

\* Mutant: destroy's delete has no If-Match.
DestroyDeleteUnconditional(c) ==
  /\ pc[c] = "dDelete"
  /\ head' = None
  /\ Return(c)
  /\ UNCHANGED <<counter, tombstone, objects, token, acked>>

\* Mutant: destroy deletes only a head of the era that it closed itself.
DestroyDeleteOwnEra(c) ==
  /\ pc[c] = "dDelete"
  /\ head' = IF head = seen[c] /\ seen[c].inc + 1 = counter THEN None ELSE head
  /\ Return(c)
  /\ UNCHANGED <<counter, tombstone, objects, token, acked>>

\* DELETE with If-Match on the ETag of the head destroy loaded; gone already
\* is Ok(()), another head is LineageHeadConflict.
DestroyDelete(c) ==
  /\ pc[c] = "dDelete"
  /\ head' = IF head = seen[c] THEN None ELSE head
  /\ Return(c)
  /\ UNCHANGED <<counter, tombstone, objects, token, acked>>

-----------------------------------------------------------------------------
(* Reads.                                                                  *)

\* read_head of a present head.
ReadHead(c) ==
  /\ pc[c] = "idle"
  /\ head # None /\ Decodes(head)
  /\ token' = [token EXCEPT ![c] = head]
  /\ UNCHANGED <<store, locals, acked>>

\* read_head_state of an absent head goes on to load_tombstone; of a present
\* one it is read_head.
ReadHeadState(c) ==
  /\ pc[c] = "idle"
  /\ head = None
  /\ Goto(c, "rTombstone")
  /\ UNCHANGED <<store, era, target, done, seen, tries, token, acked>>

\* load_tombstone: the verdict is Destroyed with a tombstone, Absent without.
ReadTombstone(c) ==
  /\ pc[c] = "rTombstone"
  /\ Return(c)
  /\ UNCHANGED <<store, token, acked>>

-----------------------------------------------------------------------------
\* The process dies, or the request fails and the call returns an error.  A
\* request that takes effect and whose answer is lost is its step and then
\* this one.
Abort(c) ==
  /\ pc[c] # "idle"
  /\ Return(c)
  /\ UNCHANGED <<store, token, acked>>

CallStep(c) ==
  \/ GenesisPublish(c) \/ SuccessorPublish(c)
  \/ CreateReadEra(c) \/ CreatePut(c) \/ CreateRecheck(c) \/ CreateEvict(c)
  \/ SuccessorLoadHead(c) \/ ReplaceHead(c)
  \/ SuccessorRecheck(c) \/ SuccessorEvict(c)
  \/ DestroyTombstone(c) \/ BumpRead(c) \/ BumpCas(c) \/ DestroyDelete(c)
  \/ ReadTombstone(c)

Call(c) ==
  \/ \E r \in Strays \cap Records : PublishRecord(c, r)
  \/ \E r \in Appends \cap Records : AppendGenesis(c, r) \/ AppendSuccessor(c, r)
  \/ Destroy(c) \/ ReadHead(c) \/ ReadHeadState(c)

Next == \E c \in Clients : Call(c) \/ CallStep(c) \/ Abort(c)

Spec == Init /\ [][Next]_vars

\* The custodian's compare-and-swap is told that it took effect.
CustodianAnswered ==
  pc[Custodian] = "bCas" /\ counter' # counter => pc'[Custodian] = "dDelete"

\* Next, with a custodian that neither dies nor loses an answer.
FairNext ==
  \/ \E c \in Clients \ {Custodian} : Call(c) \/ CallStep(c) \/ Abort(c)
  \/ Call(Custodian)
  \/ CallStep(Custodian) /\ CustodianAnswered

\* The custodian finishes its calls and calls destroy again and again.  Nothing is
\* asked of the other clients: they may stop, or die, anywhere.
FairSpec ==
  /\ Init /\ [][FairNext]_vars
  /\ WF_vars(CallStep(Custodian))
  /\ SF_vars(Destroy(Custodian))

-----------------------------------------------------------------------------
(* Properties.                                                             *)

TypeOK ==
  /\ head \in Heads \cup {None}
  /\ counter \in 0..MaxInc
  /\ tombstone \in Tombstones \cup {None}
  /\ objects \subseteq Records
  /\ pc \in [Clients -> PCs]
  /\ era \in [Clients -> 0..MaxInc]
  /\ target \in [Clients -> Records \cup {None}]
  /\ done \in [Clients -> 0..(MaxGen + 1)]
  /\ seen \in [Clients -> Heads \cup {None}]
  /\ tries \in [Clients -> 0..Attempts]
  /\ token \in [Clients -> Heads \cup {None}]
  /\ acked \subseteq [inc : 0..MaxInc, rec : Records]

\* r and every record below it can be read back.
Readable(r) == \A n \in DOMAIN r : Prefix(r, n) \in objects

\* The head, every HeadRead a caller holds and every acknowledged append name
\* a record whose whole chain is published: no load_record of a load_history
\* finds its object missing, whatever callers publish on their own.
HistoryPublished ==
  /\ head # None => Readable(head.rec)
  /\ \A c \in Clients : token[c] # None => Readable(token[c].rec)
  /\ \A a \in acked : Readable(a.rec)

\* While an era is open nothing an append acknowledged in it is lost: the head
\* is there, belongs to the era and has the acknowledged record in its chain,
\* whatever stale destroys and evictions are still in flight.
AckedSurvives ==
  \A a \in acked : a.inc = counter =>
    /\ head # None
    /\ head.inc = a.inc
    /\ Extends(head.rec, a.rec)

\* Acknowledged appends of one era, open or closed, never fork.
AckedLinear ==
  \A a, b \in acked : a.inc = b.inc =>
    Extends(a.rec, b.rec) \/ Extends(b.rec, a.rec)

\* A lineage that was ever acknowledged and has no head now has a tombstone,
\* and no era is closed without one: read_head_state answers Absent only for a
\* lineage that never lived.
DestructionWitnessed ==
  /\ head = None /\ acked # {} => tombstone # None
  /\ counter > 0 => tombstone # None

\* The head of the open era is never deleted or rewound, only extended; and
\* the counter and the tombstone never go back.
HeadMonotone ==
  [][ /\ counter' >= counter
      /\ tombstone # None => tombstone' = tombstone
      /\ head # None /\ head.inc = counter /\ counter' = counter =>
           /\ head' # None
           /\ head'.inc = head.inc
           /\ Extends(head'.rec, head.rec) ]_vars

\* Another client is about to close an era, and after it the custodian may not be
\* left the incarnations of two destroys.
Crowded ==
  /\ counter + 2 >= MaxInc
  /\ \E c \in Clients \ {Custodian} : pc[c] = "bCas" /\ era[c] = counter

\* "Re-running destroy converges": a head left behind in a closed era, by a
\* destroy that died after its bump or by a writer that died before its eviction,
\* is deleted while two incarnations are left: one for a destroy under way that
\* loaded an older head, one for the destroy that removes this one.
DestroyConverges ==
  (head # None /\ head.inc < counter /\ counter + 2 <= MaxInc)
    ~> (head = None \/ Crowded)

-----------------------------------------------------------------------------
(* A sentence of the source that the code does not keep.                   *)

\* append_successor_batch "advance[s] the head exactly once to its terminal
\* record": whatever appends are made, the head that is left can be loaded.
HeadDecodes == head # None => Decodes(head)

-----------------------------------------------------------------------------
(* What the lineage promises its callers.                                  *)

OpenLog == IF head # None /\ head.inc = counter THEN head.rec ELSE <<>>

Abstract == INSTANCE LineageLog WITH era <- counter, log <- OpenLog

\* The kernel implements the log of eras: every request that changes the store
\* or answers a caller is a step of LineageLog or no step at all.
ImplementsLineageLog == Abstract!Spec
=============================================================================
