----------------------------- MODULE LineageFolds -----------------------------
(***************************************************************************)
(* Folding one lineage: a reader loads the head, walks the records from    *)
(* it to genesis one GET at a time, and folds them, with a checkpoint to   *)
(* cross-check or a projection instead of the walk; or it reads the        *)
(* terminal record alone.  Meanwhile callers publish records, appends and  *)
(* destroys move the head request by request, and one stored object may be *)
(* lost or rot.                                                            *)
(*                                                                         *)
(* No reader looks at the incarnation counter, so what a reader loads may  *)
(* be a head of an era that is closed: one that a destroy has not deleted  *)
(* yet, or one that a create or a replace put there after the bump.  Any   *)
(* number of callers may have such a request in flight (StateKernel has    *)
(* the calls themselves), so the steps of the writers are their requests.  *)
(*                                                                         *)
(* Record objects are content-addressed: the digest of a record fixes its  *)
(* sequence number, its payload and its prior record, so a record stands   *)
(* for its own digest here, and an object is whole when it holds the very  *)
(* record that names it.                                                   *)
(***************************************************************************)
EXTENDS Naturals, SequencesExt

CONSTANTS
  Records,         \* the records that callers publish
  MaxGen,          \* the largest generation of a record
  MaxInc,          \* the largest incarnation the writers reach
  Folders,         \* the folders that readers bring (trait LineageFold)
  Refuses(_, _),   \* validate_transition: the folder refuses the record
  Initial(_),      \* initial_state
  Apply(_, _, _),  \* apply: the state after the record, None on an error
  States,          \* what a published checkpoint may have for a state
  Rot,             \* bytes that are no canonical object
  None             \* no object, no value

\* CanonicalHead: the record it names, and what it repeats of it.
Heads == [gen : 0..MaxGen, inc : 0..MaxInc, rec : Records, prior : Records \cup {None}]

ASSUME FoldsAssumption ==
  /\ MaxGen \in Nat
  /\ MaxInc \in Nat
  /\ \A r \in Records : r.seq \in 0..MaxGen
  /\ None \notin Records \cup Heads

VARIABLES
  head,        \* {lineage}/head: generation, incarnation, record, prior
  era,         \* {lineage}/incarnation
  objects,     \* {lineage}/objects/: the bytes under each digest
  held,        \* the projection, or the published checkpoint, a caller holds
  pc,          \* what the reader's call does next
  op,          \* the call: fold, at, rebuild, projected, terminal
  loaded,      \* the head the call has loaded
  want,        \* the generation the call is to fold to
  next,        \* the digest the walk is to load
  recs,        \* the records loaded so far, oldest first
  folder,      \* the folder, once the call has folded with it
  answer,      \* what the last step returned to the caller, if it did
  ready,       \* history: the records published before the end of each era
  log,         \* history: the records the standing head ends, oldest first
  logs,        \* history: the log of each era while it was open
  stood,       \* history: the heads that stood while their era was open
  said,        \* history: the log of the head the call has loaded
  harmed       \* history: whether an object was lost or rotted

lineage == <<head, era, objects, ready, log, logs, stood, harmed>>
locals  == <<pc, op, loaded, want, next, recs, folder, said>>
vars    == <<lineage, held, locals, answer>>

Holds(kind) == held # None /\ held.kind = kind

Init ==
  /\ head = None
  /\ era = 0
  /\ objects = <<>>
  /\ ready = [i \in 0..MaxInc |-> {}]
  /\ log = <<>>
  /\ logs = [i \in 0..MaxInc |-> <<>>]
  /\ stood = {}
  /\ harmed = FALSE
  /\ held = None
  /\ pc = "idle"
  /\ op = None
  /\ loaded = None
  /\ want = 0
  /\ next = None
  /\ recs = <<>>
  /\ folder = None
  /\ said = <<>>
  /\ answer = None

-----------------------------------------------------------------------------
(* The lineage moves, one request of some caller at a time.                *)

\* publish_record: put-if-absent under the record's digest.  It asks for no prior.
\* A record that is there is not written again; a rotten one refuses the call.
PublishRecord(r) ==
  /\ r \notin DOMAIN objects
  /\ objects' = [x \in DOMAIN objects \cup {r} |-> IF x = r THEN r ELSE objects[x]]
  /\ ready' = [i \in 0..MaxInc |-> IF i < era THEN ready[i] ELSE ready[i] \cup {r}]
  /\ answer' = None
  /\ UNCHANGED <<head, era, log, logs, stood, harmed, held, locals>>

\* A batch of one record or more.
Batches == UNION {[1..n -> Records] : n \in 1..(MaxGen + 1)}

\* validate_record_batch: the batch goes on from a head of generation gen and record
\* prior.  The empty batch on a head, which StateKernel has, is left out here.
ValidBatch(rs, gen, prior) ==
  \A k \in DOMAIN rs :
    /\ rs[k].seq = gen + k - 1
    /\ rs[k].prior = IF k = 1 THEN prior ELSE rs[k - 1]

\* A head of era i stands, and its log is l.
Stand(i, l) ==
  /\ head' = [gen |-> Last(l).seq, inc |-> i, rec |-> Last(l), prior |-> Last(l).prior]
  /\ log' = l
  /\ \/ /\ i = era
        /\ logs' = [logs EXCEPT ![i] = l]
        /\ stood' = stood \cup {[inc |-> i, rec |-> Last(l)]}
     \/ i # era /\ UNCHANGED <<logs, stood>>
  /\ answer' = None
  /\ UNCHANGED <<era, objects, ready, harmed, held, locals>>

\* The PUT of create_head.  Its caller published the batch and then read counter
\* value i; that era may have closed in the meantime.
CreateHead(i, rs) ==
  /\ head = None
  /\ i <= era
  /\ ValidBatch(rs, 0, None)
  /\ ToSet(rs) \subseteq ready[i]
  /\ Stand(i, rs)

\* The PUT of replace_head, with If-Match on a head its caller saw while the era
\* was open.  A head that was damaged takes no append here.
ReplaceHead(rs) ==
  /\ head # None
  /\ head.gen = head.rec.seq /\ head.prior = head.rec.prior
  /\ [inc |-> head.inc, rec |-> head.rec] \in stood
  /\ ValidBatch(rs, head.gen + 1, head.rec)
  /\ ToSet(rs) \subseteq ready[MaxInc]
  /\ Stand(head.inc, log \o rs)

\* bump_incarnation, of a destroy that found a head.
BumpIncarnation ==
  /\ stood # {}
  /\ era < MaxInc
  /\ era' = era + 1
  /\ answer' = None
  /\ UNCHANGED <<head, objects, ready, log, logs, stood, harmed, held, locals>>

\* The conditional delete of destroy, or the eviction by create_head or
\* retire_closed_era_publication: all of them come after the bump.
DeleteHead ==
  /\ head # None
  /\ head.inc < era
  /\ head' = None
  /\ log' = <<>>
  /\ answer' = None
  /\ UNCHANGED <<era, objects, ready, logs, stood, harmed, held, locals>>

\* A record object is lost, or holds other bytes from now on; or the head is
\* rewritten with another generation or prior, in a form that still decodes.
Harm ==
  /\ ~ harmed
  /\ harmed' = TRUE
  /\ \/ \E r \in DOMAIN objects :
          /\ \/ objects' = [x \in DOMAIN objects \ {r} |-> objects[x]]
             \/ \E b \in (DOMAIN objects \ {r}) \cup {Rot} :
                  objects' = [objects EXCEPT ![r] = b]
          /\ UNCHANGED head
     \/ /\ head # None
        /\ \E g \in 0..MaxGen, p \in DOMAIN objects \cup {None} :
             /\ (g = 0) = (p = None)
             /\ head' = [head EXCEPT !.gen = g, !.prior = p]
        /\ head' # head
        /\ UNCHANGED objects
  /\ answer' = None
  /\ UNCHANGED <<era, ready, log, logs, stood, held, locals>>

-----------------------------------------------------------------------------
(* The caller's folder.  A state stands for its canonical bytes; a folder  *)
(* that cannot write its state down fails as one that cannot apply.        *)

ValidateTransitions(f, rs) == \A i \in DOMAIN rs : ~ Refuses(f, rs[i])

\* State s after the records rs, None as soon as one cannot be applied.
FoldFrom(f, s, rs) == FoldLeft(LAMBDA t, r : IF t = None THEN None ELSE Apply(f, t, r), s, rs)

FoldFull(f, rs) == FoldFrom(f, Initial(f), rs)

\* Every transition is validated before any is applied.
Accepts(f, rs) == ValidateTransitions(f, rs) /\ FoldFull(f, rs) # None

-----------------------------------------------------------------------------
(* Checkpoints.                                                            *)

Checkpoint(g, source, last, s) ==
  [kind |-> "checkpoint", gen |-> g, source |-> source, last |-> last,
   state |-> s, bytes |-> "whole"]

\* What a published checkpoint may say: of any record, the truth or one thing wrong.
\* A state of None is one restore_checkpoint cannot read.
Candidates ==
  LET R == DOMAIN objects IN
  UNION {
       {Checkpoint(r.seq, r, r, s) : s \in States \cup {None}}
         \cup {Checkpoint(r.seq + 1, r, r, s) : s \in States}
         \cup {Checkpoint(r.seq, q, r, s) : q \in R, s \in States}
         \cup {Checkpoint(r.seq, r, q, s) : q \in R, s \in States} : r \in R}

\* publish_checkpoint; the object may be lost or rot before a fold reads it.
PublishCheckpoint ==
  /\ pc = "idle"
  /\ held = None
  /\ \E c \in Candidates :
       \/ held' = c
       \/ c.state = None /\ held' = [c EXCEPT !.bytes = "rotten"]
  /\ answer' = None
  /\ UNCHANGED <<lineage, locals>>

\* load_checkpoint and CanonicalCheckpoint::from_bytes.
CheckpointLoads(c) == c.bytes = "whole"

\* validate_checkpoint_basis: the checkpoint's source is a record of this
\* history, at its place.
CheckpointBasis(c, rs) ==
  /\ c.gen + 1 \in DOMAIN rs
  /\ c.source = rs[c.gen + 1]
  /\ c.last = rs[c.gen + 1]

\* Mutant: a checkpoint with the right basis is believed.
CheckpointTrusted(c, f, rs) == CheckpointLoads(c) /\ CheckpointBasis(c, rs)

\* check_checkpoint: accepted when its state, with the records after it
\* applied, is the state of the full fold; anything else is one rejection.
CheckCheckpoint(c, f, rs) ==
  /\ CheckpointLoads(c)
  /\ CheckpointBasis(c, rs)
  /\ c.state # None
  /\ FoldFrom(f, c.state, SubSeq(rs, c.gen + 2, Len(rs))) = FoldFull(f, rs)

-----------------------------------------------------------------------------
(* Projections.                                                            *)

Projection(g, r, rs) ==
  [kind |-> "projection", gen |-> g, rec |-> r, records |-> rs]

\* from_authoritative: each record with its digest.
FromAuthoritative(h, rs) ==
  Projection(h.gen, h.rec, [i \in DOMAIN rs |-> [digest |-> rs[i], bytes |-> rs[i]]])

\* records_for_source: the copied records are the source's chain, whole, in
\* order, each under its own digest and none twice.
RecordsForSource(p) ==
  /\ Len(p.records) = p.gen + 1
  /\ p.records[Len(p.records)].digest = p.rec
  /\ \A i \in DOMAIN p.records :
       /\ p.records[i].bytes = p.records[i].digest
       /\ p.records[i].bytes.seq = i - 1
       /\ p.records[i].bytes.prior =
            IF i = 1 THEN None ELSE p.records[i - 1].digest

\* Mutant: a projection of the head's generation will do.
MatchesGeneration(p, h) == p.gen = h.gen

\* ProjectionSource::matches; the incarnation is not compared.
Matches(p, h) == p.gen = h.gen /\ p.rec = h.rec

\* load_projected_history.
ProjectedHistory(p, h) ==
  /\ Matches(p, h)
  /\ RecordsForSource(p)
  /\ p.records[Len(p.records)].bytes.prior = h.prior

\* from_canonical_bytes: only a coherent copy comes back.
CameBack(p) ==
  /\ p.records # <<>> /\ p # held
  /\ RecordsForSource(p)
  /\ held' = p

\* canonical_bytes and from_canonical_bytes.  The cached bytes may have become those
\* of a copy with a record dropped, or with one replaced and the source with it.
FromCanonicalBytes ==
  /\ pc = "idle"
  /\ Holds("projection")
  /\ \E i \in DOMAIN held.records :
       \/ CameBack([held EXCEPT !.records = RemoveAt(@, i)])
       \/ \E d, r \in DOMAIN objects, b \in DOMAIN objects \cup {Rot} :
            LET copy == [digest |-> d, bytes |-> b] IN
            CameBack([held EXCEPT !.records = [@ EXCEPT ![i] = copy],
                                  !.gen = r.seq, !.rec = r])
  /\ answer' = None
  /\ UNCHANGED <<lineage, locals>>

\* The caller drops what it holds.
Drop ==
  /\ pc = "idle"
  /\ held # None
  /\ held' = None
  /\ answer' = None
  /\ UNCHANGED <<lineage, locals>>

-----------------------------------------------------------------------------
(* The calls.                                                              *)

Idle ==
  /\ pc' = "idle"
  /\ op' = None
  /\ loaded' = None
  /\ want' = 0
  /\ next' = None
  /\ recs' = <<>>
  /\ folder' = None
  /\ said' = <<>>

Error(why, g) == /\ answer' = [ok |-> FALSE, why |-> why, gen |-> g, folder |-> None]
                 /\ Idle

\* StateRecordMalformed: the folder refuses a record or cannot apply one.
Malformed(g, f) == /\ answer' = [ok |-> FALSE, why |-> "malformed", gen |-> g, folder |-> f]
                   /\ Idle

\* FoldOutcome of the records of h up to generation g; l is the log of h.
Outcome(h, l, g, f, rs, used, accepted) ==
  [ok |-> TRUE, call |-> "fold", inc |-> h.inc, gen |-> g, log |-> l, folder |-> f,
   records |-> rs, state |-> FoldFull(f, rs), used |-> used, accepted |-> accepted]

\* TerminalRecordRead.
TerminalRead(h, l, r) ==
  [ok |-> TRUE, call |-> "terminal", inc |-> h.inc, gen |-> h.gen, log |-> l,
   records |-> <<r>>, accepted |-> None]

\* fold_records once the history is there, without a checkpoint.
FoldRecords(h, l, g, rs, used) ==
  \E f \in Folders :
    \/ /\ Accepts(f, rs)
       /\ answer' = Outcome(h, l, g, f, rs, used, None)
       /\ Idle
    \/ ~ Accepts(f, rs) /\ Malformed(g, f)

\* load_head, and the first digest the call is to load.
LoadHead(call, g) ==
  /\ pc = "idle"
  /\ head # None
  /\ pc' = IF call = "terminal" THEN "terminal" ELSE "history"
  /\ op' = call
  /\ loaded' = head
  /\ want' = g
  /\ next' = head.rec
  /\ recs' = <<>>
  /\ folder' = None
  /\ said' = log
  /\ answer' = None

NoHead(g) ==
  /\ pc = "idle"
  /\ head = None
  /\ Error("incomplete", g)

\* fold, with the digest of a published checkpoint or without.
Fold ==
  /\ \/ NoHead(0)
     \/ head # None /\ LoadHead("fold", head.gen)
  /\ UNCHANGED <<lineage, held>>

\* fold_at_generation.
FoldAtGeneration(g) ==
  /\ \/ NoHead(g)
     \/ pc = "idle" /\ head # None /\ g > head.gen /\ Error("incomplete", g)
     \/ head # None /\ g <= head.gen /\ LoadHead("at", g)
  /\ UNCHANGED <<lineage, held>>

RebuildProjection ==
  /\ held = None
  /\ \/ NoHead(0)
     \/ head # None /\ LoadHead("rebuild", head.gen)
  /\ UNCHANGED <<lineage, held>>

\* fold_with_projection: a good copy is folded at once, any other one is
\* discarded and the records are read.
FoldWithProjection ==
  /\ Holds("projection")
  /\ \/ NoHead(0)
     \/ /\ pc = "idle" /\ head # None
        /\ ProjectedHistory(held, head)
        /\ FoldRecords(head, log, head.gen,
             [i \in DOMAIN held.records |-> held.records[i].bytes], TRUE)
     \/ /\ head # None /\ ~ ProjectedHistory(held, head)
        /\ LoadHead("projected", head.gen)
  /\ UNCHANGED <<lineage, held>>

\* read_terminal_record.
ReadTerminalRecord ==
  /\ \/ NoHead(0)
     \/ head # None /\ LoadHead("terminal", head.gen)
  /\ UNCHANGED <<lineage, held>>

\* What the walk's last record leads to.
HistoryLoaded(rs) ==
  \/ /\ op = "rebuild"
     /\ held' = FromAuthoritative(loaded, rs)
     /\ answer' = None
     /\ Idle
  \/ /\ op = "fold" /\ Holds("checkpoint")
     /\ \E f \in Folders : Accepts(f, rs) /\ folder' = f
     /\ pc' = "checkpoint"
     /\ recs' = rs
     /\ answer' = None
     /\ UNCHANGED <<op, loaded, want, next, said, held>>
  \/ /\ op = "fold" /\ Holds("checkpoint")
     /\ \E f \in Folders : ~ Accepts(f, rs) /\ Malformed(want, f)
     /\ UNCHANGED held
  \/ /\ op \in {"fold", "at", "projected"}
     /\ op = "fold" => ~ Holds("checkpoint")
     /\ FoldRecords(loaded, said, want, SubSeq(rs, 1, want + 1), FALSE)
     /\ UNCHANGED held

\* CanonicalRecord::from_bytes under the digest the walk asked for.
RecordFromBytes(b) == b = next

\* One round of load_history: load_record and its checks against the expected
\* generation, and against the head's prior for the first record.
LoadRecord ==
  LET bytes  == objects[next]
      expect == loaded.gen - Len(recs)
      fits   == /\ bytes.seq = expect
                /\ recs = <<>> => loaded.prior = bytes.prior
  IN
  /\ pc = "history"
  /\ \/ /\ next \notin DOMAIN objects
        /\ Error("incomplete", want)
        /\ UNCHANGED held
     \/ /\ next \in DOMAIN objects /\ ~ RecordFromBytes(bytes)
        /\ Error("mismatch", want)
        /\ UNCHANGED held
     \/ /\ next \in DOMAIN objects /\ RecordFromBytes(bytes) /\ ~ fits
        /\ Error("incomplete", want)
        /\ UNCHANGED held
     \/ /\ next \in DOMAIN objects /\ RecordFromBytes(bytes) /\ fits
        /\ bytes.prior = None
        /\ HistoryLoaded(<<bytes>> \o recs)
     \/ /\ next \in DOMAIN objects /\ RecordFromBytes(bytes) /\ fits
        /\ bytes.prior # None
        /\ next' = bytes.prior
        /\ recs' = <<bytes>> \o recs
        /\ answer' = None
        /\ UNCHANGED <<pc, op, loaded, want, folder, said, held>>
  /\ UNCHANGED lineage

\* The terminal record, and the digest the head names it by: nothing below it is
\* read, and neither its sequence number nor its prior is compared with the head.
LoadTerminalRecord ==
  /\ pc = "terminal"
  /\ \/ next \notin DOMAIN objects /\ Error("incomplete", want)
     \/ /\ next \in DOMAIN objects /\ ~ RecordFromBytes(objects[next])
        /\ Error("mismatch", want)
     \/ /\ next \in DOMAIN objects /\ RecordFromBytes(objects[next])
        /\ answer' = TerminalRead(loaded, said, objects[next])
        /\ Idle
  /\ UNCHANGED <<lineage, held>>

\* Mutant: a defect of the checkpoint is the fold's own error.
ReadCheckpointStrict ==
  /\ pc = "checkpoint"
  /\ \/ /\ CheckCheckpoint(held, folder, recs)
        /\ answer' = Outcome(loaded, said, want, folder, recs, FALSE, held)
        /\ Idle
     \/ ~ CheckCheckpoint(held, folder, recs) /\ Error("incomplete", want)
  /\ UNCHANGED <<lineage, held>>

\* The checkpoint read of a fold: an integrity defect is a rejection beside
\* the outcome, never the outcome.
ReadCheckpoint ==
  /\ pc = "checkpoint"
  /\ answer' = Outcome(loaded, said, want, folder, recs, FALSE,
                       IF CheckCheckpoint(held, folder, recs) THEN held ELSE None)
  /\ Idle
  /\ UNCHANGED <<lineage, held>>

\* A request fails, or the process dies: StateUnavailable.
Fail ==
  /\ pc # "idle"
  /\ Error("unavailable", want)
  /\ UNCHANGED <<lineage, held>>

Next ==
  \/ \E r \in Records : PublishRecord(r)
  \/ \E rs \in Batches : ReplaceHead(rs) \/ \E i \in 0..MaxInc : CreateHead(i, rs)
  \/ BumpIncarnation \/ DeleteHead \/ Harm
  \/ PublishCheckpoint \/ FromCanonicalBytes \/ Drop
  \/ Fold \/ RebuildProjection \/ FoldWithProjection \/ ReadTerminalRecord
  \/ \E g \in 0..MaxGen : FoldAtGeneration(g)
  \/ LoadRecord \/ LoadTerminalRecord \/ ReadCheckpoint \/ Fail

Spec == Init /\ [][Next]_vars

-----------------------------------------------------------------------------
(* Properties.                                                             *)

\* Every fold that succeeds, by whichever way, is the fold of the log of the head
\* the call loaded, from its beginning to the generation it reports, whatever was
\* lost, rotted, appended or destroyed while it ran.  If that head ever stood while
\* its era was open, the log is the era's own: two folds of one generation of
\* heads that did never differ.  (A head that landed after its era closed can be
\* folded too, and its log may be another one.)  A terminal read returns the record
\* that a fold of the same head ends with.
FoldIsGenuine ==
  answer # None /\ answer.ok =>
    /\ answer.call = "fold" =>
         /\ answer.gen < Len(answer.log)
         /\ answer.records = SubSeq(answer.log, 1, answer.gen + 1)
         /\ answer.state = FoldFull(answer.folder, answer.records)
         /\ [inc |-> answer.inc, rec |-> Last(answer.log)] \in stood =>
              answer.records = SubSeq(logs[answer.inc], 1, answer.gen + 1)
    /\ answer.call = "terminal" => answer.records = <<Last(answer.log)>>

\* A checkpoint a fold accepts was taken at a record of the folded log, and the
\* caller's folder gets from its state, by the records of the log after that one, to
\* the state of the log from genesis.  For a folder that forgets this is less than
\* being the state of the prefix.
AcceptedCheckpointIsTrue ==
  answer # None /\ answer.ok /\ answer.accepted # None =>
    LET c == answer.accepted
        l == answer.log
    IN /\ c.gen < Len(l)
       /\ c.source = l[c.gen + 1]
       /\ FoldFrom(answer.folder, c.state, SubSeq(l, c.gen + 2, Len(l))) =
            FoldFull(answer.folder, l)

\* With every record and the head intact, only an absent head, a generation
\* the head has not reached, records that the caller's folder does not accept or a
\* failed request makes a fold or a terminal read fail: no projection and no
\* checkpoint does, and no append or destroy that runs meanwhile.
DerivedNeverBlocks ==
  [][ answer' # None /\ ~ answer'.ok /\ ~ harmed =>
        \/ pc = "idle" /\ (head = None \/ answer'.gen > head.gen)
        \/ /\ answer'.why = "malformed"
           /\ ~ Accepts(answer'.folder,
                        SubSeq(IF pc = "idle" THEN log ELSE said, 1, answer'.gen + 1))
        \/ answer'.why = "unavailable" ]_vars
===============================================================================
