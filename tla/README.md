# A TLA+ model of yeetz-s3-kernel

The repository builds durable state on an S3-compatible object store and on
nothing else: no lock service, no database, no shared memory. What keeps it
correct is the order in which each operation sends its conditional requests.
These modules model that order, one request per step, and check what is left
when several clients run at once, die anywhere and lose answers.

## 1. The system

| component | state in the store | operations | hard part |
|---|---|---|---|
| Lineage (`state_kernel.rs`, `terminal_read.rs`, `tombstone.rs`) | `{lineage}/head`, `/incarnation`, `/tombstone`, `/objects/{digest}` | append_genesis, append_successor, their batches, destroy, read_head, read_head_state, publish_record | counter and head are two objects: a destroy may close the era between any two requests of a writer |
| Folds (`state_kernel.rs`, `terminal_read.rs`) | `/checkpoints/{digest}`, projections the caller keeps | fold, fold_at_generation, checkpointed and projected folds, read_terminal_record | the walk takes many GETs while the lineage moves; a derived object may be stale or damaged |
| Atomic keyspace (`atomic_keyspace.rs`) | `keyspace/{ns}/{key}`, `incarnations/{key}`, `tombstones/{key}`, `{scope}/trims/{seq}` | create, compare_exchange, delete, delete_if_match, destroy, read_state | same bytes have the same ETag: values that come back look like the old ones |
| Walks and batches (`atomic_keyspace.rs`, `store.rs`) | the same keys, in byte order | list_after, trim_floor, propose_trim, delete_below, delete_many, delete_objects | pages are read one by one while keys come and go; a response may leave keys out |
| Chunked values (`value_stream.rs`, `value_manifest.rs`) | chunks, manifests, `fences/gc` | begin, write, seal, commit, open, sweep_chunks, the fence | commit against sweep, lost manifest PUT, uploads and fetches in flight |
| Streams (`yeetz-s3-streams`) | `{stream}/log/{seq}`, tail hint, cursors, certificates | create_stream, append, read, trim, gc, advance_cursor, append_expected, migrate_log | numbers are allocated by a guess and a put-if-absent, from reads that may be stale |
| SDK (`yeetz-sdk-s3`, `yeetz-sdk-core`) | objects, open multipart uploads | uploads, downloads, deletes; an HTTP client with retries | a request may have taken effect although it failed |

Components interact only through the store: the streams call the keyspace, the
keyspace and the lineage call the store client. There are no callbacks and no
background task: a sweeper or a custodian is a caller of the library. (The HTTP
client of `yeetz-sdk-core` is used by other services, not by the kernel.)

What makes them correct: nothing acknowledged is lost or forked while its
lifetime is open; a lifetime never ends without a witness; bytes of an earlier
lifetime never win against a later one; what a head or a manifest names is
there; a stream's retained log is dense and only certified events go away; an
answer (a receipt, a replay that is complete, an outcome, a fold) is true.

## 2. The modules

**Lineage**

* `StateKernel` - one lineage. `head`, `counter`, `tombstone` and `objects` are
  its objects. `pc` names the request a client sends next; `era`, `target`,
  `done`, `seen`, `tries` are the locals of its call; `token` is the `HeadRead`
  it holds between calls; `acked` remembers what was promised. A call begins
  with an action that names the library function (`AppendGenesis`,
  `AppendSuccessor`, `Destroy`, `ReadHead`, `ReadHeadState`, `PublishRecord`),
  goes on with one action per request, and ends in `Return` or `Acknowledge`.
* `LineageLog` - what a lineage promises: in each era one log that only grows,
  until the era closes and the next begins empty. `StateKernel` implements it
  with `era <- counter` and `log <-` the head's chain if the head belongs to the
  open era, else empty. A head of a closed era, which a crashed writer may leave
  and which reads and folds do return while it is there, is no part of that log: no
  append on it is acknowledged.
* `LineageFolds` - one reader that loads the head, walks the records and folds
  them, with a checkpoint to cross-check or a projection instead of the walk, or
  reads the terminal record alone. The writers of the lineage are their requests:
  records are published, a head is put by a create that read the counter in this
  era or an earlier one (`CreateHead`), replaced by an append whose caller saw the
  head while its era was open (`ReplaceHead`), the counter is bumped, and a head of
  a closed era is deleted, in separate steps. One stored object may be lost or rot. A
  folder is the caller's, so it is three constant operators (`Refuses`, `Initial`,
  `Apply`), and may forget or fail. `log` spells the records of the standing head,
  `logs` those of each era while it was open, `stood` the heads that stood in an
  open era, `said` the log of the head the call has loaded.

**Keyspace**

* `AtomicKeyspace` - one key with inline values. Besides the three objects it
  keeps which tokens are out of date (`stale`) and which exchanges matched one
  of them (`crossed`): two objects with equal bytes cannot be told apart in the
  store. `May` gives each process the operations its program calls, `Writes` the
  values it writes.
* `KeyRegister` - what a key promises: in each incarnation one register that takes
  versions 0, 1, 2, ... until the incarnation closes, and holds or has passed every
  version that was acknowledged. `AtomicKeyspace` implements it with `era <- counter`
  and `register <-` the value if it belongs to the open incarnation, else empty. A
  caller's raw delete (`Void`) is the one step that empties a register.
* `ValueStream` - one key with chunked values: staging under the bound
  generation, seal, the conditional PUT of the manifest, the adjudication of a
  lost answer, snapshots that readers hold, destroy, the maintenance fence, the
  page-wise sweep. Quiescence, which the sweep asks of its caller, is `Quiesced`.
* `ChunkPipeline` - the bytes of one value: the writer's buffer and uploads in
  flight, the manifest, and the reader's fetches that finish in any order.
* `Deletions` - many keys: the paged walks for the floor and below it, and the
  batched deletes with the reconciliation of the store's response. One caller is
  modelled request by request, the others act between its requests.

**Streams**

* `StreamStore` - what a stream promises about its objects: `Land`, `Certify`,
  `Sweep`. Three modules compose with it.
* `StreamsLog` - `append` is: seed, LIST, hint, floor, scan, create loop with
  readback, hint update; `trim` shares the first three; `gc` reads the floor,
  lists and deletes one by one. It implements `StreamStore`.
* `ConditionalAppend` - `create_stream_with_id` and `append_expected` on top of
  the steps of `StreamStore` (ordinary appends, trims, sweeps by others), with
  lost answers and damaged objects; `answer` is what the caller is told.
* `StreamReads` - one consumer: `read` with its completeness witnesses, repair of
  the hint, cursors, `read_range` and `read_event`, `migrate_log`. The others are
  `StreamStore`'s steps and moves of hint and cursor.

**SDK**

* `ObjectClient` - plain, streamed and caller-driven multipart uploads of two
  uploaders to one path, delete, downloads. `RetryLoop` - one call of the HTTP
  client. `MCSdk` composes the two, which share no state, one after the other.

`MC...` are the instances for TLC, `..._proofs` the theorems about the module of
that name (section 5). Two modules of theorems are about more than one: the proofs
of `ConditionalAppend` and `StreamReads`, which both call a stream, are in
`StreamCallers_proofs`, and those of `Deletions`, `RetryLoop`, `ObjectClient` and
`ChunkPipeline`, which send requests to the store and wait for what becomes of
them, in `Requests_proofs`. The modules that share one have distinct names for
their variables and steps (`ConsumerNext`, `StoreNext`, `PipeNext`, ...).
`StreamStore_proofs` serves the other stream proofs: `StreamCallers_proofs` extends
it, `StreamsLog_proofs` instantiates it.
Definitions marked "Mutant" are faulty variants of the definition below them.
They are no part of any specification; each breaks one property, which shows
that the property depends on the code.

### What the models abstract

* **Digests and bytes.** A record's bytes include its prior's digest, so a record
  is modelled by its chain of payloads (no hash collision). An ETag is a function
  of an object's bytes, the weakest promise S3 makes. A chunk is its digest, a
  value the set (`ValueStream`) or the sequence (`ChunkPipeline`) of its chunks.
  Wire formats are otherwise left out.
* **Requests.** A GET, LIST page, PUT or DELETE with its condition is atomic.
  `Abort` ends a call at any request: a crash, a failure, or, after the request's
  own step, a lost answer. Where the SDK's resending of a request changes what
  the caller does next (`BumpCas`, `AppendCreate`), the refused second try is a
  disjunct. In `StreamsLog` a paged LIST is answered at one moment; `Deletions`
  has the pages, and in `StreamReads` a LIST may lag.
* **Malformed objects** are modelled where a property is about them: the head of
  an empty batch (section 6), damaged events (`ConditionalAppend`), lost or rotten
  records and derived objects (`LineageFolds`).
* **Calls that change nothing** (a batch that is refused before any write, a
  destroy of an absent key) are no step. Error values are kept only where a
  property is about the answer.
* **Locals** are cleared when a call ends and when they are dead.
* **Streams.** An event is an id and a payload. The hint's own incarnation and
  version are left out: two hints with the same content are one, which permits
  more exchanges than the code does. A GET that fails inside
  `verified_tail_hint` counts as no hint (`HintRead`). Receipts below the floor
  are forgotten by the history variable: the floor never falls.
* **Keyspace.** The key of `AtomicKeyspace` is not seq-shaped, so no certificate
  retires it.

## 3. The runs

| run | question | instance | distinct states |
|---|---|---|---|
| Kernel | do acknowledged appends survive, stay linear and published, and does the store implement LineageLog, while two clients create, extend and destroy through two incarnations? | 2 clients, 2 payloads, both geneses and the successors of one, generations 0-1, incarnations 0-1, 2 loop iterations, a stray record, a v1 head | 1.3 M |
| KernelConverges | does re-running destroy remove the heads of closed eras? | 2 clients, genesis batches of two records, incarnations 0-4 | 419 k |
| KernelHeadDecodes | a sentence of the source the code does not keep (section 6) | 2 clients, generations 0-2 | violated |
| Keyspace | is each incarnation a register (KeyRegister), with one winner per version, no exchange that crosses lifetimes and nothing acknowledged lost? | 3 programs (exchange and raw delete; exchange and destroy; create), of which two write the same value and one another, versions 0-1, incarnations 0-1 | 1.8 M |
| Values | are the chunks of manifests and snapshots there, receipts true and sweeps fenced? | 2 clients, 1 payload of one chunk, versions 0-1, incarnations 0-1, 3 manifests, 2 fences | 2.1 M |
| Pipeline | is what is sealed what was written, and what is read the window? | 9 bytes in chunks of 2, at most 4 chunks, 2 in flight, buffers of 1-3, every window | 25 k |
| Deletions | current floors, sweeps of expired keys only, true outcomes | 12 keys of every class, pages of 2, batches of 2, input up to 3 | 349 k |
| Streams | receipts, retries, refinement of StreamStore | 2 clients, 2 ids, 2 payloads, numbers 1-3, window 1, budget 1, one keeper | 1.5 M |
| Conditional | true effects, one event per position, the right predecessor | 1 caller and the environment, 3 events, 2 configurations, numbers 1-2, 1 damage | 190 k |
| Reads | complete replays, true migrations, monotone cursors | 1 consumer and the environment, 2 events, 2 histories, numbers 1-4, limit 2 | 2.1 M |
| Folds | genuine folds, honest checkpoints, harmless derived objects | 2 geneses and a successor, 3 folders (one keeps all, one forgets, one refuses and fails), generations 0-1, incarnations 0-1, 1 harm | 2.9 M |
| Sdk | whole objects, no parts left, true outcomes | 2 uploaders (1.5 and 2 parts), 5 strategies, 6 predicates | 2.1 M |

**Why these bounds.** Two incarnations are what a cross-lifetime confusion needs:
the bytes of the first come back in the second. A program that writes one value
makes *all* its values of a version byte-identical, the worst case for ETags; two
payloads are there where forks, or two writers of a version, must be told apart. In
Folds two geneses let a late create put another genesis than its era's own, and a
folder that keeps only the latest payload is the simplest that forgets. Two clients suffice for a writer against a destroy; the
keyspace's ABA needs a third that holds a token. Two loop iterations let a create
be evicted and try again. Three sequence numbers with a window of one let an
event be outside the window, the hint lag, and the floor pass an event while a
later one is retained; a fourth lets the recovery of the hint overshoot and search
back. Three manifests and two fences let a commit be lost, a
rival commit win, and a late release meet the second fence. Pages of two over
twelve keys put the boundaries of pages inside every class, between the class
that sorts before the certificates (`trims-x` against `trims/`) and them. Chunks
of two and buffers of one to three cut a write anywhere, and the ninth byte is
one too many.

*Roles* keep instances small without losing a conflict: in Streams one client
trims and sweeps beside its own append, the other appends, fails and appends
again; Keyspace has the three programs above; `Appends` in StateKernel are the
records that callers' appends end in. Conditional and Reads need one caller each,
since the environment takes every step another caller could take on the objects.
Two trims at once are the subject of Deletions.

The bounds stand for `u64::MAX` (generation, version, incarnation, number), 8
attempts, a window of 16 and a budget of 64; they are reached in the runs. The
theorems of section 5 hold for all bounds. `Records` of LineageFolds, a constant, is
in the run two geneses and one record on the first. In Kernel generations end at 1, so
a batch above a head is one record there, and batches of more are geneses; the
theorems have batches of any length.

**Fairness** is assumed in one run. `FairSpec` says that one client, the
custodian, does not die, gets an answer when its bump took effect, finishes its calls
(weak fairness), and calls destroy again whenever it is idle again and again while a
head is there (strong fairness, since its other calls and the absence of a head
disable it). This is what "re-running `destroy` converges" supposes. Nothing is asked
of the other client: it may stop or die anywhere.
`DestroyConverges` counts incarnations, because destroy is refused at the last one
and each destroy uses one up: a head of a closed era is deleted if two are left. One
may go to a destroy under way that had loaded an earlier head; the next one loads
this head and removes it. With one left the property fails, and so it does if
destroy's delete is kept from a head of an era closed by somebody else. The other
client may use up incarnations too; only when it is about to take one of the last
two (`Crowded`) is nothing claimed. The run uses a genesis-only lineage: with
successors the empty batch of section 6 leaves a head that no destroy can load.
Nothing else in the library runs by itself, so there is no other "must eventually"
to state.

**Deadlock** is checked in every run: an idle client can always begin a call.

## 4. What the properties say

*Lineage.* `AckedSurvives`: an acknowledged append of the open era is in the
chain of the present head. `AckedLinear`: acknowledged appends of an era never
fork, also after it closed. `HeadMonotone`: no step deletes or rewinds the head
of the open era. `DestructionWitnessed`: an era never closes without a
tombstone, and read_head_state says Absent only of a lineage that never lived.
`HistoryPublished`: everything a head, token or acknowledgement names can be
read back to genesis. `ImplementsLineageLog`: all of it as a refinement.
`DestroyConverges`: section 3.

*Folds.* `FoldIsGenuine`: a fold that succeeds, by whichever way, is the fold of
the log of the head it loaded, up to the generation it reports; and of its era's own
log if that head ever stood while the era was open, so two folds of such heads agree
on every generation they share. A terminal read returns the record such a fold ends
with. (Section 6 has the head for which the era's own log is not what is folded.)
`AcceptedCheckpointIsTrue`: an accepted checkpoint was taken at a record of the folded
log, and from its state the caller's folder gets to the state of that log. That is all
`check_checkpoint` compares: for a folder that forgets, the state of the checkpoint
need not be the state of its prefix. `DerivedNeverBlocks`: with head and records
intact, no checkpoint, no projection and no concurrent append or destroy makes a fold
fail.

*Keyspace.* `OneWinnerPerVersion`: no version of an incarnation is acknowledged
twice, be it to two writers of different values or to two creates that land the same
bytes. `AckedExchangeIsFresh`:
an acknowledged exchange replaced the object its token was read from, not one
with the same bytes. `ImplementsKeyRegister`: versions of an incarnation follow
each other from 0 on, and nothing but a raw delete takes the value of the open
incarnation away. `AckedValueSurvives`, `DestructionWitnessed`: as for the lineage,
outside incarnations in which a caller used a raw delete.

*Chunked values.* `ManifestIsBacked`: the manifest at the key names no missing
chunk. `SnapshotIsWhole`: no reader of an opened value meets one.
`ReceiptsSurvive`: a receipt, also one given after a lost answer, is for a write
the key holds or has moved past. `SweepStaysFenced`: a late release never lifts
another erection's fence. `SealedIsWritten`, `YieldsTheWindow`: the bytes.

*Many keys.* `FloorIsCurrent`: a floor is not below the one certified when its
walk began. `SweepsOnlyExpired`: a sweep deletes only data below the floor and
its mirrored objects. `OutcomesAreTrue`: every key has an outcome, and one that
is reported deleted was absent at some moment of the call.

*Streams.* `ImplementsStreamStore`: no hole at or above the floor, nothing
overwritten, nothing uncertified lost, however calls interleave.
`ReceiptsRetained`: a receipt's event stays until a certificate passes it.
`RetryWindow`: inside the window an id lands once unless the hint moved past it.
`EffectIsTrue`: a conditional append says NotAttempted only if it wrote nothing,
and a receipt, with success or error, is for an event that was there.
`OneEventPerPosition`: success is about the first event a number ever had.
`LandsOnItsPredecessor`: an event lands behind the predecessor it was given.
`OneConfiguration`: a stream id has one configuration. `CompleteIsTrue`: a replay
that says it is complete has every event the log had when it was called.
`CursorMonotone`: a cursor moves forward and not past the log. `MigrationIsTrue`:
a migration with a receipt is in the log entry by entry.

*SDK.* `WholeOrNothing`: readers see one uploader's whole content, or, if a caller
completes with a part of its parts, exactly what it listed, in order.
`NothingLeftOpen`: a multipart upload nobody drives any more is gone unless its
caller died, its abort failed or the answer to its create was lost; in the last case
it has no parts. `OutcomeIsTrue`: what the retry loop reports agrees with its
attempts.

## 5. What is proved

Twelve modules are proved about, each for any clients, payloads, programs, sizes and
bounds. Of the 39 properties that the passing runs check, 38 are theorems; the
other one, `DestroyConverges`, is liveness.

| module | theorems (beside `TypeCorrect`) | assumptions |
|---|---|---|
| StateKernel | AckedSurvives, AckedLinear, HeadMonotone, DestructionWitnessed, HistoryPublished, ImplementsLineageLog | BoundsAssumption, NoneAssumption |
| LineageFolds | FoldIsGenuine, AcceptedCheckpointIsTrue, DerivedNeverBlocks | FoldsAssumption, RecordsAssumption |
| AtomicKeyspace | AckedValueSurvives, ImplementsKeyRegister, DestructionWitnessed, OneWinnerPerVersion, AckedExchangeIsFresh | KeyspaceAssumption, NoControlAssumption |
| ValueStream | SweepStaysFenced, ManifestIsBacked, SnapshotIsWhole, ReceiptsSurvive | ValueAssumption, NoControlAssumption |
| StreamStore | `StoreIsALog`: no hole from the floor to the end, nothing taken back at or above the floor | StoreAssumption |
| StreamsLog | ReceiptsRetained, RetryWindow, ImplementsStreamStore | StreamAssumption, CallsAssumption, NoEventAssumption |
| ConditionalAppend | OneConfiguration, EffectIsTrue, OneEventPerPosition, LandsOnItsPredecessor; keeps to StreamStore | ConditionalAssumption, KindsAssumption, StoreAssumption |
| StreamReads | CompleteIsTrue, MigrationIsTrue, CursorMonotone; keeps to StreamStore | ReadAssumption, NoMarkAssumption, OpsAssumption, StoreAssumption |
| Deletions | FloorIsCurrent, SweepsOnlyExpired, OutcomesAreTrue | DeletionAssumption, ByteOrderAssumption |
| ChunkPipeline | SealedIsWritten, YieldsTheWindow | PipelineAssumption |
| ObjectClient | WholeOrNothing, NothingLeftOpen | ClientAssumption |
| RetryLoop | OutcomeIsTrue | RetryAssumption |

The assumptions say that bounds are numbers, that there is at least one attempt,
one sequence number and the like, and that "no object" (`None`) is no object. One
says more: `ByteOrderAssumption` is what the layout of the key names promises
`Deletions`. Numbers are zero-padded, so certificates sort as their numbers do; they
are under a reserved prefix, so no other key is between two of them; and the key a
walk starts at has number 0 and sorts first in its class. TLC evaluates each
assumption in the runs.

The proofs go the same way everywhere. `TypeInv` adds to the types what a call
knows of its own locals at each of its requests. A second invariant adds what it
knows of the store. For each action one step shows that the invariant is kept for
the client that moved, and one lemma (`Others...`) shows that what the other
clients know survives, because every action keeps to a few rules about the
store (`KeepsValue`, `Growing`, `Store!StoreNext`). The modules of `Requests_proofs` have
one client or calls that share nothing but the store, and need no such lemma. These
inductive invariants were checked with TLC on the runs' instances as well. What each
one adds:

* *StateKernel.* `EraInv` is why the order of requests works. A head's
  incarnation is never ahead of the counter; a call past its recheck with a
  mismatch, and a destroy past its bump, hold an incarnation below the counter, so
  their conditional deletes cannot match a head of the open era (`KeepsOpenHead`);
  a call between its put and its recheck knows that, if its era is still open, its
  record has landed in the head's chain. AckedSurvives alone is not inductive: it
  needs all three to know that an acknowledgement is true when it is given.
  `WitnessInv`: a call past its tombstone request has a tombstone in place.
  `HistoryInv`: a call past its publications has its target's whole chain among
  the objects, and one in the midst of them the part it has done. The refinement
  maps the put and the replace to `Extend`, the acknowledgement to `Promise`, the
  bump to `Close` and all other steps to stuttering.
* *LineageFolds.* `FoldInv`: the head's record ends the chain `log`, which is the
  era's own if the head is of the open era; a record that stood is in its era's log
  for ever (`Logged`); and a walk's records are the end of the chain of the loaded
  head (`Walking`). Two chains with the same last record are the same (`OneChain`);
  hence a head that stood in its era is folded to that era's log, whatever was put
  in the closed era later. An accepted checkpoint is compared with the full fold by
  `CheckCheckpoint` itself; what the proof adds is that the records compared are the
  log's, for any folder. `DerivedNeverBlocks` needs `Intact` too: before any harm
  every record that a writer may put a head on is there, no chain has a hole and
  every head repeats its record.
* *AtomicKeyspace.* `EraInv` is the lineage's argument for incarnations without a
  raw delete (`Clean`, `Landed`). `WinnerInv` is about bytes that come back: in a
  clean incarnation versions only grow, so a token that went out of date has a
  lower version than the key, its ETag matches nothing (`FreshOK`), and no two
  calls that wait for their recheck have published the same version, nor one that was
  acknowledged before, with the same value or another (`UniqueOK`).
  The refinement maps a put or an exchange in the open incarnation to `Write`, an
  acknowledgement to `Promise`, a raw delete to `Void` and the bump to `Close`. That
  evictions and a destroy's delete map to stuttering is `EraInv` again: what they
  match is of a closed incarnation (`ClosedValueGoes`). `RegisterInv` adds that no
  incarnation is voided before it opens.
* *ValueStream.* `ChunkInv`: while a sweep is at work the fence is up and every
  client is where it cannot add or need a chunk (`Calm`), a late release holds
  an older epoch, and a call on its way to the PUT has all its chunks in place.
  ManifestIsBacked is not inductive without it. `EraInv` adds that the commit ids
  of calls under way differ from each other and from the key's unless the commit
  landed, which makes the adjudication of a lost answer right.
* *StreamStore.* `StoreInv` is the types and `Gapless`. `EndIsEnd` turns the end,
  a definition by cases, into the number that the other proofs use.
* *StreamsLog.* `LogInv`: no end, floor or limit that a call read is past the
  present ones, so the number it creates is at most one past the end; that makes each
  create a `Land`, each delete a `Sweep`. `RetryInv`: the hint names an event that
  was there (`Backed`), and every number of the window that a call has scanned
  holds a foreign event or has been passed by the hint (`Foreign`).
* *ConditionalAppend.* `CondInv`: from its last look at it on, a call's predecessor
  is there as it was named or expired (`Matched`); `wrote` and `held` say what the
  call did itself; a retained event is the first of its number (`FirstOK`). What
  a caller is told is a second step (`AnswerInv`), since only answers change it.
* *StreamReads.* `MigrationInv`: the part of the history that a migration has
  been through is in the log. `ReplayInv`: a read that stops has reached the end
  the log had when it began, or what follows is expired (`Witnessed`), because a
  strong GET of an absent number is a witness of the end, whatever LISTs and hints
  lag (`AbsentIsWitness`), and the end never moves back. `CursorInv`: who is about
  to write the cursor saw a lower one, and the event it names is in the log.

* *Deletions.* `DeletionsInv`: while a walk for the floor goes on, the certificate
  that was the floor when it began is still ahead of it, or the walk has met a number
  as high (`FloorAhead`). That holds over a page because a page is the first keys, in
  byte order, past its start, and a short page all of them (`PageIsFirst`), and over the
  end of the walk because no key that ends it sorts before a certificate that is
  ahead. What a sweep has collected is below a bound that a certificate covers
  (`InSweep`); what a batch has confirmed was gone (`InBatch`).
* *ChunkPipeline.* `WriterInv`: the chunks cut so far are those of the source, in
  place, the buffer is the rest, less than a chunk, and every chunk whose upload is no
  longer in flight is in the store unless an error was remembered (`Stored`); that
  is why the order of sealing, draining and the tail matters. `ReaderInv`: a reader
  that is not at the end of its window stands in the chunk of its ordinal at the
  offset it keeps (`Standing`), and the chunks from the first unread one to the last
  one asked for are in flight or ready, each once (`Asking`), unless a fetch was lost
  to an error. So a poll that finds nothing in flight and nothing ready has failed
  before or is at the end. Nothing that a writer does after sealing disturbs it.
* *ObjectClient.* `ClientInv`: the parts that a streamed upload has sent, joined with
  its buffer, are what it has read (`Streaming`); a caller-driven one has each part at
  most once (`Presigned`), so that a complete set of parts in ascending order is
  the content (`PartsInOrder`), and an incomplete one marks its caller (`partial`). An
  open upload of an idle uploader is one of the two histories `abandoned` and
  `unanswered`, and the second kind is empty.
* *RetryLoop.* `RetryInv`: a request under way is the one after the failures counted,
  all of which the predicate accepts, and a wait has a retry left.

Where a proof needs induction over numbers (the end of the log, the chain of a
record, the last key of a page) it takes the least number that would violate the
claim (`LeastNumber`), from the well-foundedness of `<`. Joining chunks and parts is a
fold over a sequence; the proofs use what one more step of the fold adds
(`FlattenAppend`, `PiecesJoined`).

Only model-checked: liveness (`DestroyConverges`), which is out of the prover's
reach, as is ENABLED.

## 6. Where the code and its words differ

**An empty successor batch** (run `KernelHeadDecodes`). `append_successor_batch`
with no records passes validation on top of a head, and the head it writes has no
prior. Above generation 0 no later load accepts that head: reads, appends and
destroy all fail from then on. `append_genesis_batch` refuses an empty batch, as
the last lines of `validate_record_batch` intend.

Met while modelling, without a run of their own; the models do what the code does:

* *A head of a closed era* is read and folded like any other while it is there. A
  create reads counter 0 for genesis `ga`; another one creates `gb` in era 0, which a
  fold returns; a destroy closes the era and deletes the head; then the first create
  puts `ga`, with incarnation 0, and dies. A fold of incarnation 0, generation 0 now
  returns `ga`. No append on that head is acknowledged, but nothing in a fold's answer
  says so: only the counter does, which `load_head` does not read.
* *An accepted checkpoint* (`state_kernel.rs:2049`) is one whose state leads to the
  state of the full fold. A folder that forgets, one that keeps the latest payload
  alone for instance, accepts a checkpoint that was wrong for its own prefix. The fold's
  result is the full fold's in any case.
* *A create whose answer is lost* (`store.rs:1408`, the doc of `upload_stream`: "Aborts
  the multipart upload on any error ... to prevent orphaned parts"): if the create of
  the multipart upload took effect but failed for its caller, there is no id to abort,
  and an empty upload stays open. `initiate_multipart_upload` is alike.
* *Completing with a part of the parts*: `complete_multipart_upload` refuses only an
  empty list, so the object is what the caller listed.
* *A floor that cannot be read* counts as no floor in `advance_cursor` and in the
  check of a cursor (`lib.rs:915`, `lib.rs:1054`): a trimmed target is then
  EventMissing, and a cursor below the floor corrupt, which the comment there
  ("trim-induced absence is never corruption") excludes. `StreamReads` does so too.
* *The tombstone's generation* (`tombstone.rs:26`, "at destroy time"): a destroy
  dies after its tombstone, an append advances the head, a second destroy deletes
  that later head under the first tombstone.
* *Landing below the floor* (`lib.rs:438` of the streams, "a stale writer cannot
  land below it"): a stale append lands in a swept slot and returns a receipt for
  an event that is logically gone. `gc`'s doc foresees the object.
* *A false Corrupt* (`lib.rs:463`, "a GET against a swept seq must not read as
  corruption"): a trim and a sweep during an append's scan. The same race makes
  `read` answer otherwise than the comment at `lib.rs:652` says.
* *trim is not idempotent* (`lib.rs:332`) once the whole stream has been swept:
  the end then reads as 0 and the same trim is refused.
* *The payload window* (`value_manifest.rs:52`, "a 64 MiB payload window"): the
  chunk that is being filled or yielded is held besides the four in flight.
* `recover_tail_hint` saturates its probe, so with an event at `u64::MAX` it would
  ask for that number for ever.
* `destroy`'s conflict comment says the replacing head "is another lifetime's
  head", but a successor of the same lifetime that slipped in before the bump
  conflicts as well. `read_head_state` may answer Destroyed for a lineage that
  was reborn between its two GETs. An ETag read before a raw delete matches again
  after a byte-identical create. `prepare_destroy` has no reserved-key guard, so a
  trim certificate, which is a readable value, can be destroyed.

## 7. Not modelled, and the plan

Not modelled: the contract suites, probes, rigs and tests (they test the code
modelled here); error types, configuration, credentials and HTTP plumbing; the
kernel's diagnostic probe and `chunk_inventory`, which only read and report; the
migration seal, one create-once object; the validation of key names; an empty
stream as the body of an upload.

Modelled, but with no property about it: what `read_range` and `read_event` answer;
how long the retry loop waits, between attempts or for a rate limit; the error a
cursor call or a fold fails with, beyond what `DerivedNeverBlocks` says. Assumed
rather than checked: the quiescence that `sweep_chunks` asks of its caller. A writer
that passed the fence check before the fence went up, and commits during the sweep,
is kept out by `Quiesced`, since nothing in the code keeps it out. `Deletions` has one
sweep at a time; an older sweep beside a newer one is in Streams.

Next: that a false Corrupt (section 6) needs a trim during the scan; an abstract
value for `ValueStream`, a register of snapshots, as `KeyRegister` is one of inline
values; the page-wise reads of `Deletions` under the keyspace walks of `StreamsLog`.
