----------------------------- MODULE StreamReads -----------------------------
(***************************************************************************)
(* What one consumer of a stream does, request by request: replay with its *)
(* completeness witnesses, repair of the tail hint, cursors, strict reads  *)
(* and the migration of an existing log.  Everyone else, writers, trims,   *)
(* sweeps and other consumers, is the environment: the steps of            *)
(* StreamStore, and hints and cursors that others move.                    *)
(*                                                                         *)
(* A LIST may lag and leave out the newest events.  GETs do not lag, and   *)
(* any of them may fail and end the call.  The genesis at number 0 is      *)
(* there, verifies and is never deleted.  Replay and migration neither     *)
(* read nor write cursors, and cursors do not depend on the hint, so a     *)
(* behaviour has one or the other.                                         *)
(***************************************************************************)
EXTENDS StreamStore, Sequences

CONSTANTS
  Genesis,    \* the event at number 0
  Histories,  \* logs to migrate, sequences of events
  Written,    \* the events that others write at each number
  Limits      \* page limits a caller may ask for

ASSUME ReadAssumption ==
  /\ Genesis \notin Events \cup {None}
  /\ Written \in [Seqs -> SUBSET Events]
  /\ Limits \subseteq Nat \ {0}
  /\ \A h \in Histories : h \in Seq(Events) /\ Len(h) \in 1..MaxSeq

\* A tail hint, or a cursor: a number and what the event there must be.
Marks == [seq : 0..MaxSeq, event : Events \cup {Genesis}]

ASSUME NoMarkAssumption == None \notin Marks

VARIABLES
  hint,      \* {stream}/tail
  cursor,    \* {stream}/cursors/{consumer}
  at,        \* the request the consumer is about to send
  op,        \* the call it is in
  after,     \* read, read_range: after_seq
  limit,     \* read: limit; read_range: page_end; advance_cursor: target_seq
  history,   \* migrate_log: the entries
  last,      \* the last number fetched, after when none is; migrate_log: entries done
  stopped,   \* read: the GET of the number after last said absent
  complete,  \* read: the end of the log is witnessed
  fetched,   \* the event last fetched, for a hint or a cursor to name
  saw,       \* the hint or the cursor the call has read
  low,       \* recover_tail_hint: last hit; then the number to advance the hint to
  span,      \* recover_tail_hint: span, then high
  role,      \* "replay" or "cursor": the half of the calls a behaviour makes
  reply,     \* what a call returns in this very step
  began,     \* history: the end of the log when the read began
  migrated   \* history: the histories migrate_log returned a receipt for

consumerVars == <<log, floor, hint, cursor, at, op, after, limit, history, last, stopped,
                  complete, fetched, saw, low, span, reply, began, migrated,
                  role>>

shared == <<log, floor, hint, cursor, migrated, role>>
args  == <<op, after, limit, history, began>>
found == <<last, stopped, complete, fetched>>
repair == <<low, span>>

-----------------------------------------------------------------------------
Lesser(m, n) == IF m <= n THEN m ELSE n

Shown(s) == IF s = 0 THEN Genesis ELSE log[s]

\* verified_tail_hint, once the hint h is read: it counts only if the record it
\* names is there with the digest it names.
Verified(h) == IF h # None /\ Shown(h.seq) = h.event THEN h ELSE None

Requests == {"idle", "rFloor", "rFetch", "rProbe", "cutHint", "cutRecord", "rHint", "rRecord",
             "rSuccessor", "eHint", "eRecord", "vFrom", "vProbe", "vSearch", "vVerify",
             "hGet", "hCheck", "hCas", "sFloor", "sFetch",
             "kTarget", "kGone", "kRead", "kVerify", "kFloor", "kWrite", "mCreate", "mReadback"}

Replies == {"Empty", "Page", "Complete", "OffsetExpired", "BackendUnqualified", "Corrupt",
            "EventMissing", "Cursor", "CursorNotMonotonic", "CursorCorrupt", "Migrated",
            "InvalidArgument", "Unavailable"}

\* The calls; op is None between them, and "migrated" once migrate_log has read back
\* what it wrote.
Ops == {"read", "range", "cursor", "migrate", "migrated"}

ASSUME OpsAssumption == None \notin Ops

ConsumerInit ==
  /\ StoreInit
  /\ hint = None /\ cursor = None
  /\ at = "idle" /\ op = None
  /\ after = 0 /\ limit = 0 /\ last = 0 /\ low = 0 /\ span = 0 /\ began = 0
  /\ history = <<>> /\ stopped = FALSE /\ complete = FALSE
  /\ fetched = None /\ saw = None
  /\ reply = None
  /\ migrated = {}
  /\ role \in {"replay", "cursor"}

\* The call returns and its locals are gone.
Reply(kind) ==
  /\ at' = "idle" /\ op' = None
  /\ after' = 0 /\ limit' = 0 /\ last' = 0 /\ low' = 0 /\ span' = 0 /\ began' = 0
  /\ history' = <<>> /\ stopped' = FALSE /\ complete' = FALSE
  /\ fetched' = None /\ saw' = None
  /\ reply' = [kind |-> kind, last |-> last, began |-> began]

Send(p) == at' = p /\ reply' = None

\* A read ends.  migrate_log's verification takes the page and reads on until it
\* is complete or empty, compares the count, and advances the hint over the log.
ReadAnswer(kind) ==
  \/ op = "read" /\ Reply(kind)
  \/ /\ op = "migrate" /\ kind = "Page"
     /\ after' = last /\ stopped' = FALSE /\ complete' = FALSE
     /\ saw' = None /\ low' = 0 /\ span' = 0
     /\ Send("rFloor")
     /\ UNCHANGED <<op, limit, history, last, fetched, began>>
  \/ /\ op = "migrate" /\ kind # "Page" /\ last # Len(history)
     /\ Reply("BackendUnqualified")
  \/ /\ op = "migrate" /\ kind # "Page" /\ last = Len(history)
     /\ op' = "migrated" /\ low' = last /\ fetched' = history[last]
     /\ saw' = None /\ span' = 0
     /\ Send("hGet")
     /\ UNCHANGED <<after, limit, history, last, stopped, complete, began>>

-----------------------------------------------------------------------------
(* read.                                                                   *)

Read(a, l) ==
  /\ at = "idle" /\ role = "replay"
  /\ op' = "read" /\ after' = a /\ limit' = l /\ last' = a /\ began' = End
  /\ Send("rFloor")
  /\ UNCHANGED <<shared, history, stopped, complete, fetched, saw, repair>>

\* Nothing is past the last number; a walk that starts below the floor is told.
ReadFloor ==
  /\ at = "rFloor"
  /\ \/ after = MaxSeq /\ ReadAnswer("Empty")
     \/ after < MaxSeq /\ after + 1 < floor /\ Reply("OffsetExpired")
     \/ /\ after < MaxSeq /\ after + 1 >= floor
        /\ Send("rFetch")
        /\ UNCHANGED <<args, found, saw, repair>>
  /\ UNCHANGED shared

\* The GETs go out in chunks and are used in order up to the first absent one, so
\* whatever order their answers come in, they say what GETs in order would say.
ReadFetch ==
  /\ at = "rFetch"
  /\ \/ /\ Shown(last + 1) # None
        /\ last' = last + 1 /\ fetched' = Shown(last + 1)
        /\ Send(IF last + 1 - after < limit /\ last + 1 < MaxSeq THEN "rFetch" ELSE "rProbe")
        /\ UNCHANGED stopped
     \/ /\ Shown(last + 1) = None
        /\ stopped' = TRUE
        /\ Send("rProbe")
        /\ UNCHANGED <<last, fetched>>
  /\ UNCHANGED <<shared, args, complete, saw, repair>>

\* The ordered LIST probe past the page.  A LIST that lags names nothing.
ReadProbe ==
  LET suffix == {s \in Landed : s > last}
      next   == CHOOSE s \in suffix : \A t \in suffix : s <= t
  IN /\ at = "rProbe"
     /\ \/ /\ suffix # {} /\ stopped
           /\ Reply(IF next = last + 1 THEN "BackendUnqualified" ELSE "Corrupt")
        \/ /\ Send("rHint") \/ (suffix # {} /\ ~ stopped /\ Send("cutHint"))
           /\ UNCHANGED <<args, found, saw, repair>>
     /\ UNCHANGED shared

\* verified_tail_hint is two GETs: here for a cut page, for the end, for the heal.
\* A GET that fails makes the hint no witness.
HintRead ==
  \E p \in {<<"cutHint", "cutRecord">>, <<"rHint", "rRecord">>, <<"eHint", "eRecord">>} :
    /\ at = p[1]
    /\ saw' \in {hint, None}
    /\ Send(p[2])
    /\ UNCHANGED <<shared, args, found, repair>>

\* recover_tail_hint(last) begins.
Recover ==
  /\ saw' = None
  /\ Send("vFrom")
  /\ UNCHANGED <<args, found, repair>>

\* A page that the limit cut is never complete; without a hint one is recovered.
CutRecord ==
  /\ at = "cutRecord"
  /\ \/ Verified(saw) = None /\ Recover
     \/ Verified(saw) # None /\ ReadAnswer("Page")
  /\ UNCHANGED shared

\* Mutant: a hint at the end is witness enough for a page that the limit cut.
EndRecordTrusting ==
  LET witness == Verified(saw)
  IN /\ at = "rRecord"
     /\ \/ witness # None /\ witness.seq > last /\ Reply("BackendUnqualified")
        \/ /\ witness # None /\ witness.seq = last
           /\ complete' = TRUE /\ saw' = None
           /\ Send("eHint")
           /\ UNCHANGED <<args, last, stopped, fetched, repair>>
        \/ (witness # None => witness.seq < last) /\ Recover
     /\ UNCHANGED shared

\* The LIST named nothing past the page: a verified hint above its end proves the
\* LIST stale, one at its end is a witness, one below it, or none, is repaired.
\* A page that did not stop at an absent number asks for its successor too.
EndRecord ==
  LET witness == Verified(saw)
      ended   == stopped \/ last = MaxSeq
  IN /\ at = "rRecord"
     /\ \/ witness # None /\ witness.seq > last /\ Reply("BackendUnqualified")
        \/ /\ witness # None /\ witness.seq = last
           /\ saw' = None
           /\ complete' = ended
           /\ Send(IF ended THEN "eHint" ELSE "rSuccessor")
           /\ UNCHANGED <<args, last, stopped, fetched, repair>>
        \/ (witness # None => witness.seq < last) /\ Recover
     /\ UNCHANGED shared

\* The terminal successor, by GET.
ReadSuccessor ==
  /\ at = "rSuccessor"
  /\ \/ Shown(last + 1) # None /\ Reply("BackendUnqualified")
     \/ /\ Shown(last + 1) = None
        /\ complete' = TRUE
        /\ Send("eHint")
        /\ UNCHANGED <<args, last, stopped, fetched, saw, repair>>
  /\ UNCHANGED shared

\* heal_tail_hint, after its own reading of the hint: it advances over what this
\* read validated if the prefix below it is validated too.
HealRecord ==
  LET witness == Verified(saw)
      trusted == after = 0 \/ (witness # None /\ witness.seq >= after)
      behind  == witness # None => witness.seq < last
      heals   == last > after /\ trusted /\ behind
  IN /\ at = "eRecord"
     /\ \/ /\ heals
           /\ low' = last /\ saw' = None
           /\ Send("hGet")
           /\ UNCHANGED <<args, found, span>>
        \/ ~ heals /\ ReadAnswer(IF last = after THEN "Empty" ELSE "Complete")
     /\ UNCHANGED shared

-----------------------------------------------------------------------------
(* recover_tail_hint and advance_tail_hint.                                *)

\* The maintenance of the hint is over, with or without effect.
HintDone ==
  \/ /\ op # "migrated"
     /\ ReadAnswer(IF last = after THEN "Empty" ELSE IF complete THEN "Complete" ELSE "Page")
     /\ UNCHANGED <<migrated, role>>
  \/ /\ op = "migrated"
     /\ Reply("Migrated")
     /\ migrated' = migrated \cup {history} /\ UNCHANGED role

Kept == UNCHANGED <<log, floor, hint, cursor>>

RecoverFrom ==
  /\ at = "vFrom"
  /\ \/ Shown(last) = None /\ HintDone /\ Kept
     \/ /\ Shown(last) # None
        /\ low' = last /\ span' = 1
        /\ Send("vProbe")
        /\ UNCHANGED <<shared, args, found, saw>>

\* Where the search goes on once its bounds are l and h.
Bisect(l, h) ==
  /\ low' = l /\ span' = h
  /\ Send(IF h - l > 1 THEN "vSearch" ELSE "vVerify")

\* The exponential probe: it goes on while it hits, and doubles.
RecoverProbe ==
  LET probe == Lesser(last + span, MaxSeq)
  IN /\ at = "vProbe"
     /\ \/ probe = last /\ Bisect(low, probe)
        \/ /\ probe # last /\ Shown(probe) # None
           /\ low' = probe /\ span' = Lesser(2 * span, MaxSeq)
           /\ Send("vProbe")
        \/ probe # last /\ Shown(probe) = None /\ Bisect(low, probe)
     /\ UNCHANGED <<shared, args, found, saw>>

\* The binary search between the last hit and the first miss.
RecoverSearch ==
  LET mid == low + (span - low) \div 2
  IN /\ at = "vSearch"
     /\ IF Shown(mid) # None THEN Bisect(mid, span) ELSE Bisect(low, mid)
     /\ UNCHANGED <<shared, args, found, saw>>

\* The terminal envelope is read and verified before the hint is advanced to it.
RecoverVerify ==
  /\ at = "vVerify"
  /\ \/ Shown(low) = None /\ HintDone /\ Kept
     \/ /\ Shown(low) # None
        /\ fetched' = Shown(low) /\ span' = 0
        /\ Send("hGet")
        /\ UNCHANGED <<shared, args, last, stopped, complete, saw, low>>

Desired == [seq |-> low, event |-> fetched]

\* A hint that is behind gives way at once, or one with another digest at the
\* same number; one that is ahead has its record read first.
HintGet ==
  /\ at = "hGet"
  /\ \/ hint = Desired /\ HintDone /\ Kept
     \/ /\ hint # Desired
        /\ saw' = hint
        /\ Send(IF hint # None /\ hint.seq > low THEN "hCheck" ELSE "hCas")
        /\ UNCHANGED <<shared, args, found, repair>>

\* A hint that is ahead gives way if its record is gone or is another event.
HintCheck ==
  /\ at = "hCheck"
  /\ \/ /\ Verified(saw) = None
        /\ Send("hCas")
        /\ UNCHANGED <<shared, args, found, saw, repair>>
     \/ Verified(saw) # None /\ HintDone /\ Kept

\* create or compare_exchange of the hint.  A request that fails is forgiven.
HintCas ==
  /\ at = "hCas"
  /\ hint' \in {hint} \cup {Desired : h \in {saw} \cap {hint}}
  /\ HintDone
  /\ UNCHANGED <<log, floor, cursor>>

-----------------------------------------------------------------------------
(* read_event and read_range: the floor, then exactly the numbers asked for. *)

ReadRange(a, through, l) ==
  /\ at = "idle" /\ role = "replay" /\ a < through
  /\ op' = "range" /\ after' = a /\ last' = a
  /\ limit' = Lesser(through, a + l)
  /\ Send("sFloor")
  /\ UNCHANGED <<shared, history, began, stopped, complete, fetched, saw, repair>>

StrictFloor ==
  /\ at = "sFloor"
  /\ \/ after + 1 < floor /\ Reply("OffsetExpired")
     \/ after + 1 >= floor /\ Send("sFetch") /\ UNCHANGED <<args, found, saw, repair>>
  /\ UNCHANGED shared

\* An absent number fails the page; the page is the whole window or nothing.
StrictFetch ==
  /\ at = "sFetch"
  /\ \/ last = limit /\ Reply("Page")
     \/ last < limit /\ Shown(last + 1) = None /\ Reply("EventMissing")
     \/ /\ last < limit /\ Shown(last + 1) # None
        /\ last' = last + 1
        /\ Send("sFetch")
        /\ UNCHANGED <<args, stopped, complete, fetched, saw, repair>>
  /\ UNCHANGED shared

-----------------------------------------------------------------------------
(* Cursors.                                                                *)

\* advance_cursor to target, or read_cursor, for which limit is 0.
AdvanceCursor(target) ==
  /\ at = "idle" /\ role = "cursor"
  /\ op' = "cursor" /\ limit' = target
  /\ Send("kTarget")
  /\ UNCHANGED <<shared, after, history, began, found, saw, repair>>

ReadCursor ==
  /\ at = "idle" /\ role = "cursor"
  /\ op' = "cursor"
  /\ Send("kRead")
  /\ UNCHANGED <<shared, after, limit, history, began, found, saw, repair>>

\* The target must be there.
CursorTarget ==
  /\ at = "kTarget"
  /\ fetched' = Shown(limit)
  /\ Send(IF Shown(limit) = None THEN "kGone" ELSE "kRead")
  /\ UNCHANGED <<shared, args, last, stopped, complete, saw, repair>>

\* The target is absent: trimmed, or missing.  A floor that cannot be read counts
\* as no floor.
CursorGone ==
  /\ at = "kGone"
  /\ \/ limit < floor /\ Reply("OffsetExpired")
     \/ Reply("EventMissing")
  /\ UNCHANGED shared

CursorRead ==
  /\ at = "kRead"
  /\ \/ cursor = None /\ limit = 0 /\ Reply("Empty")
     \/ /\ cursor # None \/ limit # 0
        /\ saw' = cursor
        /\ Send(IF cursor = None THEN "kWrite" ELSE "kVerify")
        /\ UNCHANGED <<args, found, repair>>
  /\ UNCHANGED shared

\* Mutant: the cursor moves to wherever it is sent.
CursorPlaceAnywhere ==
  \/ limit = 0 /\ Reply("Cursor")
  \/ limit # 0 /\ Send("kWrite") /\ UNCHANGED <<args, found, saw, repair>>

\* The cursor's place is known: it is the answer, or it only moves forward.
CursorPlace ==
  \/ limit = 0 /\ Reply("Cursor")
  \/ limit # 0 /\ saw.seq > limit /\ Reply("CursorNotMonotonic")
  \/ limit # 0 /\ saw.seq = limit /\ Reply("Cursor")
  \/ saw.seq < limit /\ Send("kWrite") /\ UNCHANGED <<args, found, saw, repair>>

\* decode_and_verify_cursor: the record the cursor names is read.
CursorVerify ==
  /\ at = "kVerify"
  /\ \/ Shown(saw.seq) = saw.event /\ CursorPlace
     \/ Shown(saw.seq) \notin {saw.event, None} /\ Reply("CursorCorrupt")
     \/ Shown(saw.seq) = None /\ Send("kFloor") /\ UNCHANGED <<args, found, saw, repair>>
  /\ UNCHANGED shared

\* Below the floor the place still counts for an advance, and only for one.  A
\* floor that cannot be read counts as no floor, here too.
CursorFloor ==
  /\ at = "kFloor"
  /\ \/ Reply("CursorCorrupt")
     \/ saw.seq < floor /\ limit = 0 /\ Reply("OffsetExpired")
     \/ saw.seq < floor /\ limit # 0 /\ CursorPlace
  /\ UNCHANGED shared

\* create or compare_exchange: refused, it starts over; its answer may be lost
\* whether or not it took effect.
CursorWrite ==
  LET desired == [seq |-> limit, event |-> fetched]
  IN /\ at = "kWrite"
     /\ \/ /\ cursor # saw
           /\ saw' = None
           /\ Send("kRead")
           /\ UNCHANGED <<cursor, args, found, repair>>
        \/ cursor = saw /\ cursor' = desired /\ Reply("Cursor")
        \/ /\ cursor' \in {cursor} \cup {desired : c \in {saw} \cap {cursor}}
           /\ Reply("Unavailable")
     /\ UNCHANGED <<log, floor, hint, migrated, role>>

-----------------------------------------------------------------------------
(* migrate_log.                                                            *)

MigrateLog(h) ==
  /\ at = "idle" /\ role = "replay"
  /\ op' = "migrate" /\ history' = h /\ limit' = MaxSeq
  /\ Send("mCreate")
  /\ UNCHANGED <<shared, after, began, found, saw, repair>>

\* One entry is at its number, its own create's doing or not; then the next, or
\* the verification through read, from the start.
Entered ==
  LET done == last + 1 = Len(history)
  IN /\ last' = IF done THEN 0 ELSE last + 1
     /\ began' = IF done THEN End ELSE 0
     /\ Send(IF done THEN "rFloor" ELSE "mCreate")
     /\ UNCHANGED <<op, after, limit, history, stopped, complete, fetched, saw, repair>>

\* A conditional create at the entry's own number; lost answers end the call.
MigrateCreate ==
  LET s == last + 1
  IN /\ at = "mCreate"
     /\ \/ /\ log[s] = None
           /\ log' = [log EXCEPT ![s] = history[s]]
           /\ Entered \/ Reply("Unavailable")
        \/ /\ log[s] # None
           /\ Send("mReadback")
           /\ UNCHANGED <<log, args, found, saw, repair>>
     /\ UNCHANGED <<floor, hint, cursor, migrated, role>>

\* Mutant: a number that is taken counts as done.
MigrateReadbackSkipped == at = "mReadback" /\ Entered /\ UNCHANGED shared

\* A number that was taken must hold the very same bytes.
MigrateReadback ==
  /\ at = "mReadback"
  /\ \/ log[last + 1] = history[last + 1] /\ Entered
     \/ log[last + 1] = None /\ Reply("BackendUnqualified")
     \/ log[last + 1] \notin {history[last + 1], None} /\ Reply("InvalidArgument")
  /\ UNCHANGED shared

-----------------------------------------------------------------------------
Outside == UNCHANGED <<at, args, found, saw, repair, migrated, role>> /\ reply' = None

\* Writers, trims and sweeps.
LogElsewhere ==
  /\ \E s \in Seqs : Certify(s) \/ Sweep(s) \/ \E e \in Written[s] : Land(s, e)
  /\ Outside
  /\ UNCHANGED <<hint, cursor>>

\* Someone else's advance_tail_hint, over an event that is there.
HintElsewhere(s) ==
  /\ role = "replay"
  /\ log[s] # None
  /\ Verified(hint) # None => hint.seq < s
  /\ hint' = [seq |-> s, event |-> log[s]]
  /\ Outside /\ UNCHANGED <<log, floor, cursor>>

\* Another process of the same consumer advances the cursor.
CursorElsewhere(s) ==
  /\ role = "cursor"
  /\ log[s] # None
  /\ cursor # None => cursor.seq < s
  /\ cursor' = [seq |-> s, event |-> log[s]]
  /\ Outside /\ UNCHANGED <<log, floor, hint>>

\* A request fails where a failure ends the call, or the consumer dies.
Interrupt ==
  /\ at # "idle"
  /\ Reply("Unavailable")
  /\ UNCHANGED shared

ConsumerNext ==
  \/ \E a \in 0..MaxSeq, l \in Limits : Read(a, l)
  \/ ReadFloor \/ ReadFetch \/ ReadProbe \/ HintRead \/ CutRecord \/ EndRecord
  \/ ReadSuccessor \/ HealRecord
  \/ RecoverFrom \/ RecoverProbe \/ RecoverSearch \/ RecoverVerify
  \/ HintGet \/ HintCheck \/ HintCas
  \/ \E a, t \in 0..MaxSeq, l \in Limits : ReadRange(a, t, l)
  \/ StrictFloor \/ StrictFetch
  \/ \E s \in Seqs : AdvanceCursor(s)
  \/ ReadCursor \/ CursorTarget \/ CursorGone \/ CursorRead \/ CursorVerify \/ CursorFloor
  \/ CursorWrite
  \/ \E h \in Histories : MigrateLog(h)
  \/ MigrateCreate \/ MigrateReadback
  \/ LogElsewhere \/ Interrupt
  \/ \E s \in Seqs : HintElsewhere(s) \/ CursorElsewhere(s)

ConsumerSpec == ConsumerInit /\ [][ConsumerNext]_consumerVars

-----------------------------------------------------------------------------
ConsumerTypeOK ==
  /\ log \in [Seqs -> Events \cup {None}] /\ floor \in 0..MaxSeq
  /\ hint \in Marks \cup {None} /\ cursor \in Marks \cup {None} /\ saw \in Marks \cup {None}
  /\ at \in Requests /\ op \in Ops \cup {None}
  /\ {after, last, low, span, began} \subseteq 0..MaxSeq /\ limit \in Nat
  /\ history \in Histories \cup {<<>>} /\ migrated \subseteq Histories
  /\ stopped \in BOOLEAN /\ complete \in BOOLEAN
  /\ fetched \in Events \cup {Genesis, None}
  /\ reply = None \/ reply.kind \in Replies

\* A replay that says it is complete has every event that was in the log when it
\* was called, although the LIST it probes with may lag and the hint it reads may
\* be behind; unless a trim has meanwhile expired what follows it.
CompleteIsTrue ==
  reply # None /\ reply.kind = "Complete" =>
    reply.last >= reply.began \/ reply.last + 1 < floor

\* A cursor only moves forward, and never past the end of the log, also when its
\* writes race, lose their answers, or stand below a trim.
CursorMonotone ==
  [][cursor' # cursor =>
       /\ cursor # None => cursor'.seq > cursor.seq
       /\ cursor'.seq <= End']_consumerVars

\* A history with a receipt is in the log, entry by entry at its number, except
\* for what was trimmed later; two migrations that disagree never both succeed.
MigrationIsTrue ==
  \A h \in migrated : \A s \in 1..Len(h) : s < floor \/ log[s] = h[s]
=============================================================================
