------------------------------ MODULE StreamsLog ------------------------------
(***************************************************************************)
(* One stream: a log of immutable event objects, one per sequence number,  *)
(* a tail hint, and trim certificates.  Writers allocate a sequence number *)
(* by a conditional create at a guess; retention certifies a floor and a   *)
(* sweeper deletes what lies below it.  Clients share only the store; one  *)
(* request is one step.                                                    *)
(*                                                                         *)
(* The genesis object (sequence number 0) is written by create_stream and  *)
(* nothing deletes it: its reads are folded into the step that follows.    *)
(* No operation of a stream destroys a log key, so the keyspace keeps      *)
(* every log key in incarnation 0 and its create is one put-if-absent.     *)
(* LISTs show the store as it is when they are answered; a LIST that lags  *)
(* is one answered earlier.                                                *)
(***************************************************************************)
EXTENDS Integers

CONSTANTS
  Clients,   \* processes that use the stream
  Ids,       \* stable event ids
  Payloads,  \* schema and payload of an event
  Sends,     \* the events each client appends, any number of times
  Keepers,   \* the clients that also keep the stream: trim and gc
  MaxSeq,    \* the largest sequence number, u64::MAX in the code
  Window,    \* IDEMPOTENT_SCAN_WINDOW, 16 in the code
  Budget,    \* APPEND_BUDGET, 64 in the code
  None       \* no object, no value

ASSUME StreamAssumption ==
  /\ MaxSeq \in Nat \ {0}
  /\ Window \in Nat
  /\ Budget \in Nat

Seqs == 1..MaxSeq
Events == [id : Ids, payload : Payloads]
Hints == [seq : Seqs, event : Events]

ASSUME CallsAssumption ==
  /\ Sends \in [Clients -> SUBSET Events]
  /\ Keepers \subseteq Clients

ASSUME NoEventAssumption == None \notin Events \cup Hints

VARIABLES
  log,       \* {stream}/log/: the event at each sequence number, or None
  hint,      \* the tail hint: a sequence number and the digest of its event
  floor,     \* the largest trim certificate; 0 when there is none
  pc,        \* the request a client is about to send
  event,     \* the event a client's append is to land
  listMax,   \* append: list_max, then event_max; trim: the proposed floor
  hintSeq,   \* the verified hint a call has read; 0 when there was none
  guess,     \* append: the sequence number to scan or to create next
  limit,     \* append: the last number to scan; then the floor of the create
  conflicts, \* append: creates that found another event
  sweep,     \* gc: the sequence numbers still to delete
  old,       \* advance_tail_hint: the hint it is to replace
  receipts   \* history: the receipts returned for events at or above the floor

store  == <<log, hint, floor>>
locals == <<pc, event, listMax, hintSeq, guess, limit, conflicts, sweep, old>>
vars   == <<log, hint, floor, pc, event, listMax, hintSeq, guess, limit,
            conflicts, sweep, old, receipts>>

-----------------------------------------------------------------------------
Larger(m, n) == IF m >= n THEN m ELSE n

Landed == {s \in Seqs : log[s] # None}

\* The largest number of a LIST of the log that starts after seed.
ListMax(seed) ==
  IF \E s \in Landed : s > seed
  THEN CHOOSE s \in Landed : \A t \in Landed : t <= s
  ELSE seed

\* verified_tail_hint, once the hint h is read: it counts only if the record it
\* names is there with the digest it names.
Verified(h) == IF h # None /\ log[h.seq] = h.event THEN h.seq ELSE 0

\* What verified_tail_hint may go on with: the hint, or none when one of its two
\* GETs fails, which it forgives.
HintRead == {hint, None}

PCs == {"idle", "lSeed", "lList", "lHint", "aHint", "aFloor", "aScan", "aCreate",
        "aReadback", "hGet", "hCheck", "hCas", "tHint", "tFloor", "tCertify",
        "gList", "gDelete"}

Init ==
  /\ log = [s \in Seqs |-> None]
  /\ hint = None
  /\ floor = 0
  /\ pc = [c \in Clients |-> "idle"]
  /\ event = [c \in Clients |-> None]
  /\ listMax = [c \in Clients |-> 0]
  /\ hintSeq = [c \in Clients |-> 0]
  /\ guess = [c \in Clients |-> 0]
  /\ limit = [c \in Clients |-> 0]
  /\ conflicts = [c \in Clients |-> 0]
  /\ sweep = [c \in Clients |-> {}]
  /\ old = [c \in Clients |-> None]
  /\ receipts = {}

Goto(c, p) == pc' = [pc EXCEPT ![c] = p]

\* The call returns to its caller and its locals are gone.
Return(c) ==
  /\ pc' = [pc EXCEPT ![c] = "idle"]
  /\ event' = [event EXCEPT ![c] = None]
  /\ listMax' = [listMax EXCEPT ![c] = 0]
  /\ hintSeq' = [hintSeq EXCEPT ![c] = 0]
  /\ guess' = [guess EXCEPT ![c] = 0]
  /\ limit' = [limit EXCEPT ![c] = 0]
  /\ conflicts' = [conflicts EXCEPT ![c] = 0]
  /\ sweep' = [sweep EXCEPT ![c] = {}]
  /\ old' = [old EXCEPT ![c] = None]

-----------------------------------------------------------------------------
(* How append and trim find the end of the log: list_log_max, whose LIST   *)
(* is seeded by the verified hint, and then the verified hint itself.  A   *)
(* hint and the record it names are two GETs.                              *)

\* append, with its genesis check and the GET of the seed's hint.
Append(c, e) ==
  /\ pc[c] = "idle"
  /\ Goto(c, "lSeed")
  /\ event' = [event EXCEPT ![c] = e]
  /\ \E h \in HintRead : old' = [old EXCEPT ![c] = h]
  /\ UNCHANGED <<store, listMax, hintSeq, guess, limit, conflicts, sweep, receipts>>

\* trim at first_retained = f, likewise.
Trim(c, f) ==
  /\ pc[c] = "idle"
  /\ Goto(c, "lSeed")
  /\ limit' = [limit EXCEPT ![c] = f]
  /\ \E h \in HintRead : old' = [old EXCEPT ![c] = h]
  /\ UNCHANGED <<store, event, listMax, hintSeq, guess, conflicts, sweep, receipts>>

LogMaxSeed(c) ==
  /\ pc[c] = "lSeed"
  /\ Goto(c, "lList")
  /\ listMax' = [listMax EXCEPT ![c] = Larger(Verified(old[c]) - Window, 0)]
  /\ old' = [old EXCEPT ![c] = None]
  /\ UNCHANGED <<store, event, hintSeq, guess, limit, conflicts, sweep, receipts>>

LogMaxList(c) ==
  /\ pc[c] = "lList"
  /\ Goto(c, "lHint")
  /\ listMax' = [listMax EXCEPT ![c] = ListMax(@)]
  /\ UNCHANGED <<store, event, hintSeq, guess, limit, conflicts, sweep, old, receipts>>

ReadTailHint(c) ==
  /\ pc[c] = "lHint"
  /\ Goto(c, IF event[c] # None THEN "aHint" ELSE "tHint")
  /\ \E h \in HintRead : old' = [old EXCEPT ![c] = h]
  /\ UNCHANGED <<store, event, listMax, hintSeq, guess, limit, conflicts, sweep,
                 receipts>>

-----------------------------------------------------------------------------
(* append.                                                                 *)

AppendHint(c) ==
  /\ pc[c] = "aHint"
  /\ Goto(c, "aFloor")
  /\ hintSeq' = [hintSeq EXCEPT ![c] = Verified(old[c])]
  /\ old' = [old EXCEPT ![c] = None]
  /\ UNCHANGED <<store, event, listMax, guess, limit, conflicts, sweep, receipts>>

\* Mutant: the scan begins after the hint's own number.
ScanFromAfterHint(c) ==
  Larger(Larger(hintSeq[c] + 1, listMax[c] - Window), Larger(1, floor))

\* Where the scan for an earlier landing begins.
ScanFrom(c) ==
  Larger(Larger(hintSeq[c], listMax[c] - Window), Larger(1, floor))

\* Mutant: the floor is taken for an event that landed.
FirstGuessPastFloor(eventMax, trim) == Larger(eventMax, trim) + 1

\* The first number to try: one past the known events, clamped to the floor.
FirstGuess(eventMax, trim) == Larger(eventMax + 1, trim)

\* The create loop begins.
StartCreate(c, eventMax, trim) ==
  /\ Goto(c, "aCreate")
  /\ guess' = [guess EXCEPT ![c] = FirstGuess(eventMax, trim)]
  /\ listMax' = [listMax EXCEPT ![c] = 0]
  /\ limit' = [limit EXCEPT ![c] = 0]

\* The trim floor, and what follows from it: the scan's bounds, or the first
\* guess when there is nothing to scan.
AppendFloor(c) ==
  LET eventMax == Larger(listMax[c], hintSeq[c])
  IN /\ pc[c] = "aFloor"
     /\ \/ /\ eventMax < MaxSeq
           /\ \/ /\ ScanFrom(c) <= eventMax
                 /\ Goto(c, "aScan")
                 /\ guess' = [guess EXCEPT ![c] = ScanFrom(c)]
                 /\ listMax' = [listMax EXCEPT ![c] = eventMax]
                 /\ limit' = [limit EXCEPT ![c] = floor]
              \/ ScanFrom(c) > eventMax /\ StartCreate(c, eventMax, floor)
           /\ hintSeq' = [hintSeq EXCEPT ![c] = 0]
           /\ UNCHANGED <<event, conflicts, sweep, old>>
        \/ eventMax = MaxSeq /\ Return(c)          \* SeqExhausted
     /\ UNCHANGED <<store, receipts>>

\* The event at guess[c] is this append's own: the hint is advanced and the
\* caller gets its receipt.
FoundOwn(c) ==
  /\ Goto(c, "hGet")
  /\ listMax' = [listMax EXCEPT ![c] = 0]
  /\ limit' = [limit EXCEPT ![c] = 0]
  /\ conflicts' = [conflicts EXCEPT ![c] = 0]
  /\ UNCHANGED <<event, hintSeq, guess, sweep, old>>

\* One GET of the idempotent scan.
AppendScan(c) ==
  LET found == log[guess[c]]
  IN /\ pc[c] = "aScan"
     /\ \/ found = event[c] /\ FoundOwn(c)
        \/ /\ \/ found = None                       \* Corrupt
              \/ found # None /\ found # event[c] /\ found.id = event[c].id
           /\ Return(c)                             \* IdempotencyConflict
        \/ /\ found # None /\ found.id # event[c].id
           /\ \/ /\ guess[c] < listMax[c]
                 /\ guess' = [guess EXCEPT ![c] = @ + 1]
                 /\ UNCHANGED <<pc, listMax, limit>>
              \/ guess[c] = listMax[c] /\ StartCreate(c, listMax[c], limit[c])
           /\ UNCHANGED <<event, hintSeq, conflicts, sweep, old>>
     /\ UNCHANGED <<store, receipts>>

\* Mutant: the create overwrites what is there.
AppendCreateOverwrites(c) ==
  /\ pc[c] = "aCreate"
  /\ log' = [log EXCEPT ![guess[c]] = event[c]]
  /\ FoundOwn(c)
  /\ UNCHANGED <<hint, floor, receipts>>

\* The conditional create: the allocation itself.  The SDK resends a create
\* whose answer was lost, and the resent one finds the key taken.
AppendCreate(c) ==
  /\ pc[c] = "aCreate"
  /\ \/ /\ log[guess[c]] = None
        /\ log' = [log EXCEPT ![guess[c]] = event[c]]
        /\ \/ FoundOwn(c)
           \/ /\ Goto(c, "aReadback")
              /\ UNCHANGED <<event, listMax, hintSeq, guess, limit, conflicts,
                             sweep, old>>
     \/ /\ log[guess[c]] # None
        /\ Goto(c, "aReadback")
        /\ UNCHANGED <<log, event, listMax, hintSeq, guess, limit, conflicts,
                       sweep, old>>
  /\ UNCHANGED <<hint, floor, receipts>>

\* The readback after a create conflict.
AppendReadback(c) ==
  LET found == log[guess[c]]
  IN /\ pc[c] = "aReadback"
     /\ \/ found = event[c] /\ FoundOwn(c)
        \/ /\ \/ found = None                       \* BackendUnqualified
              \/ found # None /\ found # event[c] /\ found.id = event[c].id
              \/ conflicts[c] = Budget              \* AppendBudgetExhausted
              \/ guess[c] = MaxSeq                  \* SeqExhausted
           /\ found # event[c]
           /\ Return(c)
        \/ /\ found # None /\ found.id # event[c].id
           /\ conflicts[c] < Budget /\ guess[c] < MaxSeq
           /\ conflicts' = [conflicts EXCEPT ![c] = @ + 1]
           /\ guess' = [guess EXCEPT ![c] = @ + 1]
           /\ Goto(c, "aCreate")
           /\ UNCHANGED <<event, listMax, hintSeq, limit, sweep, old>>
     /\ UNCHANGED <<store, receipts>>

-----------------------------------------------------------------------------
(* advance_tail_hint, the best-effort end of an append.                    *)

Desired(c) == [seq |-> guess[c], event |-> event[c]]

\* The append is over: Ok(AppendReceipt).
Receipt(c) ==
  /\ receipts' = IF guess[c] >= floor THEN receipts \cup {Desired(c)} ELSE receipts
  /\ Return(c)

\* The hint gives way at once if it is behind, or names another event at the
\* same number; one that is ahead has its record read first.
HintGet(c) ==
  LET behind == \/ hint = None
                \/ hint # None /\ hint.seq < guess[c]
                \/ hint # None /\ hint.seq = guess[c] /\ hint.event # event[c]
  IN /\ pc[c] = "hGet"
     /\ \/ /\ hint # Desired(c)
           /\ old' = [old EXCEPT ![c] = hint]
           /\ Goto(c, IF behind THEN "hCas" ELSE "hCheck")
           /\ UNCHANGED <<event, listMax, hintSeq, guess, limit, conflicts, sweep,
                          receipts>>
        \/ hint = Desired(c) /\ Receipt(c)
     /\ UNCHANGED store

\* A hint that is ahead gives way if its record is gone or is another event.
HintCheck(c) ==
  /\ pc[c] = "hCheck"
  /\ \/ /\ Verified(old[c]) = 0
        /\ Goto(c, "hCas")
        /\ UNCHANGED <<event, listMax, hintSeq, guess, limit, conflicts, sweep, old,
                       receipts>>
     \/ Verified(old[c]) # 0 /\ Receipt(c)
  /\ UNCHANGED store

\* create or compare_exchange of the hint.  A request that fails is forgiven.
\* The version of the hint's value is left out: two hints with the same content
\* count as one, which allows more exchanges than the code does.
HintCas(c) ==
  /\ pc[c] = "hCas"
  /\ hint' \in IF hint = old[c] THEN {Desired(c), hint} ELSE {hint}
  /\ Receipt(c)
  /\ UNCHANGED <<log, floor>>

-----------------------------------------------------------------------------
(* trim: certify a floor no higher than one past the observable end.       *)

\* A floor that names a number past the end is InvalidArgument.  end + 1 does not
\* fit a u64 when end is the last number: no floor is accepted then.
TrimEnd(c) ==
  LET end == Larger(listMax[c], Verified(old[c]))
      accepted == end < MaxSeq /\ limit[c] <= end + 1
  IN /\ pc[c] = "tHint"
     /\ \/ /\ accepted
           /\ Goto(c, "tFloor")
           /\ listMax' = [listMax EXCEPT ![c] = 0]
           /\ old' = [old EXCEPT ![c] = None]
           /\ UNCHANGED <<event, hintSeq, guess, limit, conflicts, sweep>>
        \/ ~ accepted /\ Return(c)
     /\ UNCHANGED <<store, receipts>>

\* propose_trim: a lower floor is TrimNotMonotone, an equal one is Ok at once.
ProposeTrim(c) ==
  /\ pc[c] = "tFloor"
  /\ \/ /\ limit[c] > floor
        /\ Goto(c, "tCertify")
        /\ UNCHANGED <<event, listMax, hintSeq, guess, limit, conflicts, sweep, old>>
     \/ limit[c] <= floor /\ Return(c)
  /\ UNCHANGED <<store, receipts>>

\* The certificate is an object of its own; the floor is the largest one.
CertifyTrim(c) ==
  /\ pc[c] = "tCertify"
  /\ floor' = Larger(floor, limit[c])
  /\ receipts' = {r \in receipts : r.seq >= limit[c]}
  /\ Return(c)
  /\ UNCHANGED <<log, hint>>

-----------------------------------------------------------------------------
(* gc: read the floor, collect what a LIST shows below it, delete one by   *)
(* one.                                                                    *)

\* trim_floor; without a certificate gc is a no-op.
Gc(c) ==
  /\ pc[c] = "idle"
  /\ floor > 0
  /\ Goto(c, "gList")
  /\ limit' = [limit EXCEPT ![c] = floor]
  /\ UNCHANGED <<store, event, listMax, hintSeq, guess, conflicts, sweep, old, receipts>>

\* delete_below: the certificate covers the bound (certificates only grow), and
\* the walk collects the keys below it; an empty sweep ends the call.
DeleteBelow(c) ==
  LET below == {s \in Landed : s < limit[c]}
  IN /\ pc[c] = "gList"
     /\ \/ /\ below # {}
           /\ sweep' = [sweep EXCEPT ![c] = below]
           /\ Goto(c, "gDelete")
           /\ limit' = [limit EXCEPT ![c] = 0]
           /\ UNCHANGED <<event, listMax, hintSeq, guess, conflicts, old>>
        \/ below = {} /\ Return(c)
     /\ UNCHANGED <<store, receipts>>

\* The lowest number left in the sweep is deleted; a failed delete is counted as
\* remaining and the sweep goes on.
SweepOne(c) ==
  LET s == CHOOSE n \in sweep[c] : \A m \in sweep[c] : n <= m
  IN /\ pc[c] = "gDelete"
     /\ \/ log' = [log EXCEPT ![s] = None]
        \/ log' = log
     /\ IF sweep[c] = {s} THEN Return(c)
        ELSE /\ sweep' = [sweep EXCEPT ![c] = @ \ {s}]
             /\ UNCHANGED <<pc, event, listMax, hintSeq, guess, limit, conflicts, old>>
     /\ UNCHANGED <<hint, floor, receipts>>

-----------------------------------------------------------------------------
\* The process dies, or a request fails and the call returns an error.
Abort(c) ==
  /\ pc[c] # "idle"
  /\ Return(c)
  /\ UNCHANGED <<store, receipts>>

CallStep(c) ==
  \/ LogMaxSeed(c) \/ LogMaxList(c) \/ ReadTailHint(c)
  \/ AppendHint(c) \/ AppendFloor(c) \/ AppendScan(c)
  \/ AppendCreate(c) \/ AppendReadback(c)
  \/ HintGet(c) \/ HintCheck(c) \/ HintCas(c)
  \/ TrimEnd(c) \/ ProposeTrim(c) \/ CertifyTrim(c)
  \/ DeleteBelow(c) \/ SweepOne(c)

Call(c) ==
  \/ \E e \in Sends[c] : Append(c, e)
  \/ c \in Keepers /\ \E f \in Seqs : Trim(c, f)
  \/ c \in Keepers /\ Gc(c)

Next == \E c \in Clients : Call(c) \/ CallStep(c) \/ Abort(c)

Spec == Init /\ [][Next]_vars

-----------------------------------------------------------------------------
(* Properties.                                                             *)

TypeOK ==
  /\ log \in [Seqs -> Events \cup {None}]
  /\ hint \in Hints \cup {None}
  /\ floor \in 0..MaxSeq
  /\ pc \in [Clients -> PCs]
  /\ event \in [Clients -> Events \cup {None}]
  /\ listMax \in [Clients -> 0..MaxSeq]
  /\ hintSeq \in [Clients -> 0..MaxSeq]
  /\ guess \in [Clients -> 0..MaxSeq]
  /\ limit \in [Clients -> 0..MaxSeq]
  /\ conflicts \in [Clients -> 0..Budget]
  /\ sweep \in [Clients -> SUBSET Seqs]
  /\ old \in [Clients -> Hints \cup {None}]
  /\ receipts \subseteq Hints

\* The event of a receipt stays readable at its number until a certificate
\* passes it: no sweep, no later writer, no hint touches it.
ReceiptsRetained ==
  \A r \in receipts : log[r.seq] = r.event

\* Retries are idempotent inside the window: of two retained events with the same
\* stable id one is more than a window past the other, or the tail hint has moved
\* past the earlier one.  It takes the scan before the create loop and the
\* readback in it to see this, with two writers, a lost answer and a trim between.
RetryWindow ==
  \A s, t \in Seqs :
    /\ floor <= s /\ s < t /\ t <= s + Window + 1
    /\ log[s] # None /\ log[t] # None
    /\ log[s].id = log[t].id
    => hint # None /\ hint.seq > s

\* The objects of the stream behave as StreamStore says, whatever appends, trims
\* and sweeps interleave: numbers at and above the floor are taken one after the
\* other and never rewritten, the floor only rises and never passes the end by
\* more than one, and nothing at or above it is deleted.
Store == INSTANCE StreamStore
ImplementsStreamStore == Store!StoreSpec
=============================================================================
