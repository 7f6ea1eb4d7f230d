-------------------------- MODULE ConditionalAppend --------------------------
(***************************************************************************)
(* create_stream_with_id and append_expected on one stream: the caller     *)
(* names the configuration, or the predecessor of the one position its     *)
(* event may take, and every answer says what the call can prove about the *)
(* store.  Ordinary appends, trims and sweeps run beside them as the steps *)
(* of StreamStore; one request of a call is one step.                      *)
(*                                                                         *)
(* The genesis at number 0 is never trimmed.  Certificates are immutable,  *)
(* so a floor that falls within one call does not occur here; the call's   *)
(* check for it fails closed.                                              *)
(***************************************************************************)
EXTENDS StreamStore, FiniteSets

CONSTANTS
  Clients,   \* processes that use the stream
  Configs,   \* stream configurations, the payload of a genesis
  MaxDamage, \* stored objects that are damaged; a bound of the model
  Damaged,   \* an object that does not decode or does not verify
  NotAttempted, PossiblyCommitted   \* AppendExpectedEffect without a receipt

ASSUME ConditionalAssumption ==
  /\ MaxDamage \in Nat
  /\ Damaged \notin Events \cup Configs \cup {None}
  /\ None \notin Configs
  /\ {NotAttempted, PossiblyCommitted, None} \cap (Seqs \X Events) = {}
  /\ NotAttempted \notin {PossiblyCommitted, None}

\* EventRef: number, stable id and payload digest; the schema is not in it.
Ref(s, e) == [seq |-> s, id |-> e.id, payload |-> e.payload]

GenesisRef(cfg) == [seq |-> 0, id |-> None, payload |-> cfg]

Refs == {Ref(s, e) : s \in Seqs, e \in Events} \cup {GenesisRef(cfg) : cfg \in Configs}

VARIABLES
  genesis,   \* {stream}/log/0: the configuration, or None
  damaged,   \* numbers, 0 for the genesis, whose object is damaged
  pc,        \* the request a client is about to send
  pred,      \* the predecessor, or the configuration, a call was given
  event,     \* the event a call is to land
  seen,      \* what the last GET of the target or the genesis returned
  later,     \* the number the suffix probe has listed; 0 for none
  wrote,     \* history: whether the call's create took effect
  held,      \* history: whether the target has held the event since the call began
  answer,    \* what a call returns in this very step, and what it did
  first,     \* history: the first event that each number ever had
  opened     \* history: the answers Created and Existing, by configuration

store  == <<log, floor, genesis, damaged>>
locals == <<pc, pred, event, seen, later, wrote>>
vars   == <<log, floor, genesis, damaged, pc, pred, event, seen, later, wrote, held,
            answer, first, opened>>

-----------------------------------------------------------------------------
\* What a GET shows at a number: Envelope::decode_and_verify refuses an object
\* that is damaged.
Got(s) == IF s \in damaged THEN Damaged ELSE IF s = 0 THEN genesis ELSE log[s]

Target(c) == pred[c].seq + 1

\* The receipt of a call's own event.
Own(c) == <<Target(c), event[c]>>

PCs == {"idle", "cIncumbent", "aTarget", "aOccupied",
        "aFloor", "aPredecessor", "aReread", "aProbe", "aWitness", "aBefore", "aCreate",
        "aReadback", "aCommitted", "aUnresolved"}

Receipts == Seqs \X Events

\* AppendExpectedEffect: Committed is the receipt it carries.
Effects == {NotAttempted, PossiblyCommitted} \cup Receipts

Kinds == {"Ok", "Created", "Existing", "ConfigurationConflict", "SeqExhausted",
          "StreamNotFound", "Corrupt", "Expired", "IdempotencyConflict",
          "PositionConflict", "PredecessorMismatch", "EventMissing",
          "BackendUnqualified", "HoleWitnessed", "Unavailable"}

ASSUME KindsAssumption == None \notin Kinds

NoAnswer == [kind |-> None, effect |-> None, wrote |-> FALSE, held |-> FALSE]

Init ==
  /\ StoreInit
  /\ genesis = None
  /\ damaged = {}
  /\ pc = [c \in Clients |-> "idle"]
  /\ pred = [c \in Clients |-> None]
  /\ event = [c \in Clients |-> None]
  /\ seen = [c \in Clients |-> None]
  /\ later = [c \in Clients |-> 0]
  /\ wrote = [c \in Clients |-> FALSE]
  /\ answer = NoAnswer
  /\ held = [c \in Clients |-> FALSE]
  /\ first = [s \in Seqs |-> None]
  /\ opened = {}

Goto(c, p) ==
  /\ pc' = [pc EXCEPT ![c] = p]
  /\ answer' = NoAnswer

Keep(c) == UNCHANGED <<pred, event, later, wrote, held>>

History == <<first, opened>>

\* The histories of a step that lands event e at number s.
Record(s, e) ==
  /\ first' = [first EXCEPT ![s] = IF @ = None THEN e ELSE @]
  /\ held' = [c \in Clients |->
               held[c] \/ (pc[c] \notin {"idle", "cIncumbent"} /\ Own(c) = <<s, e>>)]

\* The call is over and its locals are gone.
Answer(c, kind, effect) ==
  /\ pc' = [pc EXCEPT ![c] = "idle"]
  /\ pred' = [pred EXCEPT ![c] = None]
  /\ event' = [event EXCEPT ![c] = None]
  /\ seen' = [seen EXCEPT ![c] = None]
  /\ later' = [later EXCEPT ![c] = 0]
  /\ wrote' = [wrote EXCEPT ![c] = FALSE]
  /\ held' = [held EXCEPT ![c] = FALSE]
  /\ answer' = [kind |-> kind, effect |-> effect, wrote |-> wrote[c],
                held |-> held[c]]

\* The call stops for one of two subjects a floor has retired: its target, or a
\* predecessor that is not the genesis.
Expired(c) ==
  \/ Target(c) < floor
  \/ pred[c].seq > 0 /\ pred[c].seq < floor

-----------------------------------------------------------------------------
(* create_stream_with_id.                                                  *)

\* The answer of a call that found, or made, its own configuration.
Opened(c, kind, cfg) ==
  /\ opened' = opened \cup {<<kind, cfg>>}
  /\ Answer(c, kind, None)

\* The conditional create of the genesis is the call's first request; its answer
\* may be lost, and a create that is sent again finds the key taken.
CreateStreamWithId(c, cfg) ==
  /\ pc[c] = "idle"
  /\ \/ /\ genesis = None
        /\ genesis' = cfg
        /\ Opened(c, "Created", cfg)
     \/ /\ genesis' = IF genesis = None THEN cfg ELSE genesis
        /\ pred' = [pred EXCEPT ![c] = GenesisRef(cfg)]
        /\ Goto(c, "cIncumbent")
        /\ UNCHANGED <<event, seen, later, wrote, held, opened>>
  /\ UNCHANGED <<log, floor, damaged, first>>

\* Mutant: whatever genesis is there is taken for the caller's own.
GenesisAdopted(c) ==
  /\ pc[c] = "cIncumbent"
  /\ \/ Got(0) # Damaged /\ Opened(c, "Existing", pred[c].payload)
     \/ /\ Got(0) = Damaged
        /\ Answer(c, "Corrupt", None)
        /\ UNCHANGED opened
  /\ UNCHANGED <<store, first>>

\* The incumbent is read back: only the same bytes are the same stream.
GenesisIncumbent(c) ==
  /\ pc[c] = "cIncumbent"
  /\ \/ Got(0) = pred[c].payload /\ Opened(c, "Existing", pred[c].payload)
     \/ /\ Got(0) # pred[c].payload
        /\ Answer(c, IF Got(0) = Damaged THEN "Corrupt" ELSE "ConfigurationConflict",
                  None)
        /\ UNCHANGED opened
  /\ UNCHANGED <<store, first>>

-----------------------------------------------------------------------------
(* append_expected, before its create.                                     *)

\* Admission, where a predecessor at the last number has no successor, and then
\* verified_genesis, whose record is kept for a predecessor at number 0.
AppendExpected(c, r, e) ==
  /\ pc[c] = "idle"
  /\ \/ r.seq = MaxSeq /\ Answer(c, "SeqExhausted", NotAttempted)
     \/ /\ r.seq < MaxSeq /\ Got(0) \in {None, Damaged}
        /\ Answer(c, IF Got(0) = None THEN "StreamNotFound" ELSE "Corrupt", NotAttempted)
     \/ /\ r.seq < MaxSeq /\ Got(0) \notin {None, Damaged}
        /\ seen' = [seen EXCEPT ![c] = Got(0)]
        /\ pred' = [pred EXCEPT ![c] = r]
        /\ event' = [event EXCEPT ![c] = e]
        /\ held' = [held EXCEPT ![c] = log[r.seq + 1] = e]
        /\ Goto(c, "aTarget")
        /\ UNCHANGED <<later, wrote>>
  /\ UNCHANGED <<store, History>>

\* The exact target is read before predecessor, suffix and floor.
TargetGet(c) ==
  /\ pc[c] = "aTarget"
  /\ \/ /\ Got(Target(c)) = None
        /\ Goto(c, "aFloor")
        /\ UNCHANGED seen
     \/ /\ Got(Target(c)) # None
        /\ seen' = [seen EXCEPT ![c] = Got(Target(c))]
        /\ Goto(c, IF Got(Target(c)) = event[c] THEN "aCommitted" ELSE "aOccupied")
  /\ Keep(c)
  /\ UNCHANGED <<store, History>>

\* classify_occupant: a damaged object, the caller's id with other bytes, or an
\* event of someone else.
ClassifyOccupant(c, o) ==
  IF o = Damaged THEN "Corrupt"
  ELSE IF o.id = event[c].id THEN "IdempotencyConflict" ELSE "PositionConflict"

\* The target holds other bytes.  Retention is observed before they are judged:
\* an expired target overrides what is left of it.
Occupied(c) ==
  /\ pc[c] = "aOccupied"
  /\ Answer(c, IF Target(c) < floor THEN "Expired" ELSE ClassifyOccupant(c, seen[c]),
          NotAttempted)
  /\ UNCHANGED <<store, History>>

\* An absent target: expiry ends the call before the predecessor is read, and the
\* genesis stands in for the read of number 0.
FloorFirst(c) ==
  /\ pc[c] = "aFloor"
  /\ \/ Expired(c) /\ Answer(c, "Expired", NotAttempted)
     \/ /\ ~ Expired(c)
        /\ pred[c].seq = 0 /\ pred[c] # GenesisRef(seen[c])
        /\ Answer(c, "PredecessorMismatch", NotAttempted)
     \/ /\ ~ Expired(c)
        /\ pred[c].seq = 0 => pred[c] = GenesisRef(seen[c])
        /\ Goto(c, IF pred[c].seq = 0 THEN "aProbe" ELSE "aPredecessor")
        /\ seen' = [seen EXCEPT ![c] = None]
        /\ Keep(c)
  /\ UNCHANGED <<store, History>>

\* Mutant: any verified event will do for a predecessor.
PredecessorUnmatched(c) ==
  LET found == Got(pred[c].seq)
  IN /\ pc[c] = "aPredecessor"
     /\ \/ /\ found = Damaged
           /\ Answer(c, "Corrupt", NotAttempted)
        \/ /\ found # Damaged
           /\ Goto(c, IF found = None THEN "aReread" ELSE "aProbe")
           /\ Keep(c) /\ UNCHANGED seen
     /\ UNCHANGED <<store, History>>

\* Mutant: a predecessor that is not there counts as verified.
PredecessorAssumed(c) ==
  /\ pc[c] = "aPredecessor"
  /\ Goto(c, "aProbe")
  /\ Keep(c) /\ UNCHANGED <<seen, store, History>>

\* verify_predecessor.
VerifyPredecessor(c) ==
  LET found == Got(pred[c].seq)
      other == found \notin {None, Damaged} /\ Ref(pred[c].seq, found) # pred[c]
  IN /\ pc[c] = "aPredecessor"
     /\ \/ /\ found = Damaged \/ other
           /\ Answer(c, IF other THEN "PredecessorMismatch" ELSE "Corrupt", NotAttempted)
        \/ /\ found # Damaged /\ ~ other
           /\ Goto(c, IF found = None THEN "aReread" ELSE "aProbe")
           /\ Keep(c) /\ UNCHANGED seen
     /\ UNCHANGED <<store, History>>

\* A predecessor that is not there expired in the meantime, or is missing.
FloorReread(c) ==
  /\ pc[c] = "aReread"
  /\ Answer(c, IF Expired(c) THEN "Expired" ELSE "EventMissing", NotAttempted)
  /\ UNCHANGED <<store, History>>

\* probe_later_witness: the LIST past the target ...
ProbeLater(c) ==
  LET suffix == {s \in Landed : s > Target(c)}
  IN /\ pc[c] = "aProbe"
     /\ Goto(c, IF suffix = {} THEN "aBefore" ELSE "aWitness")
     /\ later' = [later EXCEPT ![c] =
                    IF suffix = {} THEN 0
                    ELSE CHOOSE s \in suffix : \A t \in suffix : s <= t]
     /\ UNCHANGED <<pred, event, seen, wrote, held, store, History>>

\* ... and the GET of the first event it names.
LaterWitness(c) ==
  LET found == Got(later[c])
  IN /\ pc[c] = "aWitness"
     /\ Answer(c, CASE found = None    -> "BackendUnqualified"
                  [] found = Damaged -> "Corrupt"
                  [] OTHER           -> "HoleWitnessed",
             NotAttempted)
     /\ UNCHANGED <<store, History>>

\* The floor is observed again immediately before the create.
FloorBefore(c) ==
  /\ pc[c] = "aBefore"
  /\ \/ Expired(c) /\ Answer(c, "Expired", NotAttempted)
     \/ ~ Expired(c) /\ Goto(c, "aCreate") /\ Keep(c) /\ UNCHANGED seen
  /\ UNCHANGED <<store, History>>

-----------------------------------------------------------------------------
(* The create and what follows: the effect is never less than possible.    *)

\* One conditional create at the target.  It lands and is answered, it lands and
\* its answer is lost or says that the key exists, or it does not land.
TargetCreate(c) ==
  LET landed == /\ log[Target(c)] = None
                /\ log' = [log EXCEPT ![Target(c)] = event[c]]
                /\ Record(Target(c), event[c])
                /\ wrote' = [wrote EXCEPT ![c] = TRUE]
  IN /\ pc[c] = "aCreate"
     /\ \/ landed /\ Goto(c, "aCommitted")
        \/ landed /\ Goto(c, "aReadback")
        \/ Goto(c, "aReadback") /\ UNCHANGED <<log, first, wrote, held>>
     /\ UNCHANGED <<floor, genesis, damaged, pred, event, seen, later, opened>>

\* Mutant: AlreadyExists is taken for a rejection.
ReadbackRejects(c) ==
  LET found == Got(Target(c))
  IN /\ pc[c] = "aReadback"
     /\ \/ found = event[c] /\ Goto(c, "aCommitted") /\ Keep(c) /\ UNCHANGED seen
        \/ found # event[c] /\ Answer(c, "Unavailable", NotAttempted)
     /\ UNCHANGED <<store, History>>

\* Any create error: the exact target is read back.
Readback(c) ==
  LET found == Got(Target(c))
  IN /\ pc[c] = "aReadback"
     /\ \/ found = event[c] /\ Goto(c, "aCommitted") /\ UNCHANGED seen
        \/ /\ found \notin {None, event[c]}
           /\ seen' = [seen EXCEPT ![c] = found]
           /\ Goto(c, "aUnresolved")
        \/ Goto(c, "aUnresolved") /\ UNCHANGED seen      \* absent, or the GET fails
     /\ Keep(c)
     /\ UNCHANGED <<store, History>>

\* Mutant: success needs no floor observation.
CommittedUnobserved(c) ==
  /\ pc[c] = "aCommitted"
  /\ Answer(c, "Ok", Own(c))
  /\ UNCHANGED <<store, History>>

\* adjudicate_committed: the mandatory floor observation comes before a success,
\* and the receipt survives an observation that fails.
AdjudicateCommitted(c) ==
  /\ pc[c] = "aCommitted"
  /\ \/ Answer(c, IF Target(c) < floor THEN "Expired" ELSE "Ok", Own(c))
     \/ Answer(c, "Unavailable", Own(c))
  /\ UNCHANGED <<store, History>>

\* adjudicate_unresolved, and the same observation for an occupant or a failed
\* readback: expiry first, then the typed witness, always PossiblyCommitted.
AdjudicateUnresolved(c) ==
  /\ pc[c] = "aUnresolved"
  /\ \/ Answer(c, CASE Target(c) < floor -> "Expired"
                  [] Target(c) >= floor /\ seen[c] = None -> "Unavailable"
                  [] OTHER -> ClassifyOccupant(c, seen[c]),
             PossiblyCommitted)
     \/ Answer(c, "Unavailable", PossiblyCommitted)
  /\ UNCHANGED <<store, History>>

-----------------------------------------------------------------------------
\* A request fails before the create was invoked: Unavailable, NotAttempted.
Unavailable(c) ==
  /\ pc[c] \in {"aTarget", "aOccupied", "aFloor", "aPredecessor", "aReread",
                "aProbe", "aWitness", "aBefore"}
  /\ Answer(c, "Unavailable", NotAttempted)
  /\ UNCHANGED <<store, History>>

\* The process dies, or create_stream_with_id fails as Unavailable: no answer.
Abort(c) ==
  /\ pc[c] # "idle"
  /\ Answer(c, None, None)
  /\ UNCHANGED <<store, History>>

\* The rest of the world, any number of clients: another creation of the stream,
\* an append of another writer, a trim, a sweep.
Elsewhere ==
  /\ \/ /\ genesis = None
        /\ \E cfg \in Configs : /\ genesis' = cfg
                                /\ opened' = opened \cup {<<"Created", cfg>>}
        /\ UNCHANGED <<log, floor, damaged, held, first>>
     \/ /\ genesis # None
        /\ \E s \in Seqs :
             \/ Certify(s) /\ UNCHANGED <<damaged, held, first>>
             \/ Sweep(s) /\ damaged' = damaged \ {s} /\ UNCHANGED <<held, first>>
             \/ \E e \in Events : Land(s, e) /\ Record(s, e) /\ UNCHANGED damaged
        /\ UNCHANGED <<genesis, opened>>
  /\ answer' = NoAnswer
  /\ UNCHANGED locals

\* An object is damaged where it is stored.
Damage(s) ==
  /\ Got(s) \notin {None, Damaged}
  /\ Cardinality(damaged) < MaxDamage
  /\ damaged' = damaged \cup {s}
  /\ answer' = NoAnswer
  /\ UNCHANGED <<log, floor, genesis, locals, held, History>>

Call(c) ==
  \/ \E cfg \in Configs : CreateStreamWithId(c, cfg)
  \/ \E r \in Refs, e \in Events : AppendExpected(c, r, e)

CallStep(c) ==
  \/ GenesisIncumbent(c)
  \/ TargetGet(c) \/ Occupied(c) \/ FloorFirst(c)
  \/ VerifyPredecessor(c) \/ FloorReread(c) \/ ProbeLater(c) \/ LaterWitness(c)
  \/ FloorBefore(c) \/ TargetCreate(c) \/ Readback(c)
  \/ AdjudicateCommitted(c) \/ AdjudicateUnresolved(c)

Next ==
  \/ \E c \in Clients : Call(c) \/ CallStep(c) \/ Unavailable(c) \/ Abort(c)
  \/ Elsewhere
  \/ \E s \in Seqs \cup {0} : Damage(s)

Spec == Init /\ [][Next]_vars

-----------------------------------------------------------------------------
(* Properties.                                                             *)

TypeOK ==
  /\ log \in [Seqs -> Events \cup {None}]
  /\ floor \in 0..MaxSeq
  /\ genesis \in Configs \cup {None}
  /\ damaged \subseteq Landed \cup {0}
  /\ pc \in [Clients -> PCs]
  /\ pred \in [Clients -> Refs \cup {None}]
  /\ \A c \in Clients : pc[c] \notin {"idle", "cIncumbent"} => Target(c) \in Seqs
  /\ event \in [Clients -> Events \cup {None}]
  /\ seen \in [Clients -> Events \cup Configs \cup {Damaged, None}]
  /\ later \in [Clients -> 0..MaxSeq]
  /\ wrote \in [Clients -> BOOLEAN]
  /\ answer \in [kind : Kinds \cup {None}, effect : Effects \cup {None}, wrote : BOOLEAN,
                 held : BOOLEAN]
  /\ held \in [Clients -> BOOLEAN]
  /\ first \in [Seqs -> Events \cup {None}]
  /\ opened \subseteq {"Created", "Existing"} \X Configs

\* Every answer's effect is true: NotAttempted is told only by a call that wrote
\* nothing, and a receipt, with a success or with an error, names an event that
\* was at its number while the call ran.  It takes a lost answer, another writer
\* at the target or a sweep between create and readback to tell a wrong effect
\* from a right one.
EffectIsTrue ==
  /\ answer.effect = NotAttempted => ~ answer.wrote
  /\ answer.effect \in Receipts => answer.held

\* A position is won once: a success is about the first event its number ever
\* had, also when that event was trimmed and swept and a call that had passed its
\* checks before lands another one at the number.
OneEventPerPosition ==
  answer.kind = "Ok" => first[answer.effect[1]] = answer.effect[2]

\* A call lands its event behind the predecessor it was given: that event is at
\* its number at the moment of the create, or a floor has retired it since.
LandsOnItsPredecessor ==
  [][\A c \in Clients :
       pc[c] = "aCreate" /\ log' # log =>
         \/ pred[c].seq = 0 /\ genesis = pred[c].payload
         \/ pred[c].seq > 0 /\ pred[c].seq < floor
         \/ /\ pred[c].seq > 0 /\ log[pred[c].seq] # None
            /\ Ref(pred[c].seq, log[pred[c].seq]) = pred[c] ]_vars

\* However conditional appends interleave with ordinary ones, trims and sweeps,
\* the log stays what StreamStore promises: no hole above the floor, nothing
\* overwritten, nothing lost that no certificate covers.
ImplementsStreamStore == StoreSpec

\* A stream id stands for one configuration: all callers that were told Created
\* or Existing brought the same bytes, those the genesis has.
OneConfiguration == \A o \in opened : o[2] = genesis
=============================================================================
