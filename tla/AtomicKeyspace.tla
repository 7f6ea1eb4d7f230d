---------------------------- MODULE AtomicKeyspace ----------------------------
(***************************************************************************)
(* One key of an atomic keyspace, with inline values: a control object     *)
(* that carries its incarnation and version, an incarnation counter and a  *)
(* tombstone.  Clients share nothing but the object store, one request is  *)
(* one step, and an ETag is a function of an object's bytes: two controls  *)
(* with the same incarnation, version and payload have the same ETag.      *)
(*                                                                         *)
(* The key is not seq-shaped, so no trim certificate covers it and no      *)
(* certified sweep removes its counter or its tombstone.                   *)
(***************************************************************************)
EXTENDS Naturals

CONSTANTS
  Clients,     \* processes that use the key
  Payloads,    \* logical values
  MaxVersion,  \* the largest version, u64::MAX in the code
  MaxInc,      \* the largest incarnation, u64::MAX in the code
  Attempts,    \* iterations of the create and bump loops, 8 in the code
  May,         \* the operations each process's program calls
  Writes,      \* the values each process's program writes
  None         \* no object, no value

\* The public operations: delete is delete_if_match too, get is every read.
Operations == {"create", "exchange", "destroy", "delete", "get"}

ASSUME KeyspaceAssumption ==
  /\ MaxVersion \in Nat
  /\ MaxInc \in Nat
  /\ Attempts \in Nat \ {0}
  /\ May \in [Clients -> SUBSET Operations]
  /\ Writes \in [Clients -> SUBSET Payloads]

\* ValueEnvelope.
Controls == [inc : 0..MaxInc, ver : 0..MaxVersion, data : Payloads]

Tombstones == [inc : 0..MaxInc, gen : 0..MaxVersion]

ASSUME NoControlAssumption == None \notin Controls \cup Tombstones \cup Payloads

VARIABLES
  value,      \* keyspace/{namespace}/{key}
  counter,    \* incarnations/{key}; 0 when the object is absent
  tombstone,  \* tombstones/{key}
  pc,         \* the request a client is about to send
  era,        \* the counter value a client's call has read
  data,       \* the payload a client's call is to write
  seen,       \* the control a client's call has observed or expects
  tries,      \* iterations left of the loop a client is in
  token,      \* the control whose ETag a client holds between calls
  acked,      \* history: the controls the keyspace has returned Ok for
  raw,        \* history: the incarnations in which a caller deleted the key
  stale,      \* history: clients whose token's object was since replaced
  crossed     \* history: clients whose exchange matched a stale token

store  == <<value, counter, tombstone>>
locals == <<pc, era, data, seen, tries>>
ghosts == <<acked, raw, stale, crossed>>
vars   == <<value, counter, tombstone, pc, era, data, seen, tries, token,
            acked, raw, stale, crossed>>

-----------------------------------------------------------------------------
Control(i, v, d) == [inc |-> i, ver |-> v, data |-> d]

\* What a create is to publish, and what a compare_exchange is.
Created(c)  == Control(era[c], 0, data[c])
Exchanged(c) == Control(seen[c].inc, seen[c].ver + 1, data[c])

PCs == {"idle", "cReadEra", "cPut", "cRecheck", "cLook", "cEvict",
        "xEra", "xPut", "xRecheck", "xEvict",
        "dTombstone", "bRead", "bCas", "dDelete", "rTombstone"}

Init ==
  /\ value = None
  /\ counter = 0
  /\ tombstone = None
  /\ pc = [c \in Clients |-> "idle"]
  /\ era = [c \in Clients |-> 0]
  /\ data = [c \in Clients |-> None]
  /\ seen = [c \in Clients |-> None]
  /\ tries = [c \in Clients |-> 0]
  /\ token = [c \in Clients |-> None]
  /\ acked = {}
  /\ raw = {}
  /\ stale = {}
  /\ crossed = {}

Goto(c, p) == pc' = [pc EXCEPT ![c] = p]

\* The call returns to its caller and its locals are gone.
Return(c) ==
  /\ pc' = [pc EXCEPT ![c] = "idle"]
  /\ era' = [era EXCEPT ![c] = 0]
  /\ data' = [data EXCEPT ![c] = None]
  /\ seen' = [seen EXCEPT ![c] = None]
  /\ tries' = [tries EXCEPT ![c] = 0]

\* The control object becomes v, or goes away when v is None.  Whoever holds a
\* token of what was there is out of date from now on, even if the same bytes
\* come back.
Publish(v) ==
  /\ value' = v
  /\ stale' = IF value = None THEN stale
              ELSE stale \cup {c \in Clients : token[c] # None}

\* DELETE with If-Match on the ETag of v.
DeleteConditional(v) ==
  \/ value = v /\ Publish(None)
  \/ value # v /\ UNCHANGED <<value, stale>>

-----------------------------------------------------------------------------
(* create: read the counter, put-if-absent version 0 of that incarnation,  *)
(* read the counter again, and take the value back if the era has closed.  *)

Create(c, d) ==
  /\ "create" \in May[c]
  /\ pc[c] = "idle"
  /\ Goto(c, "cReadEra")
  /\ data' = [data EXCEPT ![c] = d]
  /\ tries' = [tries EXCEPT ![c] = Attempts]
  /\ UNCHANGED <<store, era, seen, token, ghosts>>

CreateReadEra(c) ==
  /\ pc[c] = "cReadEra"
  /\ \/ /\ tries[c] > 0
        /\ era' = [era EXCEPT ![c] = counter]
        /\ tries' = [tries EXCEPT ![c] = @ - 1]
        /\ Goto(c, "cPut")
        /\ UNCHANGED <<data, seen>>
     \/ tries[c] = 0 /\ Return(c)        \* incarnation contention
  /\ UNCHANGED <<store, token, ghosts>>

CreatePut(c) ==
  /\ pc[c] = "cPut"
  /\ \/ /\ value = None
        /\ Publish(Created(c))
        /\ Goto(c, "cRecheck")
        /\ UNCHANGED <<era, data, seen, tries>>
     \/ value # None /\ Return(c) /\ UNCHANGED <<value, stale>>
  /\ UNCHANGED <<counter, tombstone, token, acked, raw, crossed>>

CreateRecheck(c) ==
  /\ pc[c] = "cRecheck"
  /\ \/ /\ counter = era[c]
        /\ acked' = acked \cup {Created(c)}
        /\ Return(c)
     \/ /\ counter # era[c]
        /\ Goto(c, "cLook")
        /\ UNCHANGED <<era, data, seen, tries, acked>>
  /\ UNCHANGED <<store, token, raw, stale, crossed>>

\* The value is downloaded again: it is evicted only while it is this create's
\* own bytes.
CreateLook(c) ==
  /\ pc[c] = "cLook"
  /\ \/ /\ value = Created(c)
        /\ Goto(c, "cEvict")
        /\ UNCHANGED <<era, data, seen, tries>>
     \/ /\ value = None
        /\ Goto(c, "cReadEra")
        /\ era' = [era EXCEPT ![c] = 0]
        /\ UNCHANGED <<data, seen, tries>>
     \/ value \notin {Created(c), None} /\ Return(c)     \* AlreadyExists
  /\ UNCHANGED <<store, token, ghosts>>

CreateEvict(c) ==
  /\ pc[c] = "cEvict"
  /\ \/ /\ value \in {Created(c), None}
        /\ Goto(c, "cReadEra")
        /\ era' = [era EXCEPT ![c] = 0]
        /\ UNCHANGED <<data, seen, tries>>
     \/ value \notin {Created(c), None} /\ Return(c)     \* AlreadyExists
  /\ DeleteConditional(Created(c))
  /\ UNCHANGED <<counter, tombstone, token, acked, raw, crossed>>

-----------------------------------------------------------------------------
(* compare_exchange.                                                       *)

\* The download finds the control the caller's ETag names; another one, or
\* none, is a PreconditionFailed that changes nothing.
CompareExchange(c, d) ==
  /\ "exchange" \in May[c]
  /\ pc[c] = "idle"
  /\ token[c] # None
  /\ value = token[c]
  /\ Goto(c, "xEra")
  /\ seen' = [seen EXCEPT ![c] = value]
  /\ data' = [data EXCEPT ![c] = d]
  /\ UNCHANGED <<store, era, tries, token, ghosts>>

\* ensure_open_value_era, and the successor's version.
ExchangeEra(c) ==
  LET allowed == counter = seen[c].inc /\ seen[c].ver < MaxVersion
  IN /\ pc[c] = "xEra"
     /\ \/ allowed /\ Goto(c, "xPut") /\ UNCHANGED <<era, data, seen, tries>>
        \/ ~ allowed /\ Return(c)
     /\ UNCHANGED <<store, token, ghosts>>

\* Mutant: the PUT of an exchange has no If-Match.
ExchangePutUnconditional(c) ==
  /\ pc[c] = "xPut"
  /\ Publish(Exchanged(c))
  /\ crossed' = IF c \in stale THEN crossed \cup {c} ELSE crossed
  /\ Goto(c, "xRecheck")
  /\ UNCHANGED <<counter, tombstone, era, data, seen, tries, token, acked, raw>>

\* PUT with If-Match on the expected ETag.
ExchangePut(c) ==
  /\ pc[c] = "xPut"
  /\ \/ /\ value = seen[c]
        /\ Publish(Exchanged(c))
        /\ crossed' = IF c \in stale THEN crossed \cup {c} ELSE crossed
        /\ Goto(c, "xRecheck")
        /\ UNCHANGED <<era, data, seen, tries>>
     \/ value # seen[c] /\ Return(c) /\ UNCHANGED <<value, stale, crossed>>
  /\ UNCHANGED <<counter, tombstone, token, acked, raw>>

\* Mutant: the exchange is acknowledged without a second look at the counter.
ExchangeRecheckSkipped(c) ==
  /\ pc[c] = "xRecheck"
  /\ acked' = acked \cup {Exchanged(c)}
  /\ token' = [token EXCEPT ![c] = Exchanged(c)]
  /\ stale' = IF value = Exchanged(c) THEN stale \ {c} ELSE stale
  /\ crossed' = crossed \ {c}
  /\ Return(c)
  /\ UNCHANGED <<store, raw>>

\* finish_value_cas_after_publish.  The caller gets the new ETag; its token is
\* fresh if the value is still the one it published.
ExchangeRecheck(c) ==
  /\ pc[c] = "xRecheck"
  /\ \/ /\ counter = seen[c].inc
        /\ acked' = acked \cup {Exchanged(c)}
        /\ token' = [token EXCEPT ![c] = Exchanged(c)]
        /\ stale' = IF value = Exchanged(c) THEN stale \ {c} ELSE stale
        /\ crossed' = crossed \ {c}
        /\ Return(c)
     \/ /\ counter # seen[c].inc
        /\ Goto(c, "xEvict")
        /\ UNCHANGED <<era, data, seen, tries, token, acked, stale, crossed>>
  /\ UNCHANGED <<store, raw>>

\* Mutant: the eviction deletes whatever value is there.
ExchangeEvictUnconditional(c) ==
  /\ pc[c] = "xEvict"
  /\ Publish(None)
  /\ crossed' = crossed \ {c}
  /\ Return(c)
  /\ UNCHANGED <<counter, tombstone, token, acked, raw>>

ExchangeEvict(c) ==
  /\ pc[c] = "xEvict"
  /\ DeleteConditional(Exchanged(c))
  /\ crossed' = crossed \ {c}
  /\ Return(c)
  /\ UNCHANGED <<counter, tombstone, token, acked, raw>>

-----------------------------------------------------------------------------
(* The raw deletes: no tombstone, no new incarnation.                      *)

\* delete, and each key of a delete_many.
Delete(c) ==
  /\ "delete" \in May[c]
  /\ pc[c] = "idle"
  /\ value # None
  /\ raw' = raw \cup {value.inc}
  /\ Publish(None)
  /\ UNCHANGED <<counter, tombstone, locals, token, acked, crossed>>

\* An ETag that does not match is a PreconditionFailed that changes nothing.
DeleteIfMatch(c) ==
  /\ "delete" \in May[c]
  /\ pc[c] = "idle"
  /\ token[c] # None
  /\ value = token[c]
  /\ raw' = raw \cup {value.inc}
  /\ Publish(None)
  /\ UNCHANGED <<counter, tombstone, locals, token, acked, crossed>>

-----------------------------------------------------------------------------
(* destroy: the control's era, the tombstone, bump_incarnation, and a      *)
(* conditional delete.                                                     *)

\* Mutant: destroy goes straight to the counter and leaves no tombstone.
DestroyUnwitnessed(c) ==
  /\ "destroy" \in May[c]
  /\ pc[c] = "idle"
  /\ value # None
  /\ seen' = [seen EXCEPT ![c] = value]
  /\ tries' = [tries EXCEPT ![c] = Attempts]
  /\ Goto(c, "bRead")
  /\ UNCHANGED <<store, era, data, token, ghosts>>

\* An absent key is Ok(()) at once.
Destroy(c) ==
  /\ "destroy" \in May[c]
  /\ pc[c] = "idle"
  /\ value # None
  /\ seen' = [seen EXCEPT ![c] = value]
  /\ tries' = [tries EXCEPT ![c] = Attempts]
  /\ Goto(c, "dTombstone")
  /\ UNCHANGED <<store, era, data, token, ghosts>>

\* Put-if-absent: the first tombstone stands.
DestroyTombstone(c) ==
  /\ pc[c] = "dTombstone"
  /\ tombstone' = IF tombstone # None THEN tombstone
                  ELSE [inc |-> seen[c].inc, gen |-> seen[c].ver]
  /\ Goto(c, "bRead")
  /\ UNCHANGED <<value, counter, era, data, seen, tries, token, ghosts>>

BumpRead(c) ==
  /\ pc[c] = "bRead"
  /\ \/ /\ tries[c] > 0 /\ counter < MaxInc
        /\ era' = [era EXCEPT ![c] = counter]
        /\ tries' = [tries EXCEPT ![c] = @ - 1]
        /\ Goto(c, "bCas")
        /\ UNCHANGED <<data, seen>>
     \/ ~ (tries[c] > 0 /\ counter < MaxInc) /\ Return(c)
  /\ UNCHANGED <<store, token, ghosts>>

\* A lost answer makes the SDK resend; the resent request is refused although
\* the first took effect, and the loop goes round again.
BumpCas(c) ==
  /\ pc[c] = "bCas"
  /\ \/ counter = era[c] /\ counter' = counter + 1 /\ Goto(c, "dDelete")
     \/ counter = era[c] /\ counter' = counter + 1 /\ Goto(c, "bRead")
     \/ counter # era[c] /\ counter' = counter /\ Goto(c, "bRead")
  /\ era' = [era EXCEPT ![c] = 0]
  /\ UNCHANGED <<value, tombstone, data, seen, tries, token, ghosts>>

\* Mutant: destroy's delete has no If-Match.
DestroyDeleteUnconditional(c) ==
  /\ pc[c] = "dDelete"
  /\ Publish(None)
  /\ Return(c)
  /\ UNCHANGED <<counter, tombstone, token, acked, raw, crossed>>

DestroyDelete(c) ==
  /\ pc[c] = "dDelete"
  /\ DeleteConditional(seen[c])
  /\ Return(c)
  /\ UNCHANGED <<counter, tombstone, token, acked, raw, crossed>>

-----------------------------------------------------------------------------
(* Reads.                                                                  *)

\* get_with_etag, and read_state of a present key.
GetWithEtag(c) ==
  /\ "get" \in May[c]
  /\ pc[c] = "idle"
  /\ value # None
  /\ token' = [token EXCEPT ![c] = value]
  /\ stale' = stale \ {c}
  /\ UNCHANGED <<store, locals, acked, raw, crossed>>

\* read_state of an absent key goes on to the tombstone, and then answers.
ReadState(c) ==
  /\ "get" \in May[c]
  /\ pc[c] = "idle"
  /\ value = None
  /\ Goto(c, "rTombstone")
  /\ UNCHANGED <<store, era, data, seen, tries, token, ghosts>>

ReadTombstone(c) ==
  /\ pc[c] = "rTombstone"
  /\ Return(c)
  /\ UNCHANGED <<store, token, ghosts>>

-----------------------------------------------------------------------------
\* The process dies, or the request fails and the call returns an error.
Abort(c) ==
  /\ pc[c] # "idle"
  /\ crossed' = crossed \ {c}
  /\ Return(c)
  /\ UNCHANGED <<store, token, acked, raw, stale>>

CallStep(c) ==
  \/ CreateReadEra(c) \/ CreatePut(c) \/ CreateRecheck(c)
  \/ CreateLook(c) \/ CreateEvict(c)
  \/ ExchangeEra(c) \/ ExchangePut(c) \/ ExchangeRecheck(c) \/ ExchangeEvict(c)
  \/ DestroyTombstone(c) \/ BumpRead(c) \/ BumpCas(c) \/ DestroyDelete(c)
  \/ ReadTombstone(c)

Call(c) ==
  \/ \E d \in Writes[c] : Create(c, d) \/ CompareExchange(c, d)
  \/ Delete(c) \/ DeleteIfMatch(c) \/ Destroy(c)
  \/ GetWithEtag(c) \/ ReadState(c)

Next == \E c \in Clients : Call(c) \/ CallStep(c) \/ Abort(c)

Spec == Init /\ [][Next]_vars

-----------------------------------------------------------------------------
(* Properties.                                                             *)

TypeOK ==
  /\ value \in Controls \cup {None}
  /\ counter \in 0..MaxInc
  /\ tombstone \in Tombstones \cup {None}
  /\ pc \in [Clients -> PCs]
  /\ era \in [Clients -> 0..MaxInc]
  /\ data \in [Clients -> Payloads \cup {None}]
  /\ seen \in [Clients -> Controls \cup {None}]
  /\ tries \in [Clients -> 0..Attempts]
  /\ token \in [Clients -> Controls \cup {None}]
  /\ acked \subseteq Controls
  /\ raw \subseteq 0..MaxInc
  /\ stale \subseteq Clients
  /\ crossed \subseteq Clients

\* In an open incarnation in which no caller used a raw delete, the key holds
\* every acknowledged write or a later version of it: no destroy still in
\* flight, no eviction and no exchange loses it.
AckedValueSurvives ==
  \A a \in acked : a.inc = counter /\ a.inc \notin raw =>
    /\ value # None
    /\ value.inc = a.inc
    /\ value.ver >= a.ver
    /\ value.ver = a.ver => value = a

SameVersion(v, w) == v.inc = w.inc /\ v.ver = w.ver

\* Each version of an incarnation is acknowledged to one writer, whatever the two
\* write: nobody is told Ok for a version that somebody was told Ok for before,
\* even when a create lands the bytes of a destroyed value again.
OneWinnerPerVersion ==
  [][\A c \in Clients : pc'[c] = "idle" =>
       /\ CreateRecheck(c) /\ era[c] \notin raw =>
            \A a \in acked : ~ SameVersion(a, Created(c))
       /\ ExchangeRecheck(c) /\ seen[c].inc \notin raw =>
            \A a \in acked : ~ SameVersion(a, Exchanged(c))]_vars

\* An exchange that is acknowledged replaced the very object its token was read
\* from, and not one with the same bytes that came later.
AckedExchangeIsFresh ==
  [][\A c \in Clients :
       ExchangeRecheck(c) /\ pc'[c] = "idle" /\ seen[c].inc \notin raw
         => c \notin crossed]_vars

\* The value of the open incarnation.
OpenValue == IF value # None /\ value.inc = counter THEN value ELSE None

Register == INSTANCE KeyRegister
            WITH era <- counter, register <- OpenValue, voided <- counter \in raw,
                 promised <- acked

\* The key implements KeyRegister: whatever creates, exchanges, destroys, late
\* evictions and crashes do, the open incarnation is a register whose versions
\* follow each other, that only a caller's raw delete empties, and that has every
\* version it is said to have had.
ImplementsKeyRegister == Register!Spec

\* A key with an acknowledged write that no raw delete touched is there or has a
\* tombstone, and no incarnation is closed without one.
DestructionWitnessed ==
  /\ value = None /\ (\E a \in acked : a.inc \notin raw) => tombstone # None
  /\ counter > 0 => tombstone # None
===============================================================================
