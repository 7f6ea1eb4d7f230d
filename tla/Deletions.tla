------------------------------ MODULE Deletions ------------------------------
(***************************************************************************)
(* Many keys at once: the paged walks of a namespace that find the trim    *)
(* floor and sweep below it, and the batched deletes delete_many and       *)
(* delete_objects with what they tell their caller about each key.  One    *)
(* caller is modelled request by request; other callers create, delete,    *)
(* destroy and certify between its requests.                               *)
(*                                                                         *)
(* A namespace is its keys in byte order, for one scope: a key is a record *)
(* with a class and a number, its place in Order is its rank.              *)
(***************************************************************************)
EXTENDS Integers, Sequences, FiniteSets, SequencesExt

CONSTANTS
  Order,     \* the keys that may exist, in byte order
  Foreign,   \* a key that a response may name and no caller asks for
  PageSize,  \* keys of a LIST page, 1000 in the code
  MaxKeys,   \* DELETE_OBJECTS_MAX_KEYS, 1000
  MaxInput,  \* DELETE_OBJECTS_MAX_INPUT, 100000
  Asked      \* the keys callers of the batched deletes ask for

Keys    == ToSet(Order)
Rank    == [k \in Keys |-> CHOOSE i \in 1..Len(Order) : Order[i] = k]

Classes == {"data", "tombstone", "incarnation", "certificate", "plain"}

ASSUME DeletionAssumption ==
  /\ Order \in Seq([class : Classes, seq : Nat]) /\ IsInjective(Order)
  /\ Foreign \notin Keys /\ Asked \subseteq Keys
  /\ {PageSize, MaxKeys, MaxInput} \subseteq Nat \ {0}

Certificates == {k \in Keys : k.class = "certificate"}

\* Numbers are zero-padded, so certificates sort as their numbers do, and the keys
\* under the certificate prefix, which is reserved, are together in byte order.  A
\* walk starts at the key of its class with number 0.
ASSUME ByteOrderAssumption ==
  /\ \A class \in {"data", "tombstone", "incarnation", "certificate"} :
       \E k \in Keys : k.class = class /\ k.seq = 0
  /\ \A c, d \in Certificates : c.seq < d.seq => Rank[c] < Rank[d]
  /\ \A c, d \in Certificates : \A k \in Keys :
       c.seq > 0 /\ Rank[c] < Rank[k] /\ Rank[k] < Rank[d] => k \in Certificates

VARIABLES
  present,   \* the objects of the namespace
  pc,        \* the request the caller is about to send
  op,        \* the call it is in
  bound,     \* propose_trim, delete_below: first_retained
  at,        \* the rank a walk has come to
  best,      \* trim_floor: the largest certificate met; 0 for none
  pending,   \* delete_below: keys to delete; the batched deletes: the input
  labels,    \* the batched deletes: outcomes so far
  answer,    \* what a call returns in this very step
  began,     \* history: the floor when the call, or its last floor walk, began
  gone       \* history: keys absent at some moment of the call

vars == <<present, pc, op, bound, at, best, pending, labels, answer, began, gone>>

-----------------------------------------------------------------------------
\* What the certificates say: the largest, or 0 when there is none.
Floor ==
  LET seqs == {k.seq : k \in present \cap Certificates}
  IN IF seqs = {} THEN 0 ELSE CHOOSE s \in seqs : \A t \in seqs : t <= s

\* list_after: the first keys past a rank, in order.
Page(from) ==
  LET after == {k \in present : Rank[k] > from}
  IN {k \in after : Cardinality({j \in after : Rank[j] < Rank[k]}) < PageSize}

\* The keys of a page before the first that a walk does not go past.
Before(page, passes(_)) ==
  {k \in page : \A j \in page : Rank[j] <= Rank[k] => passes(j)}

EndOf(page) == CHOOSE r \in {Rank[k] : k \in page} : \A k \in page : Rank[k] <= r

\* The rank that the walk of a class starts after: its key with number 0.
StartOf(class) == CHOOSE r \in 1..Len(Order) :
                    Order[r].class = class /\ Order[r].seq = 0

\* ensure_not_reserved_key.
Reserved(k) == k.class \in {"tombstone", "incarnation", "certificate"}

Init ==
  /\ present = {}
  /\ pc = "idle" /\ op = "none"
  /\ bound = 0 /\ at = 0 /\ best = 0
  /\ pending = <<>> /\ labels = <<>>
  /\ answer = [kind |-> "none"]
  /\ began = 0 /\ gone = {}

Quiet == answer' = [kind |-> "none"]

Goto(p) == pc' = p /\ Quiet

\* The call returns.
Answer(a) ==
  /\ pc' = "idle" /\ op' = "none"
  /\ bound' = 0 /\ at' = 0 /\ best' = 0
  /\ pending' = <<>> /\ labels' = <<>>
  /\ began' = 0 /\ gone' = {}
  /\ answer' = a

-----------------------------------------------------------------------------
(* trim_floor, propose_trim and delete_below.                              *)

\* A walk over the certificates begins.
WalkCertificates ==
  /\ at' = StartOf("certificate") /\ best' = 0 /\ began' = Floor
  /\ Goto("floor")

TrimFloor ==
  /\ pc = "idle"
  /\ op' = "floor"
  /\ WalkCertificates
  /\ UNCHANGED <<present, bound, pending, labels, gone>>

ProposeTrim(f) ==
  /\ pc = "idle"
  /\ op' = "propose" /\ bound' = f
  /\ WalkCertificates
  /\ UNCHANGED <<present, pending, labels, gone>>

DeleteBelow(f) ==
  /\ pc = "idle"
  /\ op' = "below" /\ bound' = f
  /\ WalkCertificates
  /\ UNCHANGED <<present, pending, labels, gone>>

\* The floor is read: it is the answer, or what the call goes on with.
FloorRead(floor) ==
  LET told == [kind |-> "floor", floor |-> floor, began |-> began]
  IN \/ op \in {"floor", "proposed"} /\ Answer(told)
     \/ op = "propose" /\ floor # 0 /\ bound <= floor /\ Answer(told)
     \/ op = "below" /\ bound > floor /\ Answer(told)
     \/ /\ op = "propose" /\ (floor = 0 \/ bound > floor)
        /\ at' = 0 /\ best' = 0
        /\ Goto("certify")
        /\ UNCHANGED <<op, bound, pending, labels, began, gone>>
     \/ /\ op = "below" /\ bound <= floor
        /\ at' = StartOf("data") /\ best' = 0
        /\ Goto("data")
        /\ UNCHANGED <<op, bound, pending, labels, began, gone>>

\* Mutant: the walk ends at the first key that is no certificate.
PassedOnlyCertificates(k) == k.class = "certificate"

\* What the walk over certificates goes past: certificates, and the keys that sort
\* between its start and the first of them.
Passed(k) ==
  \/ k.class = "certificate"
  \/ \A c \in Certificates : c.seq > 0 => Rank[k] < Rank[c]

\* One page of the walk.  It ends at a key past the certificates or a short page.
FloorPage ==
  LET page  == Page(at)
      taken == Before(page, Passed)
      seqs  == {best} \cup {k.seq : k \in taken \cap Certificates}
      most  == CHOOSE s \in seqs : \A t \in seqs : t <= s
  IN /\ pc = "floor"
     /\ \/ /\ taken # page \/ Cardinality(page) < PageSize
           /\ FloorRead(most)
        \/ /\ taken = page /\ Cardinality(page) = PageSize
           /\ at' = EndOf(page) /\ best' = most
           /\ Goto("floor")
           /\ UNCHANGED <<op, bound, pending, labels, began, gone>>
     /\ UNCHANGED present

\* The certificate is created, or is there; then the floor is read again.  A
\* failure ends the call, with or without the certificate.
Certify ==
  LET cert == CHOOSE k \in Certificates : k.seq = bound
  IN /\ pc = "certify"
     /\ \/ /\ present' = present \cup {cert}
           /\ at' = StartOf("certificate") /\ best' = 0 /\ op' = "proposed"
           /\ began' = IF Floor >= bound THEN Floor ELSE bound
           /\ Goto("floor")
           /\ UNCHANGED <<bound, pending, labels, gone>>
        \/ /\ present' \in {present, present \cup {cert}}
           /\ Answer([kind |-> "unavailable"])

After(class) ==
  CASE class = "data" -> "tombstone" [] class = "tombstone" -> "incarnation"
    [] class = "incarnation" -> "sweep"

\* Mutant: the first retained number is swept with the others.
SweepableToo(k, class) == k.class = class /\ k.seq <= bound

\* What a walk of delete_below collects and goes past.
Sweepable(k, class) == k.class = class /\ k.seq < bound

\* The keys of a set, each once, in byte order.
Listings(S) ==
  {s \in [1..Cardinality(S) -> S] : \A i, j \in DOMAIN s : i < j => Rank[s[i]] < Rank[s[j]]}

\* One page of the walk over the data keys, the tombstones or the incarnation
\* counters below the bound.  It ends at the first key past them.
SweepPage ==
  \E class \in {"data", "tombstone", "incarnation"} :
    LET page  == Page(at)
        taken == Before(page, LAMBDA k : Sweepable(k, class))
    IN /\ pc = class
       /\ \E sorted \in Listings({k \in taken : k.seq # 0}) : pending' = pending \o sorted
       /\ \/ /\ taken = page /\ page # {}
             /\ at' = EndOf(page)
             /\ Goto(class)
          \/ /\ taken # page \/ page = {}
             /\ at' = IF class = "incarnation" THEN 0 ELSE StartOf(After(class))
             /\ Goto(After(class))
       /\ UNCHANGED <<present, op, bound, best, labels, began, gone>>

\* One delete of the sweep; one that fails may have taken effect, and the sweep
\* goes on.
Sweep ==
  /\ pc = "sweep"
  /\ \/ pending = <<>> /\ Answer([kind |-> "swept"]) /\ UNCHANGED present
     \/ /\ pending # <<>>
        /\ present' \in {present, present \ {Head(pending)}}
        /\ pending' = Tail(pending)
        /\ Goto("sweep")
        /\ UNCHANGED <<op, bound, at, best, labels, began, gone>>

-----------------------------------------------------------------------------
(* delete_many and delete_objects.                                         *)

\* A key that is absent now counts as gone for whoever asks in this call.
Witness(now) == gone \cup (ToSet(pending) \ now)

Admits(keys) ==
  Len(keys) <= MaxInput /\ \A i \in 1..Len(keys) : ~ Reserved(keys[i])

Admitted(keys, p) ==
  /\ op' = p /\ pending' = keys
  /\ gone' = ToSet(keys) \ present
  /\ Goto(p)
  /\ UNCHANGED <<present, bound, at, best, labels, began>>

\* Admission looks at all of the input before the first effect.
DeleteMany(keys) ==
  /\ pc = "idle"
  /\ Admits(keys)
  /\ Admitted(keys, "many")

\* Duplicates are refused too: a response could not be told apart.
DeleteObjects(keys) ==
  /\ pc = "idle"
  /\ Admits(keys) /\ IsInjective(keys)
  /\ Admitted(keys, "objects")

Told(outcomes) ==
  [kind |-> "outcomes", keys |-> pending, outcomes |-> outcomes, gone |-> gone]

\* delete_many: one key after the other; one that fails is not confirmed.
DeleteOne ==
  LET key == pending[Len(labels) + 1]
  IN /\ pc = "many"
     /\ \/ /\ Len(labels) = Len(pending)
           /\ Answer(Told(labels))
           /\ UNCHANGED present
        \/ /\ Len(labels) < Len(pending)
           /\ \/ present' = present \ {key} /\ labels' = Append(labels, "Ok")
              \/ present' \in {present, present \ {key}} /\ labels' = Append(labels, "NotDeleted")
           /\ gone' = Witness(present')
           /\ Goto("many")
           /\ UNCHANGED <<op, bound, at, best, pending, began>>

\* Mutant: a key that the response leaves out counts as deleted.
ReconcileOmitting(paths, deleted, errors) ==
  IF ToSet(errors) \subseteq ToSet(paths)
  THEN [i \in 1..Len(paths) |-> IF paths[i] \in ToSet(errors) THEN "Rejected" ELSE "Ok"]
  ELSE <<>>

\* reconcile_delete_objects: one outcome per path if the response has exactly one
\* member for each, and otherwise none at all.
Reconcile(paths, deleted, errors) ==
  IF /\ IsInjective(deleted \o errors)
     /\ ToSet(deleted \o errors) = ToSet(paths)
  THEN [i \in 1..Len(paths) |-> IF paths[i] \in ToSet(errors) THEN "Rejected" ELSE "Ok"]
  ELSE <<>>

\* Labels for a chunk without a trustworthy response, and for the tail behind it.
Stopped(chunk, label, tail) ==
  labels \o [i \in 1..Len(pending) - Len(labels) |-> IF i <= Len(chunk) THEN label ELSE tail]

\* One DeleteObjects operation.  Whatever it answers, the store has deleted the
\* keys that it says are deleted; of the others it may have deleted any, unless it
\* refuses the operation.  A request that fails is as good as a response that cannot be
\* reconciled.
DeleteChunk ==
  LET chunk == IF Len(labels) + MaxKeys < Len(pending)
               THEN SubSeq(pending, Len(labels) + 1, Len(labels) + MaxKeys)
               ELSE SubSeq(pending, Len(labels) + 1, Len(pending))
      responses == UNION {[1..n -> ToSet(chunk) \cup {Foreign}] : n \in 0..Len(chunk)}
  IN /\ pc = "objects"
     /\ \/ /\ Len(labels) = Len(pending)
           /\ Answer(Told(labels))
           /\ UNCHANGED present
        \/ /\ Len(labels) < Len(pending)
           /\ Answer(Told(Stopped(chunk, "Unsupported", "Unsupported")))
           /\ UNCHANGED present
        \/ /\ Len(labels) < Len(pending)
           /\ \E removed \in SUBSET ToSet(chunk) :
                LET says == {r \in responses \X responses :
                               ToSet(r[1]) \subseteq removed \cup {Foreign}}
                IN \E outcomes \in {Reconcile(chunk, r[1], r[2]) : r \in says} :
                     /\ present' = present \ removed
                     /\ \/ /\ outcomes = <<>>
                           /\ Answer(Told(Stopped(chunk, "Unconfirmed", "NotAttempted")))
                        \/ /\ outcomes # <<>>
                           /\ labels' = labels \o outcomes
                           /\ gone' = Witness(present')
                           /\ Goto("objects")
                           /\ UNCHANGED <<op, bound, at, best, pending, began>>

-----------------------------------------------------------------------------
(* The other callers.                                                      *)

Elsewhere(now) ==
  /\ present' = now
  /\ gone' = Witness(now)
  /\ Quiet
  /\ UNCHANGED <<pc, op, bound, at, best, pending, labels, began>>

CreateElsewhere(k) == ~ Reserved(k) /\ k \notin present /\ Elsewhere(present \cup {k})

DeleteElsewhere(k) == ~ Reserved(k) /\ k \in present /\ Elsewhere(present \ {k})

\* A destruction leaves a tombstone and an incarnation counter.
DestroyElsewhere(k) ==
  /\ k.class = "data" /\ k \in present
  /\ Elsewhere({j \in present : j # k} \cup
               {j \in Keys : j.class \in {"tombstone", "incarnation"} /\ j.seq = k.seq})

\* A certificate that its proposer found above the floor, perhaps long ago.
CertifyElsewhere(k) == k.class = "certificate" /\ k \notin present /\ Elsewhere(present \cup {k})

Next ==
  \/ TrimFloor \/ FloorPage \/ Certify \/ SweepPage \/ Sweep \/ DeleteOne \/ DeleteChunk
  \/ \E c \in Certificates : c.seq > 0 /\ (ProposeTrim(c.seq) \/ DeleteBelow(c.seq))
  \/ \E n \in 0..MaxInput : \E keys \in [1..n -> Asked] : DeleteMany(keys) \/ DeleteObjects(keys)
  \/ \E k \in Keys : k.seq > 0 /\ (CreateElsewhere(k) \/ DeleteElsewhere(k) \/ DestroyElsewhere(k)
                                   \/ CertifyElsewhere(k))

Spec == Init /\ [][Next]_vars

-----------------------------------------------------------------------------
\* A floor that is read is not below the one that was certified when the walk for
\* it began, although it reads page after page while certificates and other keys
\* come and go; and a proposal that returns has become the floor, or a higher one.
FloorIsCurrent == answer.kind = "floor" => answer.floor >= answer.began

\* A sweep deletes only what its certificate covers: data, and the tombstones and
\* incarnation counters that go with it, with a number from 1 to below the floor.
SweepsOnlyExpired ==
  [][pc = "sweep" /\ pending' # pending =>
       \A k \in present \ present' :
         k.class \in {"data", "tombstone", "incarnation"} /\ k.seq \in 1..Floor - 1]_vars

\* A batched delete has an outcome for every key it was given, and a key that it
\* confirms was absent at some moment of the call, whatever the store answers.
OutcomesAreTrue ==
  answer.kind = "outcomes" =>
    /\ Len(answer.outcomes) = Len(answer.keys)
    /\ \A i \in 1..Len(answer.keys) :
         answer.outcomes[i] = "Ok" => answer.keys[i] \in answer.gone
=============================================================================
