------------------------ MODULE StreamCallers_proofs ------------------------
(***************************************************************************)
(* Proofs about the two modules that compose a caller with the steps of    *)
(* StreamStore: ConditionalAppend, for any clients, configurations, events *)
(* and damage, and StreamReads, for any events, histories to migrate,      *)
(* writers and page limits; both for any number of sequence numbers.       *)
(***************************************************************************)
EXTENDS ConditionalAppend, StreamReads, StreamStore_proofs

-----------------------------------------------------------------------------
(* Conditional appends: the inductive invariant.                           *)

\* Client c is in append_expected, past its admission.
Running(c) == pc[c] \notin {"idle", "cIncumbent"}

\* The predecessor of client c's call is there as it was named, or a floor has
\* passed it.
Matched(c) ==
  \/ pred[c].seq = 0 /\ genesis = pred[c].payload
  \/ pred[c].seq > 0 /\ pred[c].seq < floor
  \/ /\ pred[c].seq > 0 /\ log[pred[c].seq] # None
     /\ Ref(pred[c].seq, log[pred[c].seq]) = pred[c]

\* What client c's call knows of the store and of what it has done itself.
CallOK(c) ==
  /\ pc[c] = "cIncumbent" => pred[c].payload \in Configs
  /\ Running(c) => pred[c] \in Refs /\ event[c] \in Events /\ Target(c) \in Seqs
  /\ pc[c] \in {"aTarget", "aFloor"} => seen[c] = genesis /\ genesis # None
  /\ pc[c] = "aPredecessor" => pred[c].seq # 0
  /\ pc[c] \in {"aProbe", "aBefore", "aCreate"} => Matched(c)
  /\ pc[c] \notin {"aReadback", "aCommitted", "aUnresolved"} => ~ wrote[c]
  /\ Running(c) /\ log[Target(c)] = event[c] => held[c]
  /\ pc[c] = "aCommitted" =>
       held[c] /\ (floor <= Target(c) => log[Target(c)] = event[c])

\* A number that ever had an event is not past the end, and an event at or above
\* the floor is the first its number had.
FirstOK ==
  \A s \in Seqs : /\ first[s] # None => s <= End
                  /\ floor <= s /\ log[s] # None => first[s] = log[s]

CondInv ==
  /\ TypeOK
  /\ Gapless
  /\ FirstOK
  /\ OneConfiguration
  /\ \A c \in Clients : CallOK(c)

LEMMA RefFields ==
  ASSUME NEW r \in Refs
  PROVE  r.seq \in 0..MaxSeq /\ (r.seq = 0 => \E cfg \in Configs : r = GenesisRef(cfg))
  <1>1. ASSUME NEW s \in Seqs, NEW e \in Events, r = Ref(s, e) PROVE r.seq \in 1..MaxSeq
    BY <1>1 DEF Ref, Seqs
  <1>2. ASSUME NEW cfg \in Configs, r = GenesisRef(cfg) PROVE r.seq = 0
    BY <1>2 DEF GenesisRef
  <1>3. QED
    BY <1>1, <1>2, StoreAssumption DEF Refs

\* What a GET that shows an event or a configuration says of the store.
LEMMA GotFacts ==
  ASSUME TypeOK, NEW s \in Seqs \cup {0}
  PROVE  /\ Got(s) # Damaged => s \notin damaged
         /\ Got(s) # Damaged => Got(s) = IF s = 0 THEN genesis ELSE log[s]
         /\ Got(s) \in Events \cup Configs \cup {Damaged, None}
         /\ s # 0 => s \in Seqs /\ Got(s) \in Events \cup {Damaged, None}
  BY StoreAssumption, ConditionalAssumption DEF Got, TypeOK

\* The end of the log.
LEMMA EndFacts ==
  ASSUME TypeOK
  PROVE  /\ StoreType
         /\ End \in 0..MaxSeq
         /\ floor <= End + 1
         /\ \A s \in Seqs : log[s] # None => s <= End
  <1>1. StoreType
    BY DEF TypeOK, StoreType
  <1>2. QED
    BY <1>1, EndIsEnd DEF IsEnd, Landed

LEMMA InitCond == Init => CondInv
  <1> SUFFICES ASSUME Init PROVE CondInv
    OBVIOUS
  <1>1. TypeOK
    BY StoreAssumption DEF Init, StoreInit, TypeOK, NoAnswer, PCs, Landed
  <1>2. Gapless
    BY StoreInitInv DEF Init, StoreInv
  <1>3. FirstOK
    BY DEF Init, StoreInit, FirstOK
  <1>4. \A c \in Clients : CallOK(c)
    BY DEF Init, CallOK, Running
  <1>5. QED
    BY <1>1, <1>2, <1>3, <1>4 DEF CondInv, OneConfiguration, Init

-----------------------------------------------------------------------------
(* Every step, as the store sees it.                                       *)

\* A step of client c, by action.
Steps(c) ==
  \/ \E cfg \in Configs : CreateStreamWithId(c, cfg)
  \/ \E r \in Refs, e \in Events : AppendExpected(c, r, e)
  \/ GenesisIncumbent(c)
  \/ TargetGet(c) \/ Occupied(c) \/ FloorFirst(c)
  \/ VerifyPredecessor(c) \/ FloorReread(c) \/ ProbeLater(c) \/ LaterWitness(c)
  \/ FloorBefore(c) \/ TargetCreate(c) \/ Readback(c)
  \/ AdjudicateCommitted(c) \/ AdjudicateUnresolved(c)
  \/ Unavailable(c) \/ Abort(c)

LEMMA NextSteps ==
  Next => \/ \E c \in Clients : Steps(c)
          \/ Elsewhere
          \/ \E s \in Seqs \cup {0} : Damage(s)
  BY DEF Next, Call, CallStep, Steps

\* What a step does to the log, the floor and the history of first events.
StoreChange ==
  \/ UNCHANGED <<log, floor, first>>
  \/ \E s \in Seqs : (Certify(s) \/ Sweep(s)) /\ UNCHANGED first
  \/ \E s \in Seqs, e \in Events : Land(s, e) /\ Record(s, e)

\* A verified predecessor is not past the end, so the number after it is at most
\* the next one.
LEMMA MatchedBound ==
  ASSUME TypeOK, NEW c \in Clients, pred[c] \in Refs, Matched(c)
  PROVE  pred[c].seq <= End
  <1>1. /\ pred[c].seq \in 0..MaxSeq /\ End \in 0..MaxSeq /\ floor \in 0..MaxSeq
        /\ floor <= End + 1 /\ \A s \in Seqs : log[s] # None => s <= End
        /\ MaxSeq \in Nat \ {0}
    BY RefFields, EndFacts, StoreAssumption DEF TypeOK
  <1>2. QED
    BY <1>1 DEF Matched, Seqs

LEMMA NextChanges ==
  ASSUME CondInv, Next
  PROVE  StoreChange
  <1>0. TypeOK /\ StoreInv
    BY EndFacts DEF CondInv, StoreInv
  <1>1. ASSUME NEW c \in Clients, TargetCreate(c) PROVE StoreChange
    <2>1. /\ pred[c] \in Refs /\ event[c] \in Events /\ Target(c) \in Seqs /\ Matched(c)
          /\ floor' = floor
      BY <1>1 DEF CondInv, CallOK, Running, TargetCreate
    <2>2. CASE UNCHANGED <<log, first>>
      BY <2>1, <2>2 DEF StoreChange
    <2>3. CASE /\ log[Target(c)] = None
               /\ log' = [log EXCEPT ![Target(c)] = event[c]]
               /\ Record(Target(c), event[c])
      <3>1. Target(c) <= End + 1
        <4>1. pred[c].seq \in 0..MaxSeq /\ pred[c].seq <= End /\ End \in 0..MaxSeq
          BY <1>0, <2>1, MatchedBound, RefFields, EndFacts
        <4>2. QED
          BY <4>1, StoreAssumption DEF Target
      <3>2. Target(c) = End + 1 \/ Target(c) < floor
        BY <1>0, <2>1, <2>3, <3>1, FreeNumber
      <3>3. Land(Target(c), event[c])
        BY <2>1, <2>3, <3>2 DEF Land
      <3>4. QED
        BY <2>1, <2>3, <3>3 DEF StoreChange
    <2>4. QED
      BY <1>1, <2>2, <2>3 DEF TargetCreate
  <1>2. ASSUME NEW c \in Clients, Steps(c), ~ TargetCreate(c) PROVE StoreChange
    <2>1. UNCHANGED <<log, floor, first>>
      BY <1>2 DEF Steps, store, History, CreateStreamWithId, AppendExpected, GenesisIncumbent,
         TargetGet, Occupied, FloorFirst, VerifyPredecessor, FloorReread, ProbeLater,
         LaterWitness, FloorBefore, Readback, AdjudicateCommitted, AdjudicateUnresolved,
         Unavailable, Abort
    <2>2. QED
      BY <2>1 DEF StoreChange
  <1>3. CASE Elsewhere
    BY <1>3 DEF Elsewhere, StoreChange
  <1>4. ASSUME NEW s \in Seqs \cup {0}, Damage(s) PROVE StoreChange
    BY <1>4 DEF Damage, History, StoreChange
  <1>5. QED
    BY <1>1, <1>2, <1>3, <1>4, NextSteps

\* The log keeps to StreamStore, and a first event stays the first.
LEMMA NextKeeps ==
  ASSUME CondInv, StoreChange
  PROVE  /\ StoreType' /\ Gapless' /\ FirstOK'
         /\ End \in 0..MaxSeq /\ End' \in 0..MaxSeq /\ End <= End'
         /\ floor \in 0..MaxSeq /\ floor' \in 0..MaxSeq /\ floor <= floor'
         /\ \A s \in Seqs : log[s] # None /\ floor' <= s => log'[s] = log[s]
         /\ StoreNext \/ UNCHANGED <<log, floor>>
  <1>0. /\ TypeOK /\ StoreInv /\ FirstOK /\ End \in 0..MaxSeq /\ floor \in 0..MaxSeq
        /\ MaxSeq \in Nat \ {0} /\ None \notin Events
        /\ \A s \in Seqs : log[s] # None => s <= End
        /\ \A s \in Seqs : s \in Int
    BY EndFacts, StoreAssumption DEF CondInv, StoreInv, TypeOK, Seqs
  <1>1. CASE UNCHANGED <<log, floor, first>>
    <2>1. StoreType' /\ Gapless' /\ FirstOK' /\ End' = End
      BY <1>0, <1>1 DEF StoreInv, StoreType, Gapless, FirstOK, End, Landed
    <2>2. QED
      BY <1>0, <1>1, <2>1
  <1>2. CASE StoreNext
    <2>1. StoreInv' /\ End <= End' /\ StoreType' /\ Gapless'
      BY <1>0, <1>2, StoreStep DEF StoreInv
    <2>2. End' \in 0..MaxSeq
      <3>1. (StoreType => IsEnd(End))'
        BY EndIsEnd, PTL
      <3>2. QED
        BY <2>1, <3>1 DEF IsEnd
    <2>3. /\ floor <= floor' /\ floor' \in 0..MaxSeq
          /\ \A s \in Seqs : log[s] # None /\ floor' <= s => log'[s] = log[s]
      BY <1>0, <1>2, <2>1, StoreKeeps DEF StoreType
    <2>4. FirstOK'
      <3>1. CASE UNCHANGED first /\ \E s \in Seqs : Certify(s) \/ Sweep(s)
        <4>1. \A s \in Seqs : log'[s] # None => log[s] # None
          BY <1>0, <3>1 DEF Certify, Sweep, TypeOK
        <4>2. ASSUME NEW s \in Seqs, floor' <= s, log'[s] # None PROVE first'[s] = log'[s]
          <5>1. log[s] # None /\ log'[s] = log[s] /\ floor <= s
            BY <1>0, <2>3, <4>1, <4>2
          <5>2. QED
            BY <1>0, <3>1, <5>1 DEF FirstOK
        <4>3. ASSUME NEW s \in Seqs, first'[s] # None PROVE s <= End'
          BY <1>0, <2>1, <2>2, <3>1, <4>3 DEF FirstOK
        <4>4. QED
          BY <4>2, <4>3 DEF FirstOK
      <3>2. ASSUME NEW s \in Seqs, NEW e \in Events, Land(s, e), Record(s, e)
            PROVE  FirstOK'
        <4>1. /\ log[s] = None /\ (s = End + 1 \/ s < floor) /\ floor' = floor
              /\ log' = [log EXCEPT ![s] = e]
              /\ first' = [first EXCEPT ![s] = IF @ = None THEN e ELSE @]
          BY <3>2 DEF Land, Record
        <4>2. log'[s] = e /\ e # None
          BY <1>0, <3>2, <4>1 DEF TypeOK
        <4>3. s <= End'
          <5>1. (StoreType => IsEnd(End))'
            BY EndIsEnd, PTL
          <5>2. s \in Landed'
            BY <4>2 DEF Landed
          <5>3. QED
            BY <2>1, <5>1, <5>2 DEF IsEnd
        <4>4. ASSUME NEW t \in Seqs, first'[t] # None PROVE t <= End'
          <5>1. CASE t = s
            BY <4>3, <5>1
          <5>2. CASE t # s
            BY <1>0, <2>1, <2>2, <4>1, <4>4, <5>2 DEF FirstOK, TypeOK
          <5>3. QED
            BY <5>1, <5>2
        <4>5. ASSUME NEW t \in Seqs, floor' <= t, log'[t] # None PROVE first'[t] = log'[t]
          <5>1. CASE t = s
            <6>1. s = End + 1 /\ first[s] = None
              BY <1>0, <4>1, <4>5, <5>1 DEF FirstOK
            <6>2. QED
              BY <1>0, <4>1, <4>2, <5>1, <6>1 DEF TypeOK
          <5>2. CASE t # s
            BY <1>0, <4>1, <4>5, <5>2 DEF FirstOK, TypeOK
          <5>3. QED
            BY <5>1, <5>2
        <4>6. QED
          BY <4>4, <4>5 DEF FirstOK
      <3>3. CASE UNCHANGED <<log, floor, first>>
        BY <1>1, <3>3
      <3>4. QED
        BY <3>1, <3>2, <3>3 DEF StoreChange
    <2>5. QED
      BY <1>0, <1>2, <2>1, <2>2, <2>3, <2>4
  <1>3. QED
    BY <1>1, <1>2 DEF StoreChange, StoreNext

\* The genesis is written once.
LEMMA GenesisStays ==
  ASSUME CondInv, Next, genesis # None
  PROVE  genesis' = genesis
  BY NextSteps DEF Steps, store, History, CreateStreamWithId, AppendExpected,
     GenesisIncumbent, TargetGet, Occupied, FloorFirst, VerifyPredecessor, FloorReread,
     ProbeLater, LaterWitness, FloorBefore, TargetCreate, Readback, AdjudicateCommitted,
     AdjudicateUnresolved, Unavailable, Abort, Elsewhere, Damage

-----------------------------------------------------------------------------
(* The clients.                                                            *)

\* The locals of client d.
Private(d) == <<pc[d], pred[d], event[d], seen[d], later[d], wrote[d]>>

\* A client that does not step keeps its locals, and what its history says.
LEMMA OthersAreApart ==
  ASSUME TypeOK, Next, NEW d \in Clients, ~ Steps(d)
  PROVE  Private(d)' = Private(d) /\ (held[d] => held'[d])
  <1>1. ASSUME NEW c \in Clients, c # d, Steps(c)
        PROVE  Private(d)' = Private(d) /\ (held[d] => held'[d])
    <2> USE DEF TypeOK, Private, Goto, Keep, Record, Answer, Opened
    <2>1. CASE \E cfg \in Configs : CreateStreamWithId(c, cfg)
      BY <1>1, <2>1 DEF CreateStreamWithId
    <2>2. CASE \E r \in Refs, e \in Events : AppendExpected(c, r, e)
      BY <1>1, <2>2 DEF AppendExpected
    <2>3. CASE GenesisIncumbent(c) \/ Occupied(c) \/ FloorReread(c) \/ LaterWitness(c)
               \/ AdjudicateCommitted(c) \/ AdjudicateUnresolved(c) \/ Unavailable(c)
               \/ Abort(c)
      BY <1>1, <2>3 DEF GenesisIncumbent, Occupied, FloorReread, LaterWitness,
         AdjudicateCommitted, AdjudicateUnresolved, Unavailable, Abort
    <2>4. CASE TargetGet(c) \/ Readback(c)
      BY <1>1, <2>4 DEF TargetGet, Readback
    <2>5. CASE FloorFirst(c)
      BY <1>1, <2>5 DEF FloorFirst
    <2>6. CASE VerifyPredecessor(c)
      BY <1>1, <2>6 DEF VerifyPredecessor
    <2>7. CASE ProbeLater(c) \/ FloorBefore(c)
      BY <1>1, <2>7 DEF ProbeLater, FloorBefore
    <2>8. CASE TargetCreate(c)
      BY <1>1, <2>8 DEF TargetCreate
    <2>9. QED
      BY <1>1, <2>1, <2>2, <2>3, <2>4, <2>5, <2>6, <2>7, <2>8 DEF Steps
  <1>2. CASE Elsewhere \/ \E s \in Seqs \cup {0} : Damage(s)
    BY <1>2 DEF Elsewhere, Damage, locals, Private, Record, TypeOK
  <1>3. QED
    BY <1>1, <1>2, NextSteps

\* An event that has come to a number in this step is in the histories of the calls
\* that wait for it.
LEMMA HeldIsKept ==
  ASSUME CondInv, StoreChange, NEW d \in Clients, Running(d), UNCHANGED <<pred[d], event[d]>>,
         held[d] => held'[d], log'[Target(d)] = event[d]
  PROVE  held'[d]
  <1>0. /\ TypeOK /\ CallOK(d) /\ Target(d) \in Seqs /\ event[d] \in Events
        /\ None \notin Events
    BY StoreAssumption DEF CondInv, CallOK
  <1>1. CASE log[Target(d)] = event[d]
    BY <1>0, <1>1 DEF CallOK
  <1>2. CASE log[Target(d)] # event[d]
    <2>1. PICK s \in Seqs, e \in Events : Land(s, e) /\ Record(s, e)
      <3>1. ~ \E s \in Seqs : Certify(s) \/ Sweep(s)
        BY <1>0, <1>2 DEF Certify, Sweep, TypeOK
      <3>2. QED
        BY <1>2, <3>1 DEF StoreChange
    <2>2. s = Target(d) /\ e = event[d]
      BY <1>0, <1>2, <2>1 DEF Land, TypeOK
    <2>3. QED
      BY <2>1, <2>2 DEF Record, Running, Own
  <1>3. QED
    BY <1>1, <1>2

\* What the others know of the store stays so.
LEMMA OthersKnow ==
  ASSUME CondInv, Next, NEW d \in Clients, Private(d)' = Private(d), held[d] => held'[d]
  PROVE  CallOK(d)'
  <1>0. /\ TypeOK /\ CallOK(d) /\ StoreChange /\ MaxSeq \in Nat \ {0} /\ None \notin Events
    BY NextChanges, StoreAssumption DEF CondInv
  <1>1. /\ pc'[d] = pc[d] /\ pred'[d] = pred[d] /\ event'[d] = event[d] /\ seen'[d] = seen[d]
        /\ wrote'[d] = wrote[d] /\ Target(d)' = Target(d) /\ Running(d)' = Running(d)
    BY DEF Private, Target, Running
  <1>2. /\ floor \in 0..MaxSeq /\ floor' \in 0..MaxSeq /\ floor <= floor'
        /\ \A s \in Seqs : log[s] # None /\ floor' <= s => log'[s] = log[s]
    BY <1>0, NextKeeps
  <1>3. ASSUME Running(d), Matched(d) PROVE Matched(d)'
    <2>1. pred[d].seq \in 0..MaxSeq /\ pred[d].seq \in Int
      BY <1>0, <1>3, RefFields DEF CallOK
    <2>2. CASE pred[d].seq = 0 /\ genesis = pred[d].payload
      <3>1. genesis # None
        <4>1. pred[d].payload \in Configs
          BY <1>0, <1>3, <2>2, RefFields DEF CallOK, GenesisRef
        <4>2. QED
          BY <2>2, <4>1, ConditionalAssumption
      <3>2. QED
        BY <1>1, <2>2, <3>1, GenesisStays DEF Matched
    <2>3. CASE pred[d].seq > 0 /\ pred[d].seq < floor
      BY <1>0, <1>1, <1>2, <2>1, <2>3 DEF Matched
    <2>4. CASE /\ pred[d].seq > 0 /\ log[pred[d].seq] # None
               /\ Ref(pred[d].seq, log[pred[d].seq]) = pred[d]
      <3>1. pred[d].seq < floor' \/ log'[pred[d].seq] = log[pred[d].seq]
        BY <1>0, <1>2, <2>1, <2>4 DEF Seqs
      <3>2. QED
        BY <1>1, <2>4, <3>1 DEF Matched
    <2>5. QED
      BY <1>3, <2>2, <2>3, <2>4 DEF Matched
  <1>4. ASSUME Running(d), log'[Target(d)] = event[d] PROVE held'[d]
    BY <1>0, <1>1, <1>4, HeldIsKept
  <1>5. ASSUME pc[d] = "aCommitted", floor' <= Target(d)
        PROVE  log'[Target(d)] = event[d]
    <2>1. Target(d) \in Seqs /\ event[d] # None /\ floor <= Target(d)
      BY <1>0, <1>2, <1>5 DEF CallOK, Running, Seqs
    <2>2. QED
      BY <1>0, <1>2, <1>5, <2>1 DEF CallOK
  <1>6. pc[d] \in {"aTarget", "aFloor"} => seen[d] = genesis' /\ genesis' # None
    BY <1>0, GenesisStays DEF CallOK
  <1>7. pc[d] \in {"aProbe", "aBefore", "aCreate"} => Matched(d)'
    BY <1>0, <1>3 DEF CallOK, Running
  <1>8. QED
    BY <1>0, <1>1, <1>4, <1>5, <1>6, <1>7 DEF CallOK, Running

\* The types of what belongs to the clients.
ClientType ==
  /\ pc \in [Clients -> PCs]
  /\ pred \in [Clients -> Refs \cup {None}]
  /\ event \in [Clients -> Events \cup {None}]
  /\ seen \in [Clients -> Events \cup Configs \cup {Damaged, None}]
  /\ later \in [Clients -> 0..MaxSeq]
  /\ wrote \in [Clients -> BOOLEAN]
  /\ held \in [Clients -> BOOLEAN]
  /\ answer \in [kind : Kinds \cup {None}, effect : Effects \cup {None}, wrote : BOOLEAN,
                 held : BOOLEAN]

\* A call that has answered is over.
LEMMA Answered ==
  ASSUME ClientType, NEW c \in Clients, NEW k \in Kinds \cup {None},
         NEW e \in Effects \cup {None}, Answer(c, k, e)
  PROVE  CallOK(c)' /\ ClientType'
  <1>1. pc'[c] = "idle" /\ wrote'[c] = FALSE
    BY DEF Answer, ClientType
  <1>2. CallOK(c)'
    BY <1>1 DEF CallOK, Running
  <1>3. /\ pc' \in [Clients -> PCs] /\ pred' \in [Clients -> Refs \cup {None}]
        /\ event' \in [Clients -> Events \cup {None}]
        /\ seen' \in [Clients -> Events \cup Configs \cup {Damaged, None}]
    BY DEF Answer, ClientType, PCs
  <1>4. later' \in [Clients -> 0..MaxSeq]
    BY StoreAssumption DEF Answer, ClientType
  <1>5. wrote' \in [Clients -> BOOLEAN] /\ held' \in [Clients -> BOOLEAN]
    BY DEF Answer, ClientType
  <1>6. answer' \in [kind : Kinds \cup {None}, effect : Effects \cup {None},
                     wrote : BOOLEAN, held : BOOLEAN]
    BY DEF Answer, ClientType
  <1>7. QED
    BY <1>2, <1>3, <1>4, <1>5, <1>6 DEF ClientType

\* A call that goes on to its next request, with the store as it was.
LEMMA Moves ==
  ASSUME CondInv, NEW c \in Clients, Running(c),
         NEW p \in PCs \ {"idle", "cIncumbent"}, Goto(c, p),
         UNCHANGED <<log, floor, genesis, pred, event, wrote, held>>,
         p \in {"aTarget", "aFloor"} => seen'[c] = genesis /\ genesis # None,
         p = "aPredecessor" => pred[c].seq # 0,
         p \in {"aProbe", "aBefore", "aCreate"} => Matched(c),
         p \in {"aReadback", "aCommitted", "aUnresolved"} \/ ~ wrote[c],
         p = "aCommitted" => log[Target(c)] = event[c]
  PROVE  CallOK(c)'
  <1>0. TypeOK /\ CallOK(c) /\ pc'[c] = p
    BY DEF CondInv, Goto, TypeOK
  <1>1. Target(c)' = Target(c) /\ Matched(c)' = Matched(c) /\ Running(c)'
    BY <1>0 DEF Target, Matched, Running
  <1>2. QED
    BY <1>0, <1>1 DEF CallOK

LEMMA GoneOn ==
  ASSUME ClientType, NEW c \in Clients, NEW p \in PCs, Goto(c, p)
  PROVE  /\ pc' \in [Clients -> PCs] /\ pc'[c] = p
         /\ answer' \in [kind : Kinds \cup {None}, effect : Effects \cup {None},
                         wrote : BOOLEAN, held : BOOLEAN]
  BY DEF Goto, ClientType, NoAnswer

\* The client that takes a step knows what it acts on.
LEMMA StepKnows ==
  ASSUME CondInv, Next, NEW c \in Clients, Steps(c)
  PROVE  CallOK(c)' /\ ClientType'
  <1>0. /\ TypeOK /\ CallOK(c) /\ ClientType /\ None \notin Events /\ MaxSeq \in Nat \ {0}
        /\ Damaged \notin Events /\ Damaged \notin Configs /\ Damaged # None
        /\ None \notin Configs
    BY StoreAssumption, ConditionalAssumption DEF CondInv, TypeOK, ClientType
  <1>1. /\ NotAttempted \in Effects /\ PossiblyCommitted \in Effects
        /\ \A o : ClassifyOccupant(c, o) \in Kinds
    BY DEF Effects, ClassifyOccupant, Kinds
  <1>2. Running(c) => /\ pred[c] \in Refs /\ event[c] \in Events /\ Target(c) \in Seqs
                      /\ pred[c].seq \in 0..MaxSeq /\ Own(c) \in Effects
    <2>1. ASSUME Running(c)
          PROVE  pred[c] \in Refs /\ event[c] \in Events /\ Target(c) \in Seqs
      BY <1>0, <2>1 DEF CallOK
    <2>2. QED
      BY <2>1, RefFields DEF Own, Effects, Receipts
  <1>3. CASE \E cfg \in Configs : CreateStreamWithId(c, cfg)
    <2>1. PICK cfg \in Configs : CreateStreamWithId(c, cfg)
      BY <1>3
    <2>2. CASE Opened(c, "Created", cfg)
      BY <1>0, <2>2, Answered DEF Opened, Kinds
    <2>3. CASE /\ pred' = [pred EXCEPT ![c] = GenesisRef(cfg)]
               /\ Goto(c, "cIncumbent")
               /\ UNCHANGED <<event, seen, later, wrote, held, opened>>
      <3>1. GenesisRef(cfg) \in Refs /\ GenesisRef(cfg).payload = cfg
        BY DEF Refs, GenesisRef
      <3>2. ClientType'
        BY <1>0, <2>3, <3>1, GoneOn DEF ClientType, PCs
      <3>3. pc'[c] = "cIncumbent" /\ pred'[c].payload \in Configs /\ ~ wrote'[c]
        BY <1>0, <2>1, <2>3, <3>1 DEF Goto, ClientType, CallOK, CreateStreamWithId
      <3>4. CallOK(c)'
        BY <3>3 DEF CallOK, Running
      <3>5. QED
        BY <3>2, <3>4
    <2>4. QED
      BY <2>1, <2>2, <2>3 DEF CreateStreamWithId
  <1>4. CASE \E r \in Refs, e \in Events : AppendExpected(c, r, e)
    <2>1. PICK r \in Refs, e \in Events : AppendExpected(c, r, e)
      BY <1>4
    <2>2. ASSUME NEW k \in Kinds, Answer(c, k, NotAttempted) PROVE CallOK(c)' /\ ClientType'
      BY <1>0, <1>1, <2>2, Answered
    <2>3. CASE /\ r.seq < MaxSeq /\ Got(0) \notin {None, Damaged}
               /\ seen' = [seen EXCEPT ![c] = Got(0)]
               /\ pred' = [pred EXCEPT ![c] = r]
               /\ event' = [event EXCEPT ![c] = e]
               /\ held' = [held EXCEPT ![c] = log[r.seq + 1] = e]
               /\ Goto(c, "aTarget")
               /\ UNCHANGED <<later, wrote>>
      <3>1. Got(0) = genesis /\ genesis # None
        BY <1>0, <2>3, GotFacts
      <3>2. r.seq + 1 \in Seqs
        BY <1>0, <2>3, RefFields DEF Seqs
      <3>3. /\ seen' \in [Clients -> Events \cup Configs \cup {Damaged, None}]
            /\ pred' \in [Clients -> Refs \cup {None}]
            /\ event' \in [Clients -> Events \cup {None}]
        BY <1>0, <2>3, <3>1 DEF ClientType, TypeOK
      <3>4. held' \in [Clients -> BOOLEAN]
        BY <1>0, <2>3 DEF ClientType
      <3>5. ClientType'
        BY <1>0, <2>3, <3>3, <3>4, GoneOn DEF ClientType, PCs
      <3>6. /\ pc'[c] = "aTarget" /\ pred'[c] = r /\ event'[c] = e /\ seen'[c] = genesis
            /\ Target(c)' = r.seq + 1 /\ ~ wrote'[c] /\ genesis' = genesis /\ log' = log
        BY <1>0, <2>1, <2>3, <3>1
        DEF ClientType, Goto, Target, CallOK, AppendExpected, store
      <3>7. held'[c] = (log[r.seq + 1] = e)
        BY <1>0, <2>3 DEF ClientType
      <3>8. CallOK(c)'
        BY <3>1, <3>2, <3>6, <3>7 DEF CallOK, Running
      <3>9. QED
        BY <3>5, <3>8
    <2>4. QED
      BY <2>1, <2>2, <2>3 DEF AppendExpected, Kinds
  <1>5. CASE GenesisIncumbent(c)
    <2>1. ASSUME NEW k \in Kinds, Answer(c, k, None) PROVE CallOK(c)' /\ ClientType'
      BY <1>0, <2>1, Answered
    <2>2. QED
      BY <1>5, <2>1 DEF GenesisIncumbent, Opened, Kinds
  <1>6. ASSUME NEW k \in Kinds, NEW e \in Effects, Answer(c, k, e)
        PROVE  CallOK(c)' /\ ClientType'
    BY <1>0, <1>6, Answered
  <1>7. CASE TargetGet(c)
    <2>0. /\ Running(c) /\ pc[c] = "aTarget" /\ Keep(c) /\ UNCHANGED <<store, History>>
          /\ seen[c] = genesis /\ genesis # None /\ ~ wrote[c]
      BY <1>0, <1>7 DEF TargetGet, Running, CallOK
    <2>1. CASE Got(Target(c)) = None /\ Goto(c, "aFloor") /\ UNCHANGED seen
      <3>1. ClientType'
        BY <1>0, <2>0, <2>1, GoneOn DEF ClientType, PCs, Keep
      <3>2. CallOK(c)'
        BY <2>0, <2>1, Moves DEF PCs, Keep, store
      <3>3. QED
        BY <3>1, <3>2
    <2>2. CASE /\ Got(Target(c)) # None
               /\ seen' = [seen EXCEPT ![c] = Got(Target(c))]
               /\ Goto(c, IF Got(Target(c)) = event[c] THEN "aCommitted" ELSE "aOccupied")
      <3>1. Got(Target(c)) \in Events \cup Configs \cup {Damaged, None}
        BY <1>0, <1>2, <2>0, GotFacts
      <3>2. seen' \in [Clients -> Events \cup Configs \cup {Damaged, None}]
        BY <1>0, <2>2, <3>1 DEF ClientType
      <3>3. CASE Got(Target(c)) = event[c] /\ Goto(c, "aCommitted")
        <4>1. log[Target(c)] = event[c]
          BY <1>0, <1>2, <2>0, <3>3, GotFacts DEF Seqs
        <4>2. CallOK(c)'
          BY <2>0, <3>3, <4>1, Moves DEF PCs, Keep, store
        <4>3. ClientType'
          BY <1>0, <2>0, <3>2, <3>3, GoneOn DEF ClientType, PCs, Keep
        <4>4. QED
          BY <4>2, <4>3
      <3>4. CASE Goto(c, "aOccupied")
        <4>1. CallOK(c)'
          BY <2>0, <3>4, Moves DEF PCs, Keep, store
        <4>2. ClientType'
          BY <1>0, <2>0, <3>2, <3>4, GoneOn DEF ClientType, PCs, Keep
        <4>3. QED
          BY <4>1, <4>2
      <3>5. QED
        BY <2>2, <3>3, <3>4
    <2>3. QED
      BY <1>7, <2>1, <2>2 DEF TargetGet
  <1>8. CASE Occupied(c) \/ FloorReread(c) \/ LaterWitness(c) \/ Unavailable(c)
    <2>1. PICK k : k \in Kinds /\ Answer(c, k, NotAttempted)
      BY <1>1, <1>8 DEF Occupied, FloorReread, LaterWitness, Unavailable, Kinds
    <2>2. QED
      BY <1>1, <1>6, <2>1
  <1>9. CASE FloorFirst(c)
    <2>0. Running(c) /\ pc[c] = "aFloor" /\ UNCHANGED <<store, History>> /\ ~ wrote[c]
      BY <1>0, <1>9 DEF FloorFirst, Running, CallOK
    <2>1. CASE /\ pred[c].seq = 0 => pred[c] = GenesisRef(seen[c])
               /\ Goto(c, IF pred[c].seq = 0 THEN "aProbe" ELSE "aPredecessor")
               /\ seen' = [seen EXCEPT ![c] = None]
               /\ Keep(c)
      <3>1. pred[c].seq = 0 => Matched(c)
        BY <1>0, <2>0, <2>1 DEF CallOK, Matched, GenesisRef
      <3>2. CallOK(c)'
        BY <2>0, <2>1, <3>1, Moves DEF PCs, Keep, store
      <3>3. ClientType'
        BY <1>0, <2>0, <2>1, GoneOn DEF ClientType, PCs, Keep
      <3>4. QED
        BY <3>2, <3>3
    <2>2. CASE \E k \in Kinds : Answer(c, k, NotAttempted)
      BY <1>1, <1>6, <2>2
    <2>3. QED
      BY <1>9, <2>1, <2>2 DEF FloorFirst, Kinds
  <1>10. CASE VerifyPredecessor(c)
    <2> DEFINE shows == Got(pred[c].seq)
               other == shows \notin {None, Damaged} /\ Ref(pred[c].seq, shows) # pred[c]
    <2>0. Running(c) /\ pc[c] = "aPredecessor" /\ UNCHANGED <<store, History>> /\ ~ wrote[c]
      BY <1>0, <1>10 DEF VerifyPredecessor, Running, CallOK
    <2>1. CASE /\ shows # Damaged /\ ~ other
               /\ Goto(c, IF shows = None THEN "aReread" ELSE "aProbe")
               /\ Keep(c) /\ UNCHANGED seen
      <3>1. shows # None => Matched(c)
        <4>1. SUFFICES ASSUME shows # None PROVE Matched(c)
          OBVIOUS
        <4>2. Ref(pred[c].seq, shows) = pred[c]
          BY <2>1, <4>1
        <4>3. pred[c].seq \in Seqs /\ pred[c].seq > 0
          BY <1>0, <1>2, <2>0 DEF CallOK, Seqs
        <4>4. shows = log[pred[c].seq]
          BY <1>0, <2>1, <4>3, GotFacts
        <4>5. QED
          BY <4>1, <4>2, <4>3, <4>4 DEF Matched
      <3>2. CallOK(c)'
        BY <2>0, <2>1, <3>1, Moves DEF PCs, Keep, store
      <3>3. ClientType'
        BY <1>0, <2>0, <2>1, GoneOn DEF ClientType, PCs, Keep
      <3>4. QED
        BY <3>2, <3>3
    <2>2. CASE \E k \in Kinds : Answer(c, k, NotAttempted)
      BY <1>1, <1>6, <2>2
    <2>3. QED
      BY <1>10, <2>1, <2>2 DEF VerifyPredecessor, Kinds
  <1>11. CASE ProbeLater(c)
    <2> DEFINE suffix == {s \in Landed : s > Target(c)}
               n == IF suffix = {} THEN 0
                    ELSE CHOOSE s \in suffix : \A t \in suffix : s <= t
    <2>0. /\ Running(c) /\ pc[c] = "aProbe" /\ UNCHANGED <<store, History>> /\ ~ wrote[c]
          /\ Matched(c)
      BY <1>0, <1>11 DEF ProbeLater, Running, CallOK
    <2>1. /\ Goto(c, IF suffix = {} THEN "aBefore" ELSE "aWitness")
          /\ later' = [later EXCEPT ![c] = n]
          /\ UNCHANGED <<pred, event, seen, wrote, held>>
      BY <1>11 DEF ProbeLater
    <2>2. n \in 0..MaxSeq
      <3>1. CASE suffix = {}
        BY <1>0, <3>1
      <3>2. CASE suffix # {}
        <4>1. suffix \subseteq Nat /\ suffix \subseteq 0..MaxSeq
          BY <1>0 DEF Landed, Seqs
        <4> HIDE DEF suffix
        <4>2. \E s \in suffix : \A t \in suffix : s <= t
          BY <3>2, <4>1, LeastNumber
        <4>3. QED
          BY <3>2, <4>1, <4>2
      <3>3. QED
        BY <3>1, <3>2
    <2> HIDE DEF suffix, n
    <2>3. CallOK(c)'
      BY <2>0, <2>1, Moves DEF PCs, store
    <2>4. ClientType'
      BY <1>0, <2>0, <2>1, <2>2, GoneOn DEF ClientType, PCs
    <2>5. QED
      BY <2>3, <2>4
  <1>12. CASE FloorBefore(c)
    <2>0. /\ Running(c) /\ pc[c] = "aBefore" /\ UNCHANGED <<store, History>> /\ ~ wrote[c]
          /\ Matched(c)
      BY <1>0, <1>12 DEF FloorBefore, Running, CallOK
    <2>1. CASE Goto(c, "aCreate") /\ Keep(c) /\ UNCHANGED seen
      <3>1. CallOK(c)'
        BY <2>0, <2>1, Moves DEF PCs, Keep, store
      <3>2. ClientType'
        BY <1>0, <2>0, <2>1, GoneOn DEF ClientType, PCs, Keep
      <3>3. QED
        BY <3>1, <3>2
    <2>2. QED
      BY <1>1, <1>6, <1>12, <2>1 DEF FloorBefore, Kinds
  <1>13. CASE TargetCreate(c)
    <2>0. /\ Running(c) /\ pc[c] = "aCreate" /\ UNCHANGED <<floor, pred, event, seen, later>>
      BY <1>13 DEF TargetCreate, Running
    <2>1. CASE /\ log' = [log EXCEPT ![Target(c)] = event[c]]
               /\ Record(Target(c), event[c])
               /\ wrote' = [wrote EXCEPT ![c] = TRUE]
               /\ Goto(c, "aCommitted") \/ Goto(c, "aReadback")
      <3>1. held'[c] = TRUE /\ held' \in [Clients -> BOOLEAN]
        BY <1>0, <2>0, <2>1 DEF Record, Own
      <3>2. log'[Target(c)] = event[c]
        BY <1>0, <1>2, <2>0, <2>1 DEF TypeOK
      <3>3. wrote' \in [Clients -> BOOLEAN]
        BY <1>0, <2>1 DEF ClientType
      <3>4. ClientType' /\ pc'[c] \in {"aCommitted", "aReadback"}
        BY <1>0, <2>0, <2>1, <3>1, <3>3, GoneOn DEF ClientType, PCs
      <3>5. Target(c)' = Target(c) /\ pred'[c] = pred[c] /\ event'[c] = event[c]
        BY <2>0 DEF Target
      <3>6. CallOK(c)'
        BY <1>2, <2>0, <3>1, <3>2, <3>4, <3>5 DEF CallOK
      <3>7. QED
        BY <3>4, <3>6
    <2>2. CASE Goto(c, "aReadback") /\ UNCHANGED <<log, first, wrote, held>>
      <3>1. CallOK(c)'
        BY <1>13, <2>0, <2>2, Moves DEF PCs, TargetCreate
      <3>2. ClientType'
        BY <1>0, <2>0, <2>2, GoneOn DEF ClientType, PCs
      <3>3. QED
        BY <3>1, <3>2
    <2>3. QED
      BY <1>13, <2>1, <2>2 DEF TargetCreate
  <1>14. CASE Readback(c)
    <2>0. Running(c) /\ pc[c] = "aReadback" /\ UNCHANGED <<store, History>> /\ Keep(c)
      BY <1>14 DEF Readback, Running
    <2>1. CASE Got(Target(c)) = event[c] /\ Goto(c, "aCommitted") /\ UNCHANGED seen
      <3>1. log[Target(c)] = event[c]
        BY <1>0, <1>2, <2>0, <2>1, GotFacts DEF Seqs
      <3>2. CallOK(c)'
        BY <2>0, <2>1, <3>1, Moves DEF PCs, Keep, store
      <3>3. ClientType'
        BY <1>0, <2>0, <2>1, GoneOn DEF ClientType, PCs, Keep
      <3>4. QED
        BY <3>2, <3>3
    <2>2. CASE Goto(c, "aUnresolved") /\ seen' \in {seen, [seen EXCEPT ![c] = Got(Target(c))]}
      <3>1. Got(Target(c)) \in Events \cup Configs \cup {Damaged, None}
        BY <1>0, <1>2, <2>0, GotFacts
      <3>2. seen' \in [Clients -> Events \cup Configs \cup {Damaged, None}]
        BY <1>0, <2>2, <3>1 DEF ClientType
      <3>3. CallOK(c)'
        BY <2>0, <2>2, Moves DEF PCs, Keep, store
      <3>4. ClientType'
        BY <1>0, <2>0, <2>2, <3>2, GoneOn DEF ClientType, PCs, Keep
      <3>5. QED
        BY <3>3, <3>4
    <2>3. QED
      BY <1>14, <2>1, <2>2 DEF Readback
  <1>15. CASE AdjudicateCommitted(c)
    <2>1. Running(c)
      BY <1>15 DEF AdjudicateCommitted, Running
    <2>2. QED
      BY <1>2, <1>6, <1>15, <2>1 DEF AdjudicateCommitted, Kinds
  <1>16. CASE AdjudicateUnresolved(c)
    <2>1. PICK k : k \in Kinds /\ Answer(c, k, PossiblyCommitted)
      BY <1>1, <1>16 DEF AdjudicateUnresolved, Kinds
    <2>2. QED
      BY <1>1, <1>6, <2>1
  <1>17. CASE Abort(c)
    BY <1>0, <1>17, Answered DEF Abort
  <1>18. QED
    BY <1>3, <1>4, <1>5, <1>7, <1>8, <1>9, <1>10, <1>11, <1>12, <1>13, <1>14, <1>15, <1>16,
       <1>17
    DEF Steps

\* The types of a step of no client.
LEMMA WorldType ==
  ASSUME CondInv, Elsewhere \/ \E s \in Seqs \cup {0} : Damage(s)
  PROVE  ClientType' /\ answer' = NoAnswer
  <1>0. ClientType
    BY DEF CondInv, TypeOK, ClientType
  <1>1. answer' = NoAnswer /\ UNCHANGED locals
    BY DEF Elsewhere, Damage
  <1>2. held' = held \/ \E s, e : Record(s, e)
    BY DEF Elsewhere, Damage
  <1>3. held' \in [Clients -> BOOLEAN]
    BY <1>0, <1>2 DEF ClientType, Record
  <1>4. NoAnswer \in [kind : Kinds \cup {None}, effect : Effects \cup {None},
                      wrote : BOOLEAN, held : BOOLEAN]
    BY DEF NoAnswer
  <1>5. QED
    BY <1>0, <1>1, <1>3, <1>4 DEF ClientType, locals

\* The types of what the clients share.
LEMMA StepShared ==
  ASSUME CondInv, Next
  PROVE  /\ genesis' \in Configs \cup {None}
         /\ damaged' \subseteq Landed' \cup {0}
         /\ first' \in [Seqs -> Events \cup {None}]
         /\ opened' \subseteq {"Created", "Existing"} \X Configs
         /\ OneConfiguration'
  <1>0. /\ TypeOK /\ OneConfiguration /\ None \notin Events /\ None \notin Configs
        /\ Damaged \notin Configs /\ \A c \in Clients : CallOK(c)
    BY StoreAssumption, ConditionalAssumption DEF CondInv
  <1>1. first' \in [Seqs -> Events \cup {None}]
    <2>1. StoreChange
      BY NextChanges
    <2>2. QED
      BY <1>0, <2>1 DEF StoreChange, Record, TypeOK
  <1>2. genesis = None => opened = {}
    BY <1>0 DEF OneConfiguration, TypeOK
  <1>3. ASSUME NEW cfg \in Configs, NEW k \in {"Created", "Existing"}, genesis' = cfg,
               genesis = None \/ genesis = cfg, opened' = opened \cup {<<k, cfg>>}
        PROVE  /\ genesis' \in Configs \cup {None}
               /\ opened' \subseteq {"Created", "Existing"} \X Configs
               /\ OneConfiguration'
    BY <1>0, <1>2, <1>3 DEF OneConfiguration, TypeOK
  <1>4. ASSUME UNCHANGED <<genesis, opened>>
        PROVE  /\ genesis' \in Configs \cup {None}
               /\ opened' \subseteq {"Created", "Existing"} \X Configs
               /\ OneConfiguration'
    BY <1>0, <1>4 DEF OneConfiguration, TypeOK
  <1>5. ASSUME genesis = None, genesis' \in Configs, UNCHANGED opened
        PROVE  /\ genesis' \in Configs \cup {None}
               /\ opened' \subseteq {"Created", "Existing"} \X Configs
               /\ OneConfiguration'
    BY <1>0, <1>2, <1>5 DEF OneConfiguration, TypeOK
  <1>6. ASSUME UNCHANGED log, UNCHANGED damaged \/ \E s \in Seqs \cup {0} : Damage(s)
        PROVE  damaged' \subseteq Landed' \cup {0}
    <2>1. Landed' = Landed
      BY <1>6 DEF Landed
    <2>2. ASSUME NEW s \in Seqs \cup {0}, Damage(s) PROVE s \in Landed \cup {0}
      BY <1>0, <2>2, GotFacts DEF Damage, Landed
    <2>3. QED
      BY <1>0, <1>6, <2>1, <2>2 DEF Damage, TypeOK
  <1>7. ASSUME NEW c \in Clients, Steps(c)
        PROVE  /\ genesis' \in Configs \cup {None}
               /\ damaged' \subseteq Landed' \cup {0}
               /\ opened' \subseteq {"Created", "Existing"} \X Configs
               /\ OneConfiguration'
    <2>1. CASE TargetCreate(c)
      <3>1. UNCHANGED <<genesis, opened, damaged>>
        BY <2>1 DEF TargetCreate
      <3>2. Target(c) \in Seqs /\ event[c] \in Events
        BY <1>0, <2>1 DEF TargetCreate, CallOK, Running
      <3>3. Landed \subseteq Landed'
        BY <1>0, <2>1, <3>2 DEF TargetCreate, Landed, TypeOK
      <3>4. QED
        BY <1>0, <1>4, <3>1, <3>3 DEF TypeOK
    <2>2. CASE \E cfg \in Configs : CreateStreamWithId(c, cfg)
      <3>1. PICK cfg \in Configs : CreateStreamWithId(c, cfg)
        BY <2>2
      <3>2. UNCHANGED <<log, damaged>>
        BY <3>1 DEF CreateStreamWithId
      <3>3. QED
        BY <1>0, <1>3, <1>4, <1>5, <1>6, <3>1, <3>2 DEF CreateStreamWithId, Opened
    <2>3. CASE GenesisIncumbent(c)
      <3>1. UNCHANGED <<log, damaged, genesis>> /\ pred[c].payload \in Configs
        BY <1>0, <2>3 DEF GenesisIncumbent, store, CallOK
      <3>2. CASE Got(0) = pred[c].payload /\ Opened(c, "Existing", pred[c].payload)
        <4>1. genesis = pred[c].payload
          BY <1>0, <3>1, <3>2, GotFacts
        <4>2. QED
          BY <1>3, <1>6, <3>1, <3>2, <4>1 DEF Opened
      <3>3. QED
        BY <1>4, <1>6, <2>3, <3>1, <3>2 DEF GenesisIncumbent
    <2>4. CASE ~ (TargetCreate(c) \/ GenesisIncumbent(c)
                  \/ \E cfg \in Configs : CreateStreamWithId(c, cfg))
      <3>1. UNCHANGED <<log, damaged, genesis, opened>>
        BY <1>7, <2>4 DEF Steps, store, History, AppendExpected, TargetGet, Occupied,
           FloorFirst, VerifyPredecessor, FloorReread, ProbeLater, LaterWitness, FloorBefore,
           Readback, AdjudicateCommitted, AdjudicateUnresolved, Unavailable, Abort
      <3>2. QED
        BY <1>4, <1>6, <3>1
    <2>5. QED
      BY <2>1, <2>2, <2>3, <2>4
  <1>8. CASE Elsewhere
    <2>1. CASE /\ genesis = None
               /\ \E cfg \in Configs : /\ genesis' = cfg
                                       /\ opened' = opened \cup {<<"Created", cfg>>}
               /\ UNCHANGED <<log, floor, damaged, held, first>>
      BY <1>1, <1>3, <1>6, <2>1
    <2>2. ASSUME NEW s \in Seqs, UNCHANGED <<genesis, opened>>,
                 \/ Certify(s) /\ UNCHANGED damaged
                 \/ Sweep(s) /\ damaged' = damaged \ {s}
                 \/ (\E e \in Events : Land(s, e)) /\ UNCHANGED damaged
          PROVE  damaged' \subseteq Landed' \cup {0}
      BY <1>0, <2>2 DEF Certify, Sweep, Land, Landed, TypeOK
    <2>3. QED
      BY <1>1, <1>4, <1>8, <2>1, <2>2 DEF Elsewhere
  <1>9. CASE \E s \in Seqs \cup {0} : Damage(s)
    <2>1. UNCHANGED <<log, genesis, opened>>
      BY <1>9 DEF Damage, History
    <2>2. QED
      BY <1>1, <1>4, <1>6, <1>9, <2>1
  <1>10. QED
    BY <1>1, <1>7, <1>8, <1>9, NextSteps

LEMMA NextCond == CondInv /\ [Next]_vars => CondInv'
  <1> SUFFICES ASSUME CondInv, [Next]_vars PROVE CondInv'
    OBVIOUS
  <1>1. CASE UNCHANGED vars
    <2>1. TypeOK'
      BY <1>1 DEF vars, CondInv, TypeOK, Landed, Target
    <2>2. Gapless' /\ FirstOK' /\ OneConfiguration'
      BY <1>1 DEF vars, CondInv, Gapless, FirstOK, End, Landed, OneConfiguration
    <2>3. \A c \in Clients : CallOK(c)'
      BY <1>1 DEF vars, CondInv, CallOK, Running, Matched, Target
    <2>4. QED
      BY <2>1, <2>2, <2>3 DEF CondInv
  <1>2. CASE Next
    <2>0. TypeOK /\ StoreChange
      BY <1>2, NextChanges DEF CondInv
    <2>1. ASSUME NEW d \in Clients PROVE CallOK(d)'
      <3>1. CASE Steps(d)
        BY <1>2, <2>1, <3>1, StepKnows
      <3>2. CASE ~ Steps(d)
        BY <1>2, <2>0, <2>1, <3>2, OthersAreApart, OthersKnow
      <3>3. QED
        BY <3>1, <3>2
    <2>2. ClientType'
      BY <1>2, NextSteps, StepKnows, WorldType
    <2>3. StoreType' /\ Gapless' /\ FirstOK'
      BY <2>0, NextKeeps
    <2>4. \A d \in Clients : (pc[d] \notin {"idle", "cIncumbent"} => Target(d) \in Seqs)'
      BY <2>1 DEF CallOK, Running
    <2>5. TypeOK'
      BY <1>2, <2>2, <2>3, <2>4, StepShared DEF TypeOK, ClientType, StoreType
    <2>6. QED
      BY <1>2, <2>1, <2>3, <2>5, StepShared DEF CondInv
  <1>3. QED
    BY <1>1, <1>2

-----------------------------------------------------------------------------
(* Theorems.                                                               *)

\* Every variable keeps its type; in particular the successor of a predecessor
\* that was admitted is a sequence number.
THEOREM TypeCorrect == Spec => []TypeOK
  <1>1. CondInv => TypeOK
    BY DEF CondInv
  <1>2. QED
    BY <1>1, InitCond, NextCond, PTL DEF Spec

\* A stream id stands for one configuration: whoever was told Created or Existing
\* brought the bytes of the genesis, in any race of creations.
THEOREM OneConfigurationTheorem == Spec => []OneConfiguration
  <1>1. CondInv => OneConfiguration
    BY DEF CondInv
  <1>2. QED
    BY <1>1, InitCond, NextCond, PTL DEF Spec

\* Conditional appends beside ordinary ones, trims and sweeps keep to StreamStore:
\* the number after a verified predecessor is never past the next one.
THEOREM ImplementsStreamStoreTheorem == Spec => ImplementsStreamStore
  <1>1. Init => StoreInit
    BY DEF Init
  <1>2. CondInv /\ [Next]_vars => [StoreNext]_<<log, floor>>
    <2> SUFFICES ASSUME CondInv, [Next]_vars PROVE StoreNext \/ UNCHANGED <<log, floor>>
      OBVIOUS
    <2>1. CASE UNCHANGED vars
      BY <2>1 DEF vars
    <2>2. CASE Next
      BY <2>2, NextChanges, NextKeeps
    <2>3. QED
      BY <2>1, <2>2
  <1>3. QED
    BY <1>1, <1>2, InitCond, NextCond, PTL DEF Spec, ImplementsStreamStore, StoreSpec

\* A conditional append lands behind the event it named, or behind a number that a
\* floor has retired since it was verified.
THEOREM LandsOnItsPredecessorTheorem == Spec => LandsOnItsPredecessor
  <1>1. CondInv => \A c \in Clients : pc[c] = "aCreate" => Matched(c)
    BY DEF CondInv, CallOK
  <1>2. CondInv /\ [Next]_vars =>
          [\A c \in Clients :
             pc[c] = "aCreate" /\ log' # log =>
               \/ pred[c].seq = 0 /\ genesis = pred[c].payload
               \/ pred[c].seq > 0 /\ pred[c].seq < floor
               \/ /\ pred[c].seq > 0 /\ log[pred[c].seq] # None
                  /\ Ref(pred[c].seq, log[pred[c].seq]) = pred[c] ]_vars
    BY <1>1 DEF Matched
  <1>3. QED
    BY <1>2, InitCond, NextCond, PTL DEF Spec, LandsOnItsPredecessor

-----------------------------------------------------------------------------
(* What a call answers.                                                    *)

AnswerInv == EffectIsTrue /\ OneEventPerPosition

\* Neither property is about an answer without an effect.
LEMMA NoEffect ==
  ASSUME answer'.effect \in {None, PossiblyCommitted}, answer'.kind # "Ok"
  PROVE  AnswerInv'
  <1>1. answer'.effect # NotAttempted /\ answer'.effect \notin Receipts
    BY ConditionalAssumption DEF Receipts
  <1>2. QED
    BY <1>1 DEF AnswerInv, EffectIsTrue, OneEventPerPosition

\* NotAttempted is answered before the create alone, a receipt after the target was
\* seen to hold the event.
LEMMA StepAnswers ==
  ASSUME CondInv, NEW c \in Clients, Steps(c)
  PROVE  AnswerInv'
  <1>0. TypeOK /\ CallOK(c) /\ None # "Ok"
    BY KindsAssumption DEF CondInv, Kinds
  <1>1. ASSUME NEW p, Goto(c, p) PROVE AnswerInv'
    <2>1. answer'.effect = None /\ answer'.kind = None
      BY <1>1 DEF Goto, NoAnswer
    <2>2. QED
      BY <1>0, <2>1, NoEffect
  <1>2. ASSUME NEW k \in (Kinds \cup {None}) \ {"Ok"}, NEW e \in {None, PossiblyCommitted},
               Answer(c, k, e)
        PROVE  AnswerInv'
    <2>1. answer'.effect = e /\ answer'.kind = k
      BY <1>2 DEF Answer
    <2>2. QED
      BY <2>1, NoEffect
  <1>3. ASSUME NEW k \in Kinds \ {"Ok"}, Answer(c, k, NotAttempted), ~ wrote[c]
        PROVE  AnswerInv'
    <2>1. answer'.effect = NotAttempted /\ answer'.kind = k /\ answer'.wrote = wrote[c]
      BY <1>3 DEF Answer
    <2>2. NotAttempted \notin Receipts
      BY ConditionalAssumption DEF Receipts
    <2>3. QED
      BY <1>3, <2>1, <2>2 DEF AnswerInv, EffectIsTrue, OneEventPerPosition
  <1>4. \A o : ClassifyOccupant(c, o) \in Kinds \ {"Ok"}
    BY DEF ClassifyOccupant, Kinds
  <1>5. CASE AdjudicateCommitted(c)
    <2>1. /\ pc[c] = "aCommitted" /\ held[c] /\ Target(c) \in Seqs /\ event[c] \in Events
          /\ floor <= Target(c) => log[Target(c)] = event[c]
          /\ UNCHANGED <<log, floor, first>>
      BY <1>0, <1>5 DEF AdjudicateCommitted, CallOK, Running, store, History
    <2>2. /\ answer'.effect = Own(c) /\ answer'.held = held[c]
          /\ answer'.kind = "Ok" => ~ (Target(c) < floor)
      BY <1>5 DEF AdjudicateCommitted, Answer
    <2>3. Own(c) \in Receipts /\ Own(c)[1] = Target(c) /\ Own(c)[2] = event[c]
      BY <2>1 DEF Own, Receipts
    <2>4. Own(c) # NotAttempted
      BY <2>3, ConditionalAssumption DEF Receipts
    <2>5. answer'.kind = "Ok" => first'[Target(c)] = event[c]
      <3>1. ASSUME answer'.kind = "Ok"
            PROVE  floor <= Target(c) /\ log[Target(c)] = event[c] /\ event[c] # None
        BY <1>0, <2>1, <2>2, <3>1, StoreAssumption DEF TypeOK, Seqs
      <3>2. QED
        BY <2>1, <3>1 DEF CondInv, FirstOK
    <2>6. QED
      BY <2>1, <2>2, <2>3, <2>4, <2>5 DEF AnswerInv, EffectIsTrue, OneEventPerPosition
  <1>6. CASE \E cfg \in Configs : CreateStreamWithId(c, cfg)
    BY <1>1, <1>2, <1>6 DEF CreateStreamWithId, Opened, Kinds
  <1>7. CASE \E r \in Refs, e \in Events : AppendExpected(c, r, e)
    <2>1. ~ wrote[c]
      BY <1>0, <1>7 DEF AppendExpected, CallOK
    <2>2. QED
      BY <1>1, <1>3, <1>7, <2>1 DEF AppendExpected, Kinds
  <1>8. CASE GenesisIncumbent(c)
    BY <1>2, <1>8 DEF GenesisIncumbent, Opened, Kinds
  <1>9. CASE TargetGet(c) \/ ProbeLater(c) \/ TargetCreate(c) \/ Readback(c)
    BY <1>1, <1>9 DEF TargetGet, ProbeLater, TargetCreate, Readback
  <1>10. CASE Occupied(c) \/ FloorReread(c) \/ LaterWitness(c) \/ Unavailable(c)
    <2>1. ~ wrote[c]
      BY <1>0, <1>10 DEF Occupied, FloorReread, LaterWitness, Unavailable, CallOK
    <2>2. PICK k : k \in Kinds \ {"Ok"} /\ Answer(c, k, NotAttempted)
      BY <1>4, <1>10 DEF Occupied, FloorReread, LaterWitness, Unavailable, Kinds
    <2>3. QED
      BY <1>3, <2>1, <2>2
  <1>11. CASE FloorFirst(c) \/ VerifyPredecessor(c) \/ FloorBefore(c)
    <2>1. ~ wrote[c]
      BY <1>0, <1>11 DEF FloorFirst, VerifyPredecessor, FloorBefore, CallOK
    <2>2. (\E p : Goto(c, p)) \/ \E k \in Kinds \ {"Ok"} : Answer(c, k, NotAttempted)
      BY <1>11 DEF FloorFirst, VerifyPredecessor, FloorBefore, Kinds
    <2>3. QED
      BY <1>1, <1>3, <2>1, <2>2
  <1>12. CASE AdjudicateUnresolved(c)
    <2>1. PICK k : k \in Kinds \ {"Ok"} /\ Answer(c, k, PossiblyCommitted)
      BY <1>4, <1>12 DEF AdjudicateUnresolved, Kinds
    <2>2. QED
      BY <1>2, <2>1
  <1>13. CASE Abort(c)
    BY <1>0, <1>2, <1>13 DEF Abort
  <1>14. QED
    BY <1>5, <1>6, <1>7, <1>8, <1>9, <1>10, <1>11, <1>12, <1>13 DEF Steps

LEMMA NextAnswers == CondInv /\ AnswerInv /\ [Next]_vars => AnswerInv'
  <1> SUFFICES ASSUME CondInv, AnswerInv, [Next]_vars PROVE AnswerInv'
    OBVIOUS
  <1>1. CASE UNCHANGED vars
    BY <1>1 DEF vars, AnswerInv, EffectIsTrue, OneEventPerPosition
  <1>2. CASE Elsewhere \/ \E s \in Seqs \cup {0} : Damage(s)
    <2>1. answer'.effect = None /\ answer'.kind = None /\ None # "Ok"
      BY <1>2, WorldType, KindsAssumption DEF NoAnswer, Kinds
    <2>2. QED
      BY <2>1, NoEffect
  <1>3. QED
    BY <1>1, <1>2, NextSteps, StepAnswers

LEMMA InitAnswers == Init => AnswerInv
  <1>1. None # "Ok" /\ None # NotAttempted /\ None \notin Receipts
    BY KindsAssumption, ConditionalAssumption DEF Kinds, Receipts
  <1>2. QED
    BY <1>1 DEF Init, NoAnswer, AnswerInv, EffectIsTrue, OneEventPerPosition

\* Every answer's effect is true: a call that says NotAttempted wrote nothing, and a
\* receipt names an event that its number held while the call ran.
THEOREM EffectIsTrueTheorem == Spec => []EffectIsTrue
  <1>1. AnswerInv => EffectIsTrue
    BY DEF AnswerInv
  <1>2. QED
    BY <1>1, InitCond, NextCond, InitAnswers, NextAnswers, PTL DEF Spec

\* A success is about the first event its number ever had, also after trims and
\* sweeps and creates that were late.
THEOREM OneEventPerPositionTheorem == Spec => []OneEventPerPosition
  <1>1. AnswerInv => OneEventPerPosition
    BY DEF AnswerInv
  <1>2. QED
    BY <1>1, InitCond, NextCond, InitAnswers, NextAnswers, PTL DEF Spec

-----------------------------------------------------------------------------
(* Reads: types, with what the locals of the call hold at each of its      *)
(* requests.                                                               *)

Creating == {"mCreate", "mReadback"}
Walking == {"rFloor", "rFetch"}
Witnessing == {"rProbe", "cutHint", "cutRecord", "rHint", "rRecord", "rSuccessor", "eHint",
               "eRecord"}
Recovering == {"vFrom", "vProbe", "vSearch", "vVerify"}
Advancing == {"hGet", "hCheck", "hCas"}
Strict == {"sFloor", "sFetch"}
Placing == {"kRead", "kVerify", "kFloor", "kWrite"}
Cursing == {"kTarget", "kGone"} \cup Placing

\* The objects.
ObjectsOK ==
  /\ log \in [Seqs -> Events \cup {None}] /\ floor \in 0..MaxSeq
  /\ hint \in Marks \cup {None} /\ cursor \in Marks \cup {None}
  /\ migrated \subseteq Histories

\* The consumer's locals.
ConsumerOK ==
  /\ saw \in Marks \cup {None}
  /\ at \in Requests /\ op \in Ops \cup {None}
  /\ after \in 0..MaxSeq /\ limit \in Nat /\ last \in 0..MaxSeq
  /\ low \in 0..MaxSeq /\ span \in 0..MaxSeq /\ began \in 0..MaxSeq
  /\ history \in Histories \cup {<<>>}
  /\ stopped \in BOOLEAN /\ complete \in BOOLEAN
  /\ fetched \in Events \cup {Genesis, None}
  /\ reply = None \/ reply.kind \in Replies

\* No call, no locals; a walk stays within the log, and whoever is about to write a
\* hint or a cursor has the event that it names.
LocalsOK ==
  /\ at = "idle" => op = None /\ after = 0 /\ limit = 0 /\ last = 0
  /\ at \in Creating => op = "migrate" /\ after = 0 /\ last < Len(history)
  /\ at = "rFloor" => last = after
  /\ at \in {"rFetch", "rSuccessor"} => last < MaxSeq
  /\ at \in {"rFetch"} \cup Witnessing /\ last > after => fetched # None
  /\ at \in Advancing => fetched # None
  /\ at = "hCheck" => saw # None
  /\ at \in Cursing => op = "cursor"
  /\ at \in Strict => limit <= MaxSeq
  /\ at \in {"kTarget", "kWrite"} => limit \in Seqs
  /\ at \in Placing => limit <= MaxSeq /\ (limit # 0 => fetched # None)
  /\ at \in {"kVerify", "kFloor"} => saw # None
  /\ op \in {"migrate", "migrated"} => history \in Histories

TypeInv == ObjectsOK /\ ConsumerOK /\ LocalsOK

LEMMA TypeParts == TypeInv => ConsumerTypeOK
  BY DEF TypeInv, ObjectsOK, ConsumerOK, ConsumerTypeOK

LEMMA Numbers ==
  /\ MaxSeq \in Nat \ {0} /\ Seqs = 1..MaxSeq
  /\ None \notin Events /\ None # Genesis
  BY StoreAssumption, ReadAssumption DEF Seqs

LEMMA HistoryEntries ==
  ASSUME NEW h \in Histories
  PROVE  Len(h) \in 1..MaxSeq /\ \A s \in 1..Len(h) : h[s] \in Events
  <1>1. h \in Seq(Events) /\ Len(h) \in 1..MaxSeq
    BY ReadAssumption
  <1>2. QED
    BY <1>1

LEMMA MarkFields ==
  ASSUME NEW m \in Marks
  PROVE  m.seq \in 0..MaxSeq /\ m.event \in Events \cup {Genesis} /\ m # None
  BY NoMarkAssumption DEF Marks

LEMMA MarkMade ==
  ASSUME NEW s \in 0..MaxSeq, NEW e \in Events \cup {Genesis}
  PROVE  [seq |-> s, event |-> e] \in Marks
  BY DEF Marks

\* What is read at a number of the log, the genesis included.
LEMMA GotType ==
  ASSUME ObjectsOK, NEW s \in 0..MaxSeq
  PROVE  Shown(s) \in Events \cup {Genesis, None}
  BY Numbers DEF Shown, ObjectsOK

LEMMA EndType ==
  ASSUME ObjectsOK
  PROVE  StoreType /\ IsEnd(End) /\ End \in 0..MaxSeq
  <1>1. StoreType
    BY DEF ObjectsOK, StoreType
  <1>2. QED
    BY <1>1, EndIsEnd DEF IsEnd

LEMMA LesserOfTwo ==
  ASSUME NEW m \in Int, NEW n \in Int
  PROVE  Lesser(m, n) \in {m, n} /\ Lesser(m, n) <= m /\ Lesser(m, n) <= n
  BY DEF Lesser

LEMMA InitType == ConsumerInit => TypeInv
  <1> SUFFICES ASSUME ConsumerInit PROVE TypeInv
    OBVIOUS
  <1>1. ObjectsOK
    BY Numbers DEF ConsumerInit, StoreInit, ObjectsOK
  <1>2. ConsumerOK
    <2>1. stopped \in BOOLEAN /\ complete \in BOOLEAN
      BY Zenon DEF ConsumerInit
    <2>2. QED
      BY <2>1, Numbers DEF ConsumerInit, ConsumerOK, Ops, Requests
  <1>3. LocalsOK
    BY Numbers, OpsAssumption
    DEF ConsumerInit, LocalsOK, Ops, Creating, Witnessing, Advancing, Strict, Placing, Cursing
  <1>4. QED
    BY <1>1, <1>2, <1>3 DEF TypeInv

\* The call that ends leaves no locals.
LEMMA AnswerType ==
  ASSUME NEW k \in Replies, Reply(k)
  PROVE  (ConsumerOK /\ LocalsOK)'
  <1>1. ConsumerOK'
    <2>1. stopped' \in BOOLEAN /\ complete' \in BOOLEAN
      BY Zenon DEF Reply
    <2>2. reply'.kind \in Replies
      BY DEF Reply
    <2>3. QED
      BY <2>1, <2>2, Numbers DEF Reply, ConsumerOK, Ops, Requests
  <1>2. LocalsOK'
    BY Numbers, OpsAssumption
    DEF Reply, LocalsOK, Ops, Creating, Witnessing, Advancing, Strict, Placing, Cursing
  <1>3. QED
    BY <1>1, <1>2

LEMMA ReadAnswerType ==
  ASSUME TypeInv, NEW k \in Replies, ReadAnswer(k)
  PROVE  (ConsumerOK /\ LocalsOK)'
  <1> USE DEF TypeInv
  <1>0. "BackendUnqualified" \in Replies
    BY DEF Replies
  <1>1. CASE Reply(k)
    BY <1>1, AnswerType
  <1>2. CASE Reply("BackendUnqualified")
    BY <1>0, <1>2, AnswerType
  <1>3. CASE /\ op = "migrate" /\ k = "Page"
             /\ after' = last /\ stopped' = FALSE /\ complete' = FALSE
             /\ saw' = None /\ low' = 0 /\ span' = 0
             /\ Send("rFloor")
             /\ UNCHANGED <<op, limit, history, last, fetched, began>>
    <2>1. ConsumerOK'
      <3>1. stopped' \in BOOLEAN /\ complete' \in BOOLEAN
        BY <1>3, Zenon
      <3>2. QED
        BY <1>3, <3>1, Numbers DEF ConsumerOK, Requests, Send
    <2>2. LocalsOK'
      BY <1>3 DEF LocalsOK, Send, Creating, Witnessing, Advancing, Strict, Placing, Cursing
    <2>3. QED
      BY <2>1, <2>2
  <1>4. CASE /\ op = "migrate" /\ k # "Page" /\ last = Len(history)
             /\ op' = "migrated" /\ low' = last /\ fetched' = history[last]
             /\ saw' = None /\ span' = 0
             /\ Send("hGet")
             /\ UNCHANGED <<after, limit, history, last, stopped, complete, began>>
    <2>1. history \in Histories
      BY <1>4 DEF LocalsOK
    <2>2. fetched' \in Events /\ fetched' # None
      BY <1>4, <2>1, HistoryEntries, Numbers
    <2>3. QED
      BY <1>4, <2>1, <2>2, Numbers
      DEF ConsumerOK, LocalsOK, Ops, Requests, Send, Creating, Witnessing, Advancing, Strict, Placing,
          Cursing
  <1>5. QED
    BY <1>1, <1>2, <1>3, <1>4 DEF ReadAnswer

LEMMA HintDoneType ==
  ASSUME TypeInv, HintDone
  PROVE  (ConsumerOK /\ LocalsOK)' /\ migrated' \subseteq Histories
  <1>1. CASE op # "migrated"
    <2>1. \E k \in Replies : ReadAnswer(k)
      BY <1>1 DEF HintDone, Replies
    <2>2. migrated' = migrated
      BY <1>1 DEF HintDone
    <2>3. QED
      BY <2>1, <2>2, ReadAnswerType DEF TypeInv, ObjectsOK
  <1>2. CASE op = "migrated"
    <2>1. Reply("Migrated") /\ migrated' = migrated \cup {history}
      BY <1>2 DEF HintDone
    <2>2. history \in Histories
      BY <1>2 DEF TypeInv, LocalsOK
    <2>3. "Migrated" \in Replies
      BY DEF Replies
    <2>4. QED
      BY <2>1, <2>2, <2>3, AnswerType DEF TypeInv, ObjectsOK
  <1>3. QED
    BY <1>1, <1>2

\* A step that leaves the objects alone.
LEMMA SameObjects ==
  ASSUME ObjectsOK, UNCHANGED shared
  PROVE  ObjectsOK'
  BY DEF ObjectsOK, shared

LEMMA ReplayType ==
  ASSUME TypeInv,
         \/ \E a \in 0..MaxSeq, l \in Limits : Read(a, l) \/ \E t \in 0..MaxSeq : ReadRange(a, t, l)
         \/ ReadFloor \/ ReadFetch \/ ReadProbe \/ HintRead \/ CutRecord \/ EndRecord
         \/ ReadSuccessor \/ HealRecord \/ StrictFloor \/ StrictFetch
  PROVE  TypeInv'
  <1> USE Numbers DEF TypeInv, Send, args, found, repair
  <1> USE DEF Creating, Witnessing, Advancing, Strict, Placing, Cursing
  <1>0. /\ {"Empty", "Page", "Complete", "OffsetExpired", "BackendUnqualified", "Corrupt",
            "EventMissing"} \subseteq Replies
        /\ End \in 0..MaxSeq
    BY EndType DEF Replies
  <1>1. ASSUME NEW a \in 0..MaxSeq, NEW l \in Limits, Read(a, l)
        PROVE  TypeInv'
    <2>0. l \in Nat
      BY ReadAssumption
    <2>1. ObjectsOK'
      BY <1>1, SameObjects DEF Read
    <2>2. ConsumerOK' /\ LocalsOK'
      BY <1>0, <1>1, <2>0 DEF Read, ConsumerOK, LocalsOK, Requests, Ops
    <2>3. QED
      BY <2>1, <2>2
  <1>2. ASSUME NEW a \in 0..MaxSeq, NEW l \in Limits, NEW t \in 0..MaxSeq, ReadRange(a, t, l)
        PROVE  TypeInv'
    <2>1. ObjectsOK'
      BY <1>2, SameObjects DEF ReadRange
    <2>2. limit' \in 0..MaxSeq
      <3>1. l \in Nat /\ a \in Nat /\ t \in Nat
        BY ReadAssumption
      <3>2. limit' \in {t, a + l} /\ limit' <= t /\ a + l \in Nat
        BY <1>2, <3>1, LesserOfTwo DEF ReadRange
      <3>3. QED
        BY <3>1, <3>2
    <2>3. ConsumerOK' /\ LocalsOK'
      BY <1>2, <2>2 DEF ReadRange, ConsumerOK, LocalsOK, Requests, Ops
    <2>4. QED
      BY <2>1, <2>3
  <1>3. CASE ReadFloor
    <2>1. ObjectsOK'
      BY <1>3, SameObjects DEF ReadFloor
    <2>2. CASE (\E k \in Replies : ReadAnswer(k)) \/ \E k \in Replies : Reply(k)
      BY <2>1, <2>2, AnswerType, ReadAnswerType
    <2>3. CASE /\ at = "rFloor" /\ after < MaxSeq
               /\ Send("rFetch")
               /\ UNCHANGED <<args, found, saw, repair>>
      BY <2>1, <2>3 DEF ConsumerOK, LocalsOK, Requests
    <2>4. QED
      BY <1>0, <1>3, <2>2, <2>3 DEF ReadFloor
  <1>4. CASE ReadFetch
    <2>1. ObjectsOK'
      BY <1>4, SameObjects DEF ReadFetch
    <2>2. last < MaxSeq /\ last + 1 \in 0..MaxSeq
      BY <1>4 DEF ReadFetch, LocalsOK, ConsumerOK
    <2>3. CASE Shown(last + 1) # None
      <3>1. /\ last' = last + 1 /\ fetched' = Shown(last + 1)
            /\ Send(IF last + 1 - after < limit /\ last + 1 < MaxSeq THEN "rFetch" ELSE "rProbe")
            /\ UNCHANGED <<stopped, complete, op, after, limit, history, began, saw, low, span>>
        BY <1>4, <2>3 DEF ReadFetch
      <3>2. fetched' \in Events \cup {Genesis} /\ fetched' # None
        BY <2>2, <2>3, <3>1, GotType
      <3>3. QED
        BY <2>1, <2>2, <3>1, <3>2 DEF ConsumerOK, LocalsOK, Requests
    <2>4. CASE Shown(last + 1) = None
      <3>1. /\ stopped' = TRUE /\ Send("rProbe")
            /\ UNCHANGED <<last, fetched, complete, op, after, limit, history, began, saw, low,
                           span>>
        BY <1>4, <2>4 DEF ReadFetch
      <3>2. stopped' \in BOOLEAN
        BY <3>1, Zenon
      <3>3. at = "rFetch"
        BY <1>4 DEF ReadFetch
      <3>4. QED
        BY <2>1, <3>1, <3>2, <3>3 DEF ConsumerOK, LocalsOK, Requests
    <2>5. QED
      BY <2>3, <2>4
  <1>5. CASE ReadProbe
    <2>1. ObjectsOK'
      BY <1>5, SameObjects DEF ReadProbe
    <2>2. CASE \E k \in Replies : Reply(k)
      BY <2>1, <2>2, AnswerType
    <2>3. CASE /\ at = "rProbe"
               /\ Send("rHint") \/ Send("cutHint")
               /\ UNCHANGED <<args, found, saw, repair>>
      BY <2>1, <2>3 DEF ConsumerOK, LocalsOK, Requests
    <2>4. QED
      BY <1>0, <1>5, <2>2, <2>3 DEF ReadProbe
  <1>6. CASE HintRead
    <2>1. ObjectsOK'
      BY <1>6, SameObjects DEF HintRead
    <2>2. ConsumerOK' /\ LocalsOK'
      BY <1>6 DEF HintRead, ConsumerOK, LocalsOK, Requests, ObjectsOK
    <2>3. QED
      BY <2>1, <2>2
  <1>7. ASSUME UNCHANGED shared, Recover
        PROVE  TypeInv'
    BY <1>7, SameObjects DEF Recover, ConsumerOK, LocalsOK, Requests
  <1>8. CASE CutRecord
    <2>1. UNCHANGED shared
      BY <1>8 DEF CutRecord
    <2>2. QED
      BY <1>0, <1>7, <1>8, <2>1, SameObjects, ReadAnswerType DEF CutRecord
  <1>9. CASE EndRecord
    <2>1. ObjectsOK' /\ UNCHANGED shared
      BY <1>9, SameObjects DEF EndRecord
    <2>2. CASE Reply("BackendUnqualified")
      BY <1>0, <2>1, <2>2, AnswerType
    <2>3. CASE /\ at = "rRecord" /\ saw' = None
               /\ complete' = (stopped \/ last = MaxSeq)
               /\ Send(IF stopped \/ last = MaxSeq THEN "eHint" ELSE "rSuccessor")
               /\ UNCHANGED <<args, last, stopped, fetched, repair>>
      <3>1. complete' \in BOOLEAN
        BY <2>3
      <3>2. QED
        BY <2>1, <2>3, <3>1 DEF ConsumerOK, LocalsOK, Requests
    <2>4. CASE Recover
      BY <1>7, <2>1, <2>4
    <2>5. QED
      BY <1>9, <2>2, <2>3, <2>4 DEF EndRecord
  <1>10. CASE ReadSuccessor
    <2>1. ObjectsOK'
      BY <1>10, SameObjects DEF ReadSuccessor
    <2>2. CASE Reply("BackendUnqualified")
      BY <1>0, <2>1, <2>2, AnswerType
    <2>3. CASE /\ at = "rSuccessor" /\ complete' = TRUE /\ Send("eHint")
               /\ UNCHANGED <<args, last, stopped, fetched, saw, repair>>
      <3>1. complete' \in BOOLEAN
        BY <2>3, Zenon
      <3>2. QED
        BY <2>1, <2>3, <3>1 DEF ConsumerOK, LocalsOK, Requests
    <2>4. QED
      BY <1>10, <2>2, <2>3 DEF ReadSuccessor
  <1>11. CASE HealRecord
    <2>1. ObjectsOK'
      BY <1>11, SameObjects DEF HealRecord
    <2>2. CASE \E k \in Replies : ReadAnswer(k)
      BY <2>1, <2>2, ReadAnswerType
    <2>3. CASE /\ at = "eRecord" /\ last > after
               /\ low' = last /\ saw' = None /\ Send("hGet")
               /\ UNCHANGED <<args, found, span>>
      BY <2>1, <2>3 DEF ConsumerOK, LocalsOK, Requests
    <2>4. QED
      BY <1>0, <1>11, <2>2, <2>3 DEF HealRecord
  <1>12. CASE StrictFloor
    <2>1. ObjectsOK'
      BY <1>12, SameObjects DEF StrictFloor
    <2>2. CASE Reply("OffsetExpired")
      BY <1>0, <2>1, <2>2, AnswerType
    <2>3. CASE at = "sFloor" /\ Send("sFetch") /\ UNCHANGED <<args, found, saw, repair>>
      BY <2>1, <2>3 DEF ConsumerOK, LocalsOK, Requests
    <2>4. QED
      BY <1>12, <2>2, <2>3 DEF StrictFloor
  <1>13. CASE StrictFetch
    <2>1. ObjectsOK'
      BY <1>13, SameObjects DEF StrictFetch
    <2>2. CASE Reply("Page") \/ Reply("EventMissing")
      BY <1>0, <2>1, <2>2, AnswerType
    <2>3. CASE /\ at = "sFetch" /\ last < limit /\ last' = last + 1 /\ Send("sFetch")
               /\ UNCHANGED <<args, stopped, complete, fetched, saw, repair>>
      BY <2>1, <2>3 DEF ConsumerOK, LocalsOK, Requests
    <2>4. QED
      BY <1>13, <2>2, <2>3 DEF StrictFetch
  <1>14. QED
    BY <1>1, <1>2, <1>3, <1>4, <1>5, <1>6, <1>8, <1>9, <1>10, <1>11, <1>12, <1>13

LEMMA RecoverType ==
  ASSUME TypeInv,
         \/ RecoverFrom \/ RecoverProbe \/ RecoverSearch \/ RecoverVerify
         \/ HintGet \/ HintCheck \/ HintCas
  PROVE  TypeInv'
  <1> USE Numbers DEF TypeInv, Send, args, found, repair
  <1> USE DEF Creating, Witnessing, Advancing, Strict, Placing, Cursing
  <1>1. ASSUME HintDone, Kept
        PROVE  TypeInv'
    BY <1>1, HintDoneType DEF Kept, ObjectsOK
  <1>2. ASSUME NEW l \in 0..MaxSeq, NEW h \in 0..MaxSeq, at \in Recovering,
               Bisect(l, h), UNCHANGED <<shared, args, found, saw>>
        PROVE  TypeInv'
    BY <1>2, SameObjects DEF Bisect, ConsumerOK, LocalsOK, Requests, Recovering
  <1>3. CASE RecoverFrom
    <2>1. CASE HintDone /\ Kept
      BY <1>1, <2>1
    <2>2. CASE /\ at = "vFrom" /\ low' = last /\ span' = 1 /\ Send("vProbe")
               /\ UNCHANGED <<shared, args, found, saw>>
      BY <2>2, SameObjects DEF ConsumerOK, LocalsOK, Requests
    <2>3. QED
      BY <1>3, <2>1, <2>2 DEF RecoverFrom
  <1>4. CASE RecoverProbe
    <2> DEFINE probe == Lesser(last + span, MaxSeq)
    <2>1. /\ probe \in 0..MaxSeq /\ Lesser(2 * span, MaxSeq) \in 0..MaxSeq
          /\ low \in 0..MaxSeq
      <3>1. last + span \in Nat /\ 2 * span \in Nat /\ low \in 0..MaxSeq
        BY DEF ConsumerOK
      <3>2. QED
        BY <3>1, LesserOfTwo
    <2>2. CASE Bisect(low, probe)
      <3>1. UNCHANGED <<shared, args, found, saw>> /\ at \in Recovering
        BY <1>4 DEF RecoverProbe, Recovering
      <3> HIDE DEF probe
      <3>2. QED
        BY <1>2, <2>1, <2>2, <3>1
    <2>3. CASE /\ low' = probe /\ span' = Lesser(2 * span, MaxSeq) /\ Send("vProbe")
      <3>1. UNCHANGED <<shared, args, found, saw>> /\ at = "vProbe"
        BY <1>4 DEF RecoverProbe
      <3> HIDE DEF probe
      <3>2. QED
        BY <2>1, <2>3, <3>1, SameObjects DEF ConsumerOK, LocalsOK, Requests
    <2>4. QED
      BY <1>4, <2>2, <2>3 DEF RecoverProbe
  <1>5. CASE RecoverSearch
    <2> DEFINE mid == low + (span - low) \div 2
    <2>1. mid \in 0..MaxSeq /\ low \in 0..MaxSeq /\ span \in 0..MaxSeq
      BY DEF ConsumerOK
    <2>2. Bisect(mid, span) \/ Bisect(low, mid)
      BY <1>5 DEF RecoverSearch
    <2>3. UNCHANGED <<shared, args, found, saw>> /\ at \in Recovering
      BY <1>5 DEF RecoverSearch, Recovering
    <2> HIDE DEF mid
    <2>4. QED
      BY <1>2, <2>1, <2>2, <2>3
  <1>6. CASE RecoverVerify
    <2>1. CASE HintDone /\ Kept
      BY <1>1, <2>1
    <2>2. CASE /\ Shown(low) # None /\ fetched' = Shown(low) /\ span' = 0 /\ Send("hGet")
               /\ UNCHANGED <<shared, args, last, stopped, complete, saw, low>>
      <3>1. fetched' \in Events \cup {Genesis} /\ fetched' # None
        BY <2>2, GotType DEF ConsumerOK
      <3>2. QED
        BY <2>2, <3>1, SameObjects DEF ConsumerOK, LocalsOK, Requests
    <2>3. QED
      BY <1>6, <2>1, <2>2 DEF RecoverVerify
  <1>7. CASE HintGet
    <2>1. CASE HintDone /\ Kept
      BY <1>1, <2>1
    <2>2. CASE /\ saw' = hint /\ UNCHANGED <<shared, args, found, repair>>
               /\ Send(IF hint # None /\ hint.seq > low THEN "hCheck" ELSE "hCas")
      <3>1. at = "hGet" /\ (at' = "hCheck" => saw' # None) /\ at' \in {"hCheck", "hCas"}
        BY <1>7, <2>2 DEF HintGet
      <3>2. QED
        BY <2>2, <3>1, SameObjects DEF ConsumerOK, LocalsOK, Requests, ObjectsOK
    <2>3. QED
      BY <1>7, <2>1, <2>2 DEF HintGet
  <1>8. CASE HintCheck
    <2>1. CASE HintDone /\ Kept
      BY <1>1, <2>1
    <2>2. CASE at = "hCheck" /\ Send("hCas") /\ UNCHANGED <<shared, args, found, saw, repair>>
      BY <2>2, SameObjects DEF ConsumerOK, LocalsOK, Requests
    <2>3. QED
      BY <1>8, <2>1, <2>2 DEF HintCheck
  <1>9. CASE HintCas
    <2>1. /\ hint' \in {hint, Desired} /\ HintDone /\ UNCHANGED <<log, floor, cursor>>
          /\ at = "hCas"
      BY <1>9 DEF HintCas
    <2>2. Desired \in Marks
      <3>1. fetched \in Events \cup {Genesis} /\ low \in 0..MaxSeq
        BY <2>1 DEF ConsumerOK, LocalsOK
      <3>2. QED
        BY <3>1, MarkMade DEF Desired
    <2>3. QED
      BY <2>1, <2>2, HintDoneType DEF ObjectsOK
  <1>10. QED
    BY <1>3, <1>4, <1>5, <1>6, <1>7, <1>8, <1>9

LEMMA CursorType ==
  ASSUME TypeInv,
         \/ \E s \in Seqs : AdvanceCursor(s)
         \/ ReadCursor \/ CursorTarget \/ CursorGone \/ CursorRead \/ CursorVerify
         \/ CursorFloor \/ CursorWrite
  PROVE  TypeInv'
  <1> USE Numbers DEF TypeInv, Send, args, found, repair
  <1> USE DEF Creating, Witnessing, Advancing, Strict, Placing, Cursing
  <1>0. {"Empty", "OffsetExpired", "EventMissing", "Cursor", "CursorNotMonotonic",
         "CursorCorrupt", "Unavailable"} \subseteq Replies
    BY DEF Replies
  <1>1. ASSUME NEW s \in Seqs, AdvanceCursor(s)
        PROVE  TypeInv'
    BY <1>1, SameObjects DEF AdvanceCursor, ConsumerOK, LocalsOK, Requests, Ops
  <1>2. CASE ReadCursor
    BY <1>2, SameObjects DEF ReadCursor, ConsumerOK, LocalsOK, Requests, Ops
  <1>3. CASE CursorTarget
    <2>1. /\ fetched' = Shown(limit) /\ at = "kTarget" /\ at' \in {"kGone", "kRead"}
          /\ at' = "kRead" => fetched' # None
          /\ reply' = None /\ UNCHANGED <<shared, args, last, stopped, complete, saw, repair>>
      BY <1>3 DEF CursorTarget
    <2>2. fetched' \in Events \cup {Genesis, None}
      BY <2>1, GotType DEF LocalsOK
    <2>3. limit \in Seqs
      BY <2>1 DEF LocalsOK
    <2>4. QED
      BY <2>1, <2>2, <2>3, SameObjects DEF ConsumerOK, LocalsOK, Requests
  <1>4. CASE CursorGone
    BY <1>0, <1>4, SameObjects, AnswerType DEF CursorGone
  <1>5. CASE CursorRead
    <2>1. ObjectsOK'
      BY <1>5, SameObjects DEF CursorRead
    <2>2. CASE Reply("Empty")
      BY <1>0, <2>1, <2>2, AnswerType
    <2>3. CASE /\ at = "kRead" /\ (cursor # None \/ limit # 0) /\ saw' = cursor
               /\ Send(IF cursor = None THEN "kWrite" ELSE "kVerify")
               /\ UNCHANGED <<args, found, repair>>
      <3>1. /\ at' = "kVerify" => saw' # None
            /\ at' = "kWrite" => limit \in Seqs
            /\ at' \in {"kVerify", "kWrite"}
        BY <2>3 DEF ConsumerOK, LocalsOK
      <3>2. QED
        BY <2>1, <2>3, <3>1 DEF ConsumerOK, LocalsOK, Requests, ObjectsOK
    <2>4. QED
      BY <1>5, <2>2, <2>3 DEF CursorRead
  <1>6. ASSUME CursorPlace, at \in {"kVerify", "kFloor"}, UNCHANGED shared
        PROVE  TypeInv'
    <2>1. CASE Reply("Cursor") \/ Reply("CursorNotMonotonic")
      BY <1>0, <1>6, <2>1, SameObjects, AnswerType
    <2>2. CASE saw.seq < limit /\ Send("kWrite") /\ UNCHANGED <<args, found, saw, repair>>
      <3>1. limit \in Seqs
        BY <1>6, <2>2, MarkFields DEF ConsumerOK, LocalsOK
      <3>2. QED
        BY <1>6, <2>2, <3>1, SameObjects DEF ConsumerOK, LocalsOK, Requests
    <2>3. QED
      BY <1>6, <2>1, <2>2 DEF CursorPlace
  <1>7. CASE CursorVerify
    <2>1. UNCHANGED shared /\ ObjectsOK' /\ at = "kVerify"
      BY <1>7, SameObjects DEF CursorVerify
    <2>2. CASE CursorPlace
      BY <1>6, <2>1, <2>2
    <2>3. CASE Reply("CursorCorrupt")
      BY <1>0, <2>1, <2>3, AnswerType
    <2>4. CASE Send("kFloor") /\ UNCHANGED <<args, found, saw, repair>>
      BY <2>1, <2>4 DEF ConsumerOK, LocalsOK, Requests
    <2>5. QED
      BY <1>7, <2>2, <2>3, <2>4 DEF CursorVerify
  <1>8. CASE CursorFloor
    <2>1. UNCHANGED shared /\ ObjectsOK' /\ at = "kFloor"
      BY <1>8, SameObjects DEF CursorFloor
    <2>2. CASE CursorPlace
      BY <1>6, <2>1, <2>2
    <2>3. CASE Reply("CursorCorrupt") \/ Reply("OffsetExpired")
      BY <1>0, <2>1, <2>3, AnswerType
    <2>4. QED
      BY <1>8, <2>2, <2>3 DEF CursorFloor
  <1>9. CASE CursorWrite
    <2> DEFINE desired == [seq |-> limit, event |-> fetched]
    <2>1. UNCHANGED <<log, floor, hint, migrated>> /\ at = "kWrite"
      BY <1>9 DEF CursorWrite
    <2>2. CASE /\ saw' = None /\ Send("kRead") /\ UNCHANGED <<cursor, args, found, repair>>
      BY <2>1, <2>2 DEF ConsumerOK, LocalsOK, Requests, ObjectsOK
    <2>3. CASE /\ cursor' \in {cursor, desired}
               /\ Reply("Cursor") \/ Reply("Unavailable")
      <3>1. desired \in Marks
        <4>1. limit \in 0..MaxSeq /\ fetched \in Events \cup {Genesis}
          BY <2>1 DEF ConsumerOK, LocalsOK
        <4>2. QED
          BY <4>1, MarkMade
      <3>2. QED
        BY <1>0, <2>1, <2>3, <3>1, AnswerType DEF ObjectsOK
    <2>4. QED
      BY <1>9, <2>2, <2>3 DEF CursorWrite
  <1>10. QED
    BY <1>1, <1>2, <1>3, <1>4, <1>5, <1>7, <1>8, <1>9

LEMMA MigrateType ==
  ASSUME TypeInv, (\E h \in Histories : MigrateLog(h)) \/ MigrateCreate \/ MigrateReadback
  PROVE  TypeInv'
  <1> USE Numbers DEF TypeInv, Send, args, found, repair
  <1> USE DEF Creating, Witnessing, Advancing, Strict, Placing, Cursing
  <1>0. {"BackendUnqualified", "InvalidArgument", "Unavailable"} \subseteq Replies
    BY DEF Replies
  <1>1. ASSUME NEW h \in Histories, MigrateLog(h)
        PROVE  TypeInv'
    BY <1>1, HistoryEntries, SameObjects DEF MigrateLog, ConsumerOK, LocalsOK, Requests, Ops
  <1>2. ASSUME at \in Creating
        PROVE  history \in Histories /\ last + 1 \in 1..Len(history) /\ last + 1 \in Seqs
    <2>1. history \in Histories /\ last < Len(history) /\ last \in Nat
      BY <1>2 DEF ConsumerOK, LocalsOK
    <2>2. Len(history) \in 1..MaxSeq
      BY <2>1, HistoryEntries
    <2>3. QED
      BY <2>1, <2>2
  <1>3. ASSUME at \in Creating, Entered, ObjectsOK'
        PROVE  TypeInv'
    <2>1. history \in Histories /\ last + 1 \in 1..Len(history) /\ last + 1 \in Seqs
      BY <1>2, <1>3
    <2>2. End \in 0..MaxSeq
      BY EndType
    <2>3. /\ UNCHANGED <<op, after, limit, history, stopped, complete, fetched, saw, low, span>>
          /\ reply' = None
          /\ op = "migrate" /\ after = 0
      BY <1>3 DEF Entered, LocalsOK
    <2>4. CASE last + 1 = Len(history)
      <3>1. last' = 0 /\ began' = End /\ at' = "rFloor"
        BY <1>3, <2>4 DEF Entered
      <3>2. QED
        BY <1>3, <2>1, <2>2, <2>3, <3>1 DEF ConsumerOK, LocalsOK, Requests
    <2>5. CASE last + 1 # Len(history)
      <3>1. last' = last + 1 /\ began' = 0 /\ at' = "mCreate"
        BY <1>3, <2>5 DEF Entered
      <3>2. last' < Len(history)
        <4>1. Len(history) \in Nat
          BY <2>1, HistoryEntries
        <4>2. QED
          BY <2>1, <2>5, <3>1, <4>1
      <3>3. QED
        BY <1>3, <2>1, <2>3, <3>1, <3>2 DEF ConsumerOK, LocalsOK, Requests
    <2>6. QED
      BY <2>4, <2>5
  <1>4. CASE MigrateCreate
    <2>1. /\ at = "mCreate" /\ at \in Creating
          /\ UNCHANGED <<floor, hint, cursor, migrated>>
      BY <1>4 DEF MigrateCreate
    <2>2. CASE /\ log' = [log EXCEPT ![last + 1] = history[last + 1]]
               /\ Entered \/ Reply("Unavailable")
      <3>1. history[last + 1] \in Events
        BY <1>2, <2>1, HistoryEntries
      <3>2. ObjectsOK'
        BY <2>1, <2>2, <3>1 DEF ObjectsOK
      <3>3. QED
        BY <1>0, <1>3, <2>1, <2>2, <3>2, AnswerType
    <2>3. CASE Send("mReadback") /\ UNCHANGED <<log, args, found, saw, repair>>
      BY <2>1, <2>3 DEF ConsumerOK, LocalsOK, Requests, ObjectsOK
    <2>4. QED
      BY <1>4, <2>2, <2>3 DEF MigrateCreate
  <1>5. CASE MigrateReadback
    <2>1. at \in Creating /\ ObjectsOK'
      BY <1>5, SameObjects DEF MigrateReadback
    <2>2. CASE Entered
      BY <1>3, <2>1, <2>2
    <2>3. CASE \E k \in Replies : Reply(k)
      BY <2>1, <2>3, AnswerType
    <2>4. QED
      BY <1>0, <1>5, <2>2, <2>3 DEF MigrateReadback
  <1>6. QED
    BY <1>1, <1>4, <1>5

LEMMA OutsideType ==
  ASSUME TypeInv,
         LogElsewhere \/ Interrupt \/ \E s \in Seqs : HintElsewhere(s) \/ CursorElsewhere(s)
  PROVE  TypeInv'
  <1> USE Numbers DEF TypeInv
  <1>1. ASSUME Outside, ObjectsOK'
        PROVE  TypeInv'
    BY <1>1 DEF Outside, args, found, repair, ConsumerOK, LocalsOK
  <1>2. CASE LogElsewhere
    <2>1. PICK s \in Seqs : Certify(s) \/ Sweep(s) \/ \E e \in Written[s] : Land(s, e)
      BY <1>2 DEF LogElsewhere
    <2>2. /\ floor' \in {floor, s}
          /\ log' = log \/ \E e \in Written[s] \cup {None} : log' = [log EXCEPT ![s] = e]
      BY <2>1 DEF Certify, Sweep, Land
    <2>3. Written[s] \subseteq Events
      BY ReadAssumption
    <2>4. ObjectsOK'
      BY <1>2, <2>2, <2>3 DEF LogElsewhere, Outside, ObjectsOK
    <2>5. QED
      BY <1>1, <1>2, <2>4 DEF LogElsewhere
  <1>3. CASE Interrupt
    <2>1. "Unavailable" \in Replies
      BY DEF Replies
    <2>2. QED
      BY <1>3, <2>1, AnswerType, SameObjects DEF Interrupt
  <1>4. ASSUME NEW s \in Seqs, HintElsewhere(s) \/ CursorElsewhere(s)
        PROVE  TypeInv'
    <2>1. log[s] \in Events
      BY <1>4 DEF HintElsewhere, CursorElsewhere, ObjectsOK
    <2>2. [seq |-> s, event |-> log[s]] \in Marks
      BY <2>1, MarkMade
    <2>3. Outside /\ UNCHANGED <<log, floor>>
      BY <1>4 DEF HintElsewhere, CursorElsewhere
    <2>4. ObjectsOK'
      BY <1>4, <2>2, <2>3 DEF HintElsewhere, CursorElsewhere, Outside, ObjectsOK
    <2>5. QED
      BY <1>1, <2>3, <2>4
  <1>5. QED
    BY <1>2, <1>3, <1>4

LEMMA NextType == TypeInv /\ [ConsumerNext]_consumerVars => TypeInv'
  <1>1. ASSUME TypeInv, UNCHANGED consumerVars
        PROVE  TypeInv'
    BY <1>1 DEF consumerVars, TypeInv, ObjectsOK, ConsumerOK, LocalsOK
  <1>2. ASSUME TypeInv, ConsumerNext
        PROVE  TypeInv'
    BY <1>2, ReplayType, RecoverType, CursorType, MigrateType, OutsideType DEF ConsumerNext
  <1>3. QED
    BY <1>1, <1>2

\* Everything the consumer holds, and every hint, cursor and answer, is of its type:
\* a walk, a recovery or a migration never leaves the numbers of the log, and no hint
\* or cursor is written that names no event.
THEOREM ConsumerTypeCorrect == ConsumerSpec => []ConsumerTypeOK
  <1>1. ConsumerSpec => []TypeInv
    BY InitType, NextType, PTL DEF ConsumerSpec
  <1>2. QED
    BY <1>1, TypeParts, PTL

-----------------------------------------------------------------------------
(* Migration: the entries that are done are in the log, until trimmed, and *)
(* so is every history a receipt was given for.                            *)

Migrating == {"migrate", "migrated"}

\* The first n entries of h are at their numbers.
Holds(h, n) == \A s \in 1..n : s < floor \/ log[s] = h[s]

MigrationOK ==
  /\ at \in Creating => Holds(history, last)
  /\ op \in Migrating /\ at \notin Creating => Holds(history, Len(history))

MigrationInv == TypeInv /\ StoreInv /\ MigrationOK /\ MigrationIsTrue

LEMMA InitMigration == ConsumerInit => MigrationInv
  <1> SUFFICES ASSUME ConsumerInit PROVE MigrationInv
    OBVIOUS
  <1>1. TypeInv /\ StoreInv
    BY InitType, StoreInitInv DEF ConsumerInit
  <1>2. MigrationOK /\ MigrationIsTrue
    BY OpsAssumption DEF ConsumerInit, Ops, Creating, Migrating, MigrationOK, MigrationIsTrue
  <1>3. QED
    BY <1>1, <1>2 DEF MigrationInv

\* What no step but migrate_log's creates does to a migration: the call goes on
\* elsewhere with the same history, it ends, or others move.
Onward ==
  /\ \/ op' \notin Migrating /\ at' \notin Creating
     \/ op \in Migrating /\ history' = history /\ at \notin Creating /\ at' \notin Creating
     \/ UNCHANGED <<op, at, last, history>>
  /\ \/ migrated' = migrated
     \/ op = "migrated" /\ migrated' = migrated \cup {history}

LEMMA AnswerOnward ==
  ASSUME NEW k, Reply(k)
  PROVE  op' \notin Migrating /\ at' \notin Creating
  BY OpsAssumption DEF Reply, Ops, Migrating, Creating

LEMMA ReadAnswerOnward ==
  ASSUME NEW k, ReadAnswer(k), at \notin Creating
  PROVE  /\ at' \notin Creating
         /\ op' \in Migrating => op \in Migrating /\ history' = history
  <1>1. CASE Reply(k) \/ Reply("BackendUnqualified")
    BY <1>1, AnswerOnward
  <1>2. CASE ~ (Reply(k) \/ Reply("BackendUnqualified"))
    BY <1>2 DEF ReadAnswer, Send, Migrating, Creating
  <1>3. QED
    BY <1>1, <1>2

LEMMA HintDoneOnward ==
  ASSUME HintDone, at \notin Creating
  PROVE  Onward
  <1>1. CASE op # "migrated"
    <2>1. (\E k \in Replies : ReadAnswer(k)) /\ migrated' = migrated
      BY <1>1 DEF HintDone, Replies
    <2>2. QED
      BY <1>1, <2>1, ReadAnswerOnward DEF Onward
  <1>2. CASE op = "migrated"
    BY <1>2, AnswerOnward DEF HintDone, Onward
  <1>3. QED
    BY <1>1, <1>2

LEMMA StepOnward ==
  ASSUME TypeInv, ConsumerNext,
         ~ ((\E h \in Histories : MigrateLog(h)) \/ MigrateCreate \/ MigrateReadback)
  PROVE  Onward /\ (LogElsewhere \/ UNCHANGED <<log, floor>>)
  <1> USE DEF Send, args, shared
  <1> USE DEF Onward, Creating, Migrating
  <1>1. CASE \E a \in 0..MaxSeq, l \in Limits : Read(a, l) \/ \E t \in 0..MaxSeq : ReadRange(a, t, l)
    BY <1>1 DEF Read, ReadRange
  <1>2. CASE ReadFloor \/ ReadFetch
    BY <1>2, AnswerOnward, ReadAnswerOnward DEF ReadFloor, ReadFetch
  <1>3. CASE ReadProbe \/ HintRead
    BY <1>3, AnswerOnward DEF ReadProbe, HintRead
  <1>4. CASE CutRecord \/ EndRecord
    BY <1>4, AnswerOnward, ReadAnswerOnward DEF CutRecord, EndRecord, Recover
  <1>5. CASE ReadSuccessor \/ HealRecord
    BY <1>5, AnswerOnward, ReadAnswerOnward DEF ReadSuccessor, HealRecord
  <1>6. CASE StrictFloor \/ StrictFetch
    BY <1>6, AnswerOnward DEF StrictFloor, StrictFetch
  <1>7. CASE RecoverFrom
    <2>1. CASE HintDone /\ Kept
      BY <1>7, <2>1, HintDoneOnward DEF RecoverFrom, Kept
    <2>2. CASE ~ (HintDone /\ Kept)
      BY <1>7, <2>2 DEF RecoverFrom
    <2>3. QED
      BY <2>1, <2>2
  <1>8. CASE RecoverProbe \/ RecoverSearch
    BY <1>8 DEF RecoverProbe, RecoverSearch, Bisect
  <1>9. CASE RecoverVerify
    <2>1. CASE HintDone /\ Kept
      BY <1>9, <2>1, HintDoneOnward DEF RecoverVerify, Kept
    <2>2. CASE ~ (HintDone /\ Kept)
      BY <1>9, <2>2 DEF RecoverVerify
    <2>3. QED
      BY <2>1, <2>2
  <1>10. CASE HintGet
    <2>1. CASE HintDone /\ Kept
      BY <1>10, <2>1, HintDoneOnward DEF HintGet, Kept
    <2>2. CASE ~ (HintDone /\ Kept)
      BY <1>10, <2>2 DEF HintGet
    <2>3. QED
      BY <2>1, <2>2
  <1>11. CASE HintCheck
    <2>1. CASE HintDone /\ Kept
      BY <1>11, <2>1, HintDoneOnward DEF HintCheck, Kept
    <2>2. CASE ~ (HintDone /\ Kept)
      BY <1>11, <2>2 DEF HintCheck
    <2>3. QED
      BY <2>1, <2>2
  <1>12. CASE HintCas
    BY <1>12, HintDoneOnward DEF HintCas
  <1>13. CASE (\E s \in Seqs : AdvanceCursor(s)) \/ ReadCursor \/ CursorTarget \/ CursorGone
              \/ CursorRead
    BY <1>13, AnswerOnward
    DEF AdvanceCursor, ReadCursor, CursorTarget, CursorGone, CursorRead
  <1>14. CASE CursorVerify \/ CursorFloor
    BY <1>14, AnswerOnward DEF CursorVerify, CursorFloor, CursorPlace
  <1>15. CASE CursorWrite
    BY <1>15, AnswerOnward DEF CursorWrite
  <1>16. CASE LogElsewhere \/ \E s \in Seqs : HintElsewhere(s) \/ CursorElsewhere(s)
    BY <1>16 DEF LogElsewhere, HintElsewhere, CursorElsewhere, Outside, found
  <1>17. CASE Interrupt
    BY <1>17, AnswerOnward DEF Interrupt
  <1>18. QED
    <2> HIDE DEF Onward
    <2>1. QED
      BY <1>1, <1>2, <1>3, <1>4, <1>5, <1>6, <1>7, <1>8, <1>9, <1>10, <1>11, <1>12, <1>13,
         <1>14, <1>15, <1>16, <1>17 DEF ConsumerNext

\* The steps of migrate_log before its verification.
MigrateSteps == (\E h \in Histories : MigrateLog(h)) \/ MigrateCreate \/ MigrateReadback

\* A create finds its number taken, or it is the next one, or it is below the floor:
\* all the numbers before it were done.
LEMMA CreateLands ==
  ASSUME MigrationInv, at \in Creating, log[last + 1] = None
  PROVE  /\ history \in Histories /\ last + 1 \in Seqs /\ last + 1 \in 1..Len(history)
         /\ last + 1 = End + 1 \/ last + 1 < floor
  <1>1. /\ history \in Histories /\ last < Len(history) /\ last \in 0..MaxSeq
        /\ Holds(history, last)
    BY DEF MigrationInv, TypeInv, ConsumerOK, LocalsOK, MigrationOK
  <1>2. last + 1 \in Seqs /\ last + 1 \in 1..Len(history)
    BY <1>1, HistoryEntries, Numbers
  <1>3. last <= End
    <2>1. /\ floor \in 0..MaxSeq /\ End \in 0..MaxSeq /\ floor <= End + 1
          /\ \A s \in Landed : s <= End
      BY EndType DEF MigrationInv, TypeInv, ObjectsOK, IsEnd
    <2>2. CASE last = 0 \/ last < floor
      BY <1>1, <2>1, <2>2
    <2>3. CASE last # 0 /\ ~ (last < floor)
      <3>1. last \in 1..last /\ last \in Seqs /\ last \in 1..Len(history)
        BY <1>1, <1>2, <2>3, HistoryEntries, Numbers
      <3>2. log[last] = history[last] /\ history[last] \in Events
        BY <1>1, <2>3, <3>1, HistoryEntries DEF Holds
      <3>3. last \in Landed
        BY <3>1, <3>2, Numbers DEF Landed
      <3>4. QED
        BY <2>1, <3>3
    <2>4. QED
      BY <2>2, <2>3
  <1>4. End \in 0..MaxSeq
    BY EndType DEF MigrationInv, TypeInv
  <1>5. last + 1 = End + 1 \/ last + 1 < floor
    BY <1>2, <1>3, <1>4, <1>1, FreeNumber DEF MigrationInv
  <1>6. QED
    BY <1>1, <1>2, <1>5

\* Whatever the consumer and the others do, the log is StreamStore's.
LEMMA StepOfStore ==
  ASSUME MigrationInv, [ConsumerNext]_consumerVars
  PROVE  StoreNext \/ UNCHANGED <<log, floor>>
  <1>1. CASE UNCHANGED consumerVars
    BY <1>1 DEF consumerVars
  <1>2. CASE ConsumerNext /\ ~ MigrateSteps
    <2>1. LogElsewhere \/ UNCHANGED <<log, floor>>
      BY <1>2, StepOnward DEF MigrateSteps, MigrationInv
    <2>2. \A s \in Seqs : Written[s] \subseteq Events
      BY ReadAssumption
    <2>3. QED
      BY <2>1, <2>2 DEF LogElsewhere, StoreNext
  <1>3. CASE MigrateSteps
    <2>1. CASE (\E h \in Histories : MigrateLog(h)) \/ MigrateReadback
      BY <2>1 DEF MigrateLog, MigrateReadback, shared
    <2>2. CASE MigrateCreate
      <3>1. CASE log[last + 1] = None
        <4>1. /\ history \in Histories /\ last + 1 \in Seqs /\ last + 1 \in 1..Len(history)
              /\ last + 1 = End + 1 \/ last + 1 < floor
          BY <2>2, <3>1, CreateLands DEF MigrateCreate, Creating
        <4>2. history[last + 1] \in Events
          BY <4>1, HistoryEntries
        <4>3. Land(last + 1, history[last + 1])
          BY <2>2, <3>1, <4>1 DEF MigrateCreate, Land
        <4>4. QED
          BY <4>1, <4>2, <4>3 DEF StoreNext
      <3>2. CASE log[last + 1] # None
        BY <2>2, <3>2 DEF MigrateCreate
      <3>3. QED
        BY <3>1, <3>2
    <2>3. QED
      BY <1>3, <2>1, <2>2 DEF MigrateSteps
  <1>4. QED
    BY <1>1, <1>2, <1>3

\* An entry that is there stays there until the floor has passed it.
LEMMA HoldsStays ==
  ASSUME MigrationInv, StoreNext \/ UNCHANGED <<log, floor>>,
         NEW h \in Histories, NEW n \in 0..Len(h), Holds(h, n)
  PROVE  Holds(h, n)'
  <1>1. CASE UNCHANGED <<log, floor>>
    BY <1>1 DEF Holds
  <1>2. CASE StoreNext
    <2>1. /\ floor <= floor'
          /\ \A s \in Seqs : log[s] # None /\ floor' <= s => log'[s] = log[s]
      BY <1>2, StoreKeeps DEF MigrationInv
    <2>2. floor \in Int /\ floor' \in Int
      BY <1>2, StoreStep DEF MigrationInv, StoreInv, StoreType
    <2>3. ASSUME NEW s \in 1..n
          PROVE  s < floor' \/ log'[s] = h[s]
      <3>1. s \in Seqs /\ h[s] \in Events
        BY HistoryEntries, Numbers
      <3>2. QED
        BY <2>1, <2>2, <3>1, Numbers DEF Holds
    <2>4. QED
      BY <2>3 DEF Holds
  <1>3. QED
    BY <1>1, <1>2

\* One more entry is done.
LEMMA EnteredHolds ==
  ASSUME MigrationInv, StoreNext \/ UNCHANGED <<log, floor>>, at \in Creating, Entered,
         log'[last + 1] = history[last + 1]
  PROVE  MigrationOK'
  <1>1. /\ history \in Histories /\ last < Len(history) /\ last \in 0..MaxSeq
        /\ Holds(history, last) /\ history' = history /\ op' = "migrate"
    BY DEF MigrationInv, TypeInv, ConsumerOK, LocalsOK, MigrationOK, Entered
  <1>2. PICK h \in Histories : h = history
    BY <1>1
  <1>3. PICK n \in 0..Len(h) : n = last
    BY <1>1, <1>2, HistoryEntries
  <1>4. Holds(h, n)'
    BY <1>1, <1>2, <1>3, HoldsStays
  <1>5. ASSUME NEW s \in 1..(n + 1)
        PROVE  s < floor' \/ log'[s] = h[s]
    BY <1>2, <1>3, <1>4, <1>5 DEF Holds
  <1>6. CASE last + 1 = Len(history)
    <2>1. at' \notin Creating
      BY <1>6 DEF Entered, Send, Creating
    <2>2. QED
      BY <1>1, <1>2, <1>3, <1>5, <1>6, <2>1 DEF Holds, MigrationOK
  <1>7. CASE last + 1 # Len(history)
    <2>1. at' \in Creating /\ last' = last + 1
      BY <1>7 DEF Entered, Send, Creating
    <2>2. QED
      BY <1>1, <1>2, <1>3, <1>5, <2>1 DEF Holds, MigrationOK
  <1>8. QED
    BY <1>6, <1>7

LEMMA NextMigration == MigrationInv /\ [ConsumerNext]_consumerVars => MigrationInv'
  <1> SUFFICES ASSUME MigrationInv, [ConsumerNext]_consumerVars
               PROVE  MigrationInv'
    OBVIOUS
  <1>1. TypeInv'
    BY NextType DEF MigrationInv
  <1>2. StoreNext \/ UNCHANGED <<log, floor>>
    BY StepOfStore
  <1>3. StoreInv'
    <2>1. CASE StoreNext
      BY <2>1, StoreStep DEF MigrationInv
    <2>2. CASE UNCHANGED <<log, floor>>
      BY <2>2 DEF MigrationInv, StoreInv, StoreType, Gapless, End, Landed
    <2>3. QED
      BY <1>2, <2>1, <2>2
  <1>4. \A h \in Histories : \A n \in 0..Len(h) : Holds(h, n) => Holds(h, n)'
    BY <1>2, HoldsStays
  <1>5. /\ at \in Creating => op = "migrate" /\ last < Len(history) /\ last \in 0..MaxSeq
        /\ op \in Migrating => history \in Histories
    BY DEF MigrationInv, TypeInv, ConsumerOK, LocalsOK, Migrating
  <1>6. \A h \in Histories : Len(h) \in Nat
    BY HistoryEntries
  <1>7. MigrationOK'
    <2>1. CASE UNCHANGED consumerVars
      BY <1>4, <1>5, <1>6, <2>1 DEF consumerVars, MigrationInv, MigrationOK, Holds, Migrating
    <2>2. CASE ConsumerNext /\ ~ MigrateSteps
      <3>1. Onward
        BY <2>2, StepOnward DEF MigrateSteps, MigrationInv
      <3>2. CASE op' \notin Migrating /\ at' \notin Creating
        BY <3>2 DEF MigrationOK
      <3>3. CASE /\ op \in Migrating /\ history' = history /\ at \notin Creating
                 /\ at' \notin Creating
        <4>1. Holds(history, Len(history)) /\ history \in Histories
          BY <1>5, <3>3 DEF MigrationInv, MigrationOK
        <4>2. PICK h \in Histories : h = history
          BY <4>1
        <4>3. Holds(h, Len(h))'
          BY <1>4, <1>6, <4>1, <4>2
        <4>4. QED
          BY <3>3, <4>2, <4>3 DEF MigrationOK, Holds
      <3>4. CASE UNCHANGED <<op, at, last, history>>
        BY <1>4, <1>5, <1>6, <3>4 DEF MigrationInv, MigrationOK, Holds, Migrating
      <3>5. QED
        BY <3>1, <3>2, <3>3, <3>4 DEF Onward
    <2>3. CASE \E h \in Histories : MigrateLog(h)
      BY <2>3, <1>1 DEF MigrateLog, Send, Creating, MigrationOK, Holds, MigrationInv, TypeInv,
                        LocalsOK, found
    <2>4. CASE MigrateCreate
      <3>1. at \in Creating /\ at = "mCreate" /\ floor' = floor
        BY <2>4 DEF MigrateCreate, Creating
      <3>2. CASE log[last + 1] = None /\ Entered
        <4>1. last + 1 \in Seqs /\ log' = [log EXCEPT ![last + 1] = history[last + 1]]
          BY <2>4, <3>1, <3>2, CreateLands DEF MigrateCreate
        <4>2. log'[last + 1] = history[last + 1]
          BY <4>1 DEF MigrationInv, TypeInv, ObjectsOK
        <4>3. QED
          BY <1>2, <3>1, <3>2, <4>2, EnteredHolds
      <3>3. CASE Reply("Unavailable")
        BY <3>3, AnswerOnward DEF MigrationOK
      <3>4. CASE log[last + 1] # None
        <4>1. /\ UNCHANGED <<log, op, after, limit, history, began, last>> /\ at' \in Creating
          BY <2>4, <3>4 DEF MigrateCreate, Send, args, found, Creating
        <4>2. QED
          BY <3>1, <4>1 DEF MigrationInv, MigrationOK, Holds
      <3>5. QED
        BY <2>4, <3>2, <3>3, <3>4 DEF MigrateCreate
    <2>5. CASE MigrateReadback
      <3>1. CASE log[last + 1] = history[last + 1] /\ Entered
        BY <1>2, <2>5, <3>1, EnteredHolds DEF MigrateReadback, shared, Creating
      <3>2. CASE \E k \in Replies : Reply(k)
        BY <3>2, AnswerOnward DEF MigrationOK
      <3>3. QED
        BY <2>5, <3>1, <3>2 DEF MigrateReadback, Replies
    <2>6. QED
      BY <2>1, <2>2, <2>3, <2>4, <2>5 DEF MigrateSteps
  <1>8. MigrationIsTrue'
    <2>1. \A h \in migrated : Holds(h, Len(h))'
      <3>1. migrated \subseteq Histories /\ \A h \in migrated : Holds(h, Len(h))
        BY DEF MigrationInv, TypeInv, ObjectsOK, MigrationIsTrue, Holds
      <3>2. QED
        BY <1>4, <1>6, <3>1
    <2>2. CASE migrated' = migrated
      BY <2>1, <2>2 DEF MigrationIsTrue, Holds
    <2>3. CASE op = "migrated" /\ migrated' = migrated \cup {history}
      <3>1. history \in Histories /\ at \notin Creating
        BY <1>5, <2>3 DEF Migrating
      <3>2. Holds(history, Len(history))
        BY <2>3, <3>1 DEF MigrationInv, MigrationOK, Migrating
      <3>3. PICK h \in Histories : h = history
        BY <3>1
      <3>4. Holds(h, Len(h))'
        BY <1>4, <1>6, <3>2, <3>3
      <3>5. QED
        BY <2>1, <2>3, <3>3, <3>4 DEF MigrationIsTrue, Holds
    <2>4. migrated' = migrated \/ (op = "migrated" /\ migrated' = migrated \cup {history})
      <3>1. CASE UNCHANGED consumerVars
        BY <3>1 DEF consumerVars
      <3>2. CASE ConsumerNext /\ ~ MigrateSteps
        BY <3>2, StepOnward DEF MigrateSteps, MigrationInv, Onward
      <3>3. CASE MigrateSteps
        BY <3>3 DEF MigrateSteps, MigrateLog, MigrateCreate, MigrateReadback, shared
      <3>4. QED
        BY <3>1, <3>2, <3>3
    <2>5. QED
      BY <2>2, <2>3, <2>4
  <1>9. QED
    BY <1>1, <1>3, <1>7, <1>8 DEF MigrationInv

LEMMA MigrationAlways == ConsumerSpec => []MigrationInv
  BY InitMigration, NextMigration, PTL DEF ConsumerSpec

\* migrate_log gives a receipt only for a history that is in the log, entry by entry
\* at its number, and no race with writers, trims and sweeps takes that back before a
\* trim passes the entry.
THEOREM MigrationIsTrueTheorem == ConsumerSpec => []MigrationIsTrue
  <1>1. MigrationInv => MigrationIsTrue
    BY DEF MigrationInv
  <1>2. QED
    BY <1>1, MigrationAlways, PTL

\* A consumer among writers, trims and sweeps keeps what StreamStore promises: the
\* entries migrate_log creates at numbers of its own choosing leave no hole.
THEOREM KeepsStreamStoreTheorem == ConsumerSpec => StoreSpec
  <1>1. ConsumerInit => StoreInit
    BY DEF ConsumerInit
  <1>2. MigrationInv /\ [ConsumerNext]_consumerVars => [StoreNext]_<<log, floor>>
    BY StepOfStore
  <1>3. QED
    BY <1>1, <1>2, MigrationAlways, PTL DEF ConsumerSpec, StoreSpec

-----------------------------------------------------------------------------
(* Replay: an absent number ends the log, and the end never moves back.    *)

Quiet == {"idle"} \cup Creating \cup Walking \cup Strict \cup Cursing
Healing == {"eHint", "eRecord"}

\* The read has all that was in the log when it began, or what follows is expired.
Witnessed == last >= began \/ last + 1 < floor

ReplayOK ==
  /\ began <= End
  /\ at \in Quiet => ~ stopped /\ ~ complete
  /\ stopped \/ complete => Witnessed
  /\ at \in Healing => complete

ReplayInv == MigrationInv /\ ReplayOK /\ CompleteIsTrue

LEMMA InitReplay == ConsumerInit => ReplayInv
  <1> SUFFICES ASSUME ConsumerInit PROVE ReplayInv
    OBVIOUS
  <1>1. MigrationInv
    BY InitMigration
  <1>2. End \in 0..MaxSeq
    BY <1>1, EndType DEF MigrationInv, TypeInv
  <1>3. ~ stopped /\ ~ complete
    BY Zenon DEF ConsumerInit
  <1>4. ReplayOK /\ CompleteIsTrue
    BY <1>2, <1>3 DEF ConsumerInit, ReplayOK, Healing, CompleteIsTrue
  <1>5. QED
    BY <1>1, <1>4 DEF ReplayInv

\* A number from the walk's successor on that is absent is past the end, or expired.
LEMMA AbsentIsWitness ==
  ASSUME MigrationInv, began <= End, last < MaxSeq, Shown(last + 1) = None
  PROVE  Witnessed
  <1>1. /\ last \in 0..MaxSeq /\ began \in 0..MaxSeq /\ End \in 0..MaxSeq
        /\ floor \in 0..MaxSeq
    BY EndType DEF MigrationInv, TypeInv, ConsumerOK, ObjectsOK
  <1>2. last + 1 \in Seqs /\ log[last + 1] = None
    BY <1>1, Numbers DEF Shown
  <1>3. last + 1 < floor \/ last + 1 > End
    BY <1>1, <1>2 DEF MigrationInv, StoreInv, Gapless
  <1>4. QED
    BY <1>1, <1>3 DEF Witnessed

\* What a step may do to the witnesses: the call ends, and says so only with one; it
\* goes on with what it has; it starts from none; or it finds one.
Ends(k) == Reply(k) /\ (k = "Complete" => complete)
Still ==
  /\ UNCHANGED <<last, began, stopped, complete>>
  /\ at' \in Quiet => at \in Quiet
  /\ at' \in Healing => at \in Healing
  /\ reply' = None
Fresh ==
  /\ ~ stopped' /\ ~ complete' /\ at' \notin Healing
  /\ began' \in {0, began, End}
  /\ reply' = None
Finds ==
  /\ UNCHANGED <<last, began>>
  /\ Witnessed /\ at' \notin Quiet
  /\ at' \in Healing => complete'
  /\ reply' = None
Outcome == (\E k : Ends(k)) \/ Still \/ Fresh \/ Finds

LEMMA ReadAnswerOutcome ==
  ASSUME NEW k, ReadAnswer(k), k = "Complete" => complete
  PROVE  Outcome
  <1>1. CASE Reply(k) \/ Reply("BackendUnqualified")
    BY <1>1 DEF Outcome, Ends
  <1>2. CASE /\ stopped' = FALSE /\ complete' = FALSE /\ Send("rFloor") /\ began' = began
    <2>1. ~ stopped' /\ ~ complete'
      BY <1>2, Zenon
    <2>2. Fresh
      BY <1>2, <2>1 DEF Fresh, Send, Healing
    <2>3. QED
      BY <2>2 DEF Outcome
  <1>3. CASE Send("hGet") /\ UNCHANGED <<last, stopped, complete, began>>
    BY <1>3 DEF Outcome, Still, Send, Quiet, Healing, Creating, Walking, Strict, Cursing, Placing
  <1>4. QED
    BY <1>1, <1>2, <1>3 DEF ReadAnswer

LEMMA HintDoneOutcome ==
  ASSUME HintDone
  PROVE  Outcome
  <1>1. CASE op # "migrated"
    BY <1>1, ReadAnswerOutcome DEF HintDone
  <1>2. CASE op = "migrated"
    BY <1>2 DEF HintDone, Outcome, Ends
  <1>3. QED
    BY <1>1, <1>2

LEMMA WalkOutcome ==
  ASSUME ReplayInv,
         \/ \E a \in 0..MaxSeq, l \in Limits : Read(a, l) \/ \E t \in 0..MaxSeq : ReadRange(a, t, l)
         \/ ReadFloor \/ ReadFetch \/ ReadProbe \/ HintRead \/ CutRecord \/ EndRecord
         \/ ReadSuccessor \/ HealRecord \/ StrictFloor \/ StrictFetch
  PROVE  Outcome
  <1> USE DEF Send, args, found, repair, ReplayInv
  <1> USE DEF Quiet, Healing, Creating, Walking, Strict, Cursing, Placing
  <1>1. ASSUME NEW a \in 0..MaxSeq, NEW l \in Limits,
               Read(a, l) \/ \E t \in 0..MaxSeq : ReadRange(a, t, l)
        PROVE  Outcome
    <2>1. ~ stopped /\ ~ complete /\ UNCHANGED <<stopped, complete>>
      BY <1>1 DEF Read, ReadRange, ReplayOK
    <2>2. Fresh
      BY <1>1, <2>1 DEF Read, ReadRange, Fresh
    <2>3. QED
      BY <2>2 DEF Outcome
  <1>2. CASE ReadFloor
    <2>1. CASE Reply("OffsetExpired")
      BY <2>1 DEF Outcome, Ends
    <2>2. CASE ReadAnswer("Empty")
      BY <2>2, ReadAnswerOutcome
    <2>3. CASE at = "rFloor" /\ Send("rFetch") /\ UNCHANGED <<args, found, saw, repair>>
      BY <2>3 DEF Outcome, Still
    <2>4. QED
      BY <1>2, <2>1, <2>2, <2>3 DEF ReadFloor
  <1>3. CASE ReadFetch
    <2>1. /\ last < MaxSeq /\ ~ stopped /\ ~ complete /\ began <= End
      BY <1>3 DEF ReadFetch, ReplayOK, MigrationInv, TypeInv, LocalsOK
    <2>2. CASE Shown(last + 1) # None
      BY <1>3, <2>1, <2>2 DEF ReadFetch, Outcome, Fresh
    <2>3. CASE Shown(last + 1) = None
      <3>1. Witnessed
        BY <2>1, <2>3, AbsentIsWitness
      <3>2. QED
        BY <1>3, <2>3, <3>1 DEF ReadFetch, Outcome, Finds
    <2>4. QED
      BY <2>2, <2>3
  <1>4. CASE ReadProbe
    <2>1. CASE \E k : k # "Complete" /\ Reply(k)
      BY <2>1 DEF Outcome, Ends
    <2>2. CASE /\ at = "rProbe"
               /\ Send("rHint") \/ Send("cutHint")
               /\ UNCHANGED <<args, found, saw, repair>>
      BY <2>2 DEF Outcome, Still
    <2>3. QED
      BY <1>4, <2>1, <2>2 DEF ReadProbe
  <1>5. CASE HintRead
    BY <1>5 DEF HintRead, Outcome, Still
  <1>6. ASSUME Recover
        PROVE  Outcome
    BY <1>6 DEF Recover, Outcome, Still
  <1>7. CASE CutRecord
    BY <1>6, <1>7, ReadAnswerOutcome DEF CutRecord
  <1>8. CASE EndRecord
    <2>1. CASE Reply("BackendUnqualified")
      BY <2>1 DEF Outcome, Ends
    <2>2. CASE /\ at = "rRecord" /\ saw' = None
               /\ complete' = (stopped \/ last = MaxSeq)
               /\ Send(IF stopped \/ last = MaxSeq THEN "eHint" ELSE "rSuccessor")
               /\ UNCHANGED <<args, last, stopped, fetched, repair>>
      <3>1. CASE stopped \/ last = MaxSeq
        <4>1. Witnessed
          <5>1. CASE stopped
            BY <5>1 DEF ReplayOK
          <5>2. CASE last = MaxSeq
            BY <5>2, Numbers DEF Witnessed, MigrationInv, TypeInv, ConsumerOK
          <5>3. QED
            BY <3>1, <5>1, <5>2
        <4>2. complete' /\ at' = "eHint"
          BY <2>2, <3>1
        <4>3. QED
          BY <2>2, <4>1, <4>2 DEF Outcome, Finds
      <3>2. CASE ~ (stopped \/ last = MaxSeq)
        <4>1. ~ stopped' /\ ~ complete' /\ at' = "rSuccessor"
          BY <2>2, <3>2
        <4>2. QED
          BY <2>2, <4>1 DEF Outcome, Fresh
      <3>3. QED
        BY <3>1, <3>2
    <2>3. CASE Recover
      BY <1>6, <2>3
    <2>4. QED
      BY <1>8, <2>1, <2>2, <2>3 DEF EndRecord
  <1>9. CASE ReadSuccessor
    <2>1. CASE Reply("BackendUnqualified")
      BY <2>1 DEF Outcome, Ends
    <2>2. CASE /\ at = "rSuccessor" /\ Shown(last + 1) = None
               /\ complete' = TRUE /\ Send("eHint")
               /\ UNCHANGED <<args, last, stopped, fetched, saw, repair>>
      <3>1. Witnessed
        BY <2>2, AbsentIsWitness DEF ReplayOK, MigrationInv, TypeInv, LocalsOK
      <3>2. complete'
        BY <2>2, Zenon
      <3>3. QED
        BY <2>2, <3>1, <3>2 DEF Outcome, Finds
    <2>3. QED
      BY <1>9, <2>1, <2>2 DEF ReadSuccessor
  <1>10. CASE HealRecord
    <2>1. complete
      BY <1>10 DEF HealRecord, ReplayOK
    <2>2. CASE \E k : ReadAnswer(k)
      BY <2>1, <2>2, ReadAnswerOutcome
    <2>3. CASE at = "eRecord" /\ Send("hGet") /\ UNCHANGED <<args, found, span>>
      BY <2>3 DEF Outcome, Still
    <2>4. QED
      BY <1>10, <2>2, <2>3 DEF HealRecord
  <1>11. CASE StrictFloor
    <2>1. CASE Reply("OffsetExpired")
      BY <2>1 DEF Outcome, Ends
    <2>2. CASE at = "sFloor" /\ Send("sFetch") /\ UNCHANGED <<args, found, saw, repair>>
      BY <2>2 DEF Outcome, Still
    <2>3. QED
      BY <1>11, <2>1, <2>2 DEF StrictFloor
  <1>12. CASE StrictFetch
    <2>1. CASE Reply("Page") \/ Reply("EventMissing")
      BY <2>1 DEF Outcome, Ends
    <2>2. CASE /\ at = "sFetch" /\ Send("sFetch") /\ UNCHANGED <<args, stopped, complete>>
      <3>1. ~ stopped' /\ ~ complete'
        BY <2>2 DEF ReplayOK
      <3>2. QED
        BY <2>2, <3>1 DEF Outcome, Fresh
    <2>3. QED
      BY <1>12, <2>1, <2>2 DEF StrictFetch
  <1>13. QED
    BY <1>1, <1>2, <1>3, <1>4, <1>5, <1>7, <1>8, <1>9, <1>10, <1>11, <1>12

LEMMA RestOutcome ==
  ASSUME ReplayInv,
         \/ RecoverFrom \/ RecoverProbe \/ RecoverSearch \/ RecoverVerify
         \/ HintGet \/ HintCheck \/ HintCas
         \/ (\E s \in Seqs : AdvanceCursor(s))
         \/ ReadCursor \/ CursorTarget \/ CursorGone \/ CursorRead \/ CursorVerify
         \/ CursorFloor \/ CursorWrite \/ MigrateSteps \/ LogElsewhere \/ Interrupt
         \/ \E s \in Seqs : HintElsewhere(s) \/ CursorElsewhere(s)
  PROVE  Outcome
  <1> USE DEF Send, args, found, repair, ReplayInv
  <1> USE DEF Quiet, Healing, Creating, Walking, Strict, Cursing, Placing
  <1>1. ASSUME NEW k, k # "Complete", Reply(k)
        PROVE  Outcome
    BY <1>1 DEF Outcome, Ends
  <1>2. CASE HintDone
    BY <1>2, HintDoneOutcome
  <1>3. CASE /\ ~ HintDone
             /\ \/ RecoverFrom \/ RecoverVerify \/ HintGet \/ HintCheck \/ HintCas
                \/ RecoverProbe \/ RecoverSearch
    <2>1. CASE RecoverFrom \/ RecoverVerify
      BY <1>3, <2>1 DEF RecoverFrom, RecoverVerify, Outcome, Still
    <2>2. CASE HintGet \/ HintCheck \/ HintCas
      BY <1>3, <2>2 DEF HintGet, HintCheck, HintCas, Outcome, Still
    <2>3. CASE RecoverProbe \/ RecoverSearch
      BY <2>3 DEF RecoverProbe, RecoverSearch, Bisect, Outcome, Still
    <2>4. QED
      BY <1>3, <2>1, <2>2, <2>3
  <1>4. CASE (\E s \in Seqs : AdvanceCursor(s)) \/ ReadCursor \/ CursorTarget
    BY <1>4 DEF AdvanceCursor, ReadCursor, CursorTarget, Outcome, Still
  <1>5. CASE CursorGone \/ CursorRead
    BY <1>1, <1>5 DEF CursorGone, CursorRead, Outcome, Still
  <1>6. CASE CursorVerify \/ CursorFloor
    <2>1. ASSUME CursorPlace, at \in {"kVerify", "kFloor"}
          PROVE  Outcome
      BY <1>1, <2>1 DEF CursorPlace, Outcome, Still
    <2>2. CASE CursorVerify
      BY <1>1, <2>1, <2>2 DEF CursorVerify, Outcome, Still
    <2>3. CASE CursorFloor
      BY <1>1, <2>1, <2>3 DEF CursorFloor
    <2>4. QED
      BY <1>6, <2>2, <2>3
  <1>7. CASE CursorWrite
    BY <1>1, <1>7 DEF CursorWrite, Outcome, Still
  <1>8. CASE MigrateSteps
    <2>1. CASE \E h \in Histories : MigrateLog(h)
      BY <2>1 DEF MigrateLog, Outcome, Still
    <2>2. ASSUME at \in Creating, Entered
          PROVE  Outcome
      <3>1. ~ stopped' /\ ~ complete'
        BY <2>2 DEF Entered, ReplayOK
      <3>2. QED
        BY <2>2, <3>1 DEF Entered, Outcome, Fresh
    <2>3. CASE MigrateCreate
      <3>1. CASE Entered
        BY <2>2, <2>3, <3>1 DEF MigrateCreate
      <3>2. CASE ~ Entered
        BY <1>1, <2>3, <3>2 DEF MigrateCreate, Outcome, Still
      <3>3. QED
        BY <3>1, <3>2
    <2>4. CASE MigrateReadback
      BY <1>1, <2>2, <2>4 DEF MigrateReadback
    <2>5. QED
      BY <1>8, <2>1, <2>3, <2>4 DEF MigrateSteps
  <1>9. CASE LogElsewhere \/ \E s \in Seqs : HintElsewhere(s) \/ CursorElsewhere(s)
    BY <1>9 DEF LogElsewhere, HintElsewhere, CursorElsewhere, Outside, Outcome, Still
  <1>10. CASE Interrupt
    BY <1>1, <1>10 DEF Interrupt
  <1>11. QED
    BY <1>2, <1>3, <1>4, <1>5, <1>6, <1>7, <1>8, <1>9, <1>10

\* The end and the floor never move back.
LEMMA EndStays ==
  ASSUME MigrationInv, [ConsumerNext]_consumerVars
  PROVE  /\ End \in 0..MaxSeq /\ End' \in 0..MaxSeq /\ End <= End'
         /\ floor \in 0..MaxSeq /\ floor' \in 0..MaxSeq /\ floor <= floor'
  <1>1. MigrationInv'
    BY NextMigration
  <1>2. (ObjectsOK => StoreType /\ IsEnd(End) /\ End \in 0..MaxSeq)'
    BY EndType, PTL
  <1>3. End \in 0..MaxSeq /\ floor \in 0..MaxSeq /\ End' \in 0..MaxSeq /\ floor' \in 0..MaxSeq
    BY <1>1, <1>2, EndType DEF MigrationInv, TypeInv, ObjectsOK
  <1>4. CASE StoreNext
    BY <1>3, <1>4, StoreStep, StoreKeeps DEF MigrationInv
  <1>5. CASE UNCHANGED <<log, floor>>
    <2>1. End' = End
      BY <1>5 DEF End, Landed
    <2>2. QED
      BY <1>3, <1>5, <2>1
  <1>6. QED
    BY <1>4, <1>5, StepOfStore

LEMMA NextReplay == ReplayInv /\ [ConsumerNext]_consumerVars => ReplayInv'
  <1> SUFFICES ASSUME ReplayInv, [ConsumerNext]_consumerVars
               PROVE  ReplayInv'
    OBVIOUS
  <1>1. MigrationInv /\ MigrationInv' /\ ReplayOK /\ CompleteIsTrue
    BY NextMigration DEF ReplayInv
  <1>2. /\ End \in 0..MaxSeq /\ End' \in 0..MaxSeq /\ End <= End'
        /\ floor \in 0..MaxSeq /\ floor' \in 0..MaxSeq /\ floor <= floor'
    BY <1>1, EndStays
  <1>3. last \in 0..MaxSeq /\ began \in 0..MaxSeq /\ MaxSeq \in Nat
    BY <1>1, Numbers DEF MigrationInv, TypeInv, ConsumerOK
  <1>4. ASSUME Witnessed, UNCHANGED <<last, began>>
        PROVE  Witnessed'
    BY <1>2, <1>3, <1>4 DEF Witnessed
  <1>5. CASE UNCHANGED consumerVars
    BY <1>1, <1>5 DEF consumerVars, ReplayInv, ReplayOK, CompleteIsTrue, Witnessed, End, Landed
  <1>6. CASE ConsumerNext
    <2>1. Outcome
      BY <1>6, WalkOutcome, RestOutcome DEF ConsumerNext, MigrateSteps
    <2>2. ASSUME NEW k, Ends(k)
          PROVE  ReplayOK' /\ CompleteIsTrue'
      <3>1. /\ at' = "idle" /\ last' = 0 /\ began' = 0
            /\ reply' = [kind |-> k, last |-> last, began |-> began]
        BY <2>2 DEF Ends, Reply
      <3>2. ~ stopped' /\ ~ complete'
        BY <2>2, Zenon DEF Ends, Reply
      <3>3. ReplayOK'
        BY <1>2, <3>1, <3>2 DEF ReplayOK, Healing
      <3>4. k = "Complete" => last >= began \/ last + 1 < floor'
        BY <1>1, <1>2, <1>3, <2>2 DEF Ends, ReplayOK, Witnessed
      <3>5. QED
        BY <3>1, <3>3, <3>4 DEF CompleteIsTrue
    <2>3. CASE Still
      BY <1>1, <1>2, <1>3, <1>4, <2>3 DEF Still, ReplayInv, ReplayOK, CompleteIsTrue
    <2>4. CASE Fresh
      <3>1. began' <= End'
        BY <1>1, <1>2, <1>3, <2>4 DEF Fresh, ReplayOK
      <3>2. QED
        BY <1>1, <2>4, <3>1 DEF Fresh, ReplayInv, ReplayOK, CompleteIsTrue
    <2>5. CASE Finds
      <3>1. began' <= End'
        BY <1>1, <1>2, <1>3, <2>5 DEF Finds, ReplayOK
      <3>2. QED
        BY <1>1, <1>4, <2>5, <3>1 DEF Finds, ReplayInv, ReplayOK, CompleteIsTrue
    <2>6. QED
      BY <1>1, <2>1, <2>2, <2>3, <2>4, <2>5 DEF Outcome, ReplayInv
  <1>7. QED
    BY <1>5, <1>6

\* A read that says it is complete has every event that was in the log when it was
\* called, unless a trim expired what follows: whatever the LISTs it probed with and
\* the hints it read left out, it has seen a number absent that is past the end.
THEOREM CompleteIsTrueTheorem == ConsumerSpec => []CompleteIsTrue
  <1>1. ConsumerSpec => []ReplayInv
    BY InitReplay, NextReplay, PTL DEF ConsumerSpec
  <1>2. ReplayInv => CompleteIsTrue
    BY DEF ReplayInv
  <1>3. QED
    BY <1>1, <1>2, PTL

-----------------------------------------------------------------------------
(* Cursors.                                                                *)

\* The event an advance names is in the log, or was, and whoever is about to write
\* the cursor saw one that was lower.
CursorOK ==
  /\ at \in Placing /\ limit # 0 => limit <= End
  /\ at = "kWrite" => (saw # None => saw.seq < limit)

CursorInv == MigrationInv /\ CursorOK

LEMMA InitCursor == ConsumerInit => CursorInv
  BY InitMigration DEF ConsumerInit, CursorInv, CursorOK, Placing

CursorSteps ==
  \/ \E s \in Seqs : AdvanceCursor(s)
  \/ ReadCursor \/ CursorTarget \/ CursorGone \/ CursorRead \/ CursorVerify
  \/ CursorFloor \/ CursorWrite

\* Every other step is no part of a cursor's call, or leaves it alone.
Aside == at' \notin Placing \/ UNCHANGED <<at, limit, saw>>

LEMMA AnswerAside ==
  ASSUME NEW k, Reply(k)
  PROVE  Aside
  BY DEF Reply, Aside, Placing

LEMMA HintDoneAside ==
  ASSUME HintDone
  PROVE  Aside
  <1>1. ASSUME NEW k, ReadAnswer(k)
        PROVE  Aside
    BY <1>1, AnswerAside DEF ReadAnswer, Send, Aside, Placing
  <1>2. QED
    BY <1>1, AnswerAside DEF HintDone

LEMMA StepAside ==
  ASSUME ConsumerNext, ~ CursorSteps
  PROVE  /\ Aside
         /\ cursor' = cursor \/ \E s \in Seqs : CursorElsewhere(s)
  <1> USE DEF Send, shared
  <1>0. ASSUME NEW k, ReadAnswer(k)
        PROVE  Aside
    BY <1>0, AnswerAside DEF ReadAnswer, Aside, Placing
  <1>1. CASE \E a \in 0..MaxSeq, l \in Limits : Read(a, l) \/ \E t \in 0..MaxSeq : ReadRange(a, t, l)
    BY <1>1 DEF Read, ReadRange, Aside, Placing
  <1>2. CASE ReadFloor \/ ReadFetch \/ ReadProbe
    BY <1>0, <1>2, AnswerAside DEF ReadFloor, ReadFetch, ReadProbe, Aside, Placing
  <1>3. CASE HintRead \/ CutRecord \/ EndRecord
    BY <1>0, <1>3, AnswerAside DEF HintRead, CutRecord, EndRecord, Recover, Aside, Placing
  <1>4. CASE ReadSuccessor \/ HealRecord \/ StrictFloor \/ StrictFetch
    BY <1>0, <1>4, AnswerAside
    DEF ReadSuccessor, HealRecord, StrictFloor, StrictFetch, Aside, Placing
  <1>5. CASE RecoverFrom \/ RecoverVerify
    BY <1>5, HintDoneAside DEF RecoverFrom, RecoverVerify, Kept, Aside, Placing
  <1>6. CASE RecoverProbe \/ RecoverSearch
    BY <1>6 DEF RecoverProbe, RecoverSearch, Bisect, Aside, Placing
  <1>7. CASE HintGet \/ HintCheck \/ HintCas
    BY <1>7, HintDoneAside DEF HintGet, HintCheck, HintCas, Kept, Aside, Placing
  <1>8. CASE MigrateSteps
    BY <1>8, AnswerAside
    DEF MigrateSteps, MigrateLog, MigrateCreate, MigrateReadback, Entered, Aside, Placing
  <1>9. CASE LogElsewhere \/ \E s \in Seqs : HintElsewhere(s) \/ CursorElsewhere(s)
    BY <1>9 DEF LogElsewhere, HintElsewhere, CursorElsewhere, Outside, args, found, Aside
  <1>10. CASE Interrupt
    BY <1>10, AnswerAside DEF Interrupt
  <1>11. QED
    BY <1>1, <1>2, <1>3, <1>4, <1>5, <1>6, <1>7, <1>8, <1>9, <1>10
    DEF ConsumerNext, CursorSteps, MigrateSteps

LEMMA CursorStep ==
  ASSUME CursorInv, CursorSteps
  PROVE  CursorOK' /\ (cursor' # cursor => /\ cursor # None => cursor'.seq > cursor.seq
                                           /\ cursor'.seq <= End')
  <1> USE DEF Send, shared, args
  <1>0. /\ CursorOK /\ End \in 0..MaxSeq /\ limit \in Nat /\ saw \in Marks \cup {None}
        /\ LocalsOK
    BY EndType DEF CursorInv, MigrationInv, TypeInv, ConsumerOK
  <1>1. UNCHANGED <<log, floor>>
    BY DEF CursorSteps, AdvanceCursor, ReadCursor, CursorTarget, CursorGone, CursorRead,
           CursorVerify, CursorFloor, CursorWrite
  <1>2. End' = End
    BY <1>1 DEF End, Landed
  <1>3. ASSUME NEW k, Reply(k)
        PROVE  CursorOK'
    BY <1>3 DEF Reply, CursorOK, Placing
  <1>4. CASE (\E s \in Seqs : AdvanceCursor(s)) \/ ReadCursor
    <2>1. CASE \E s \in Seqs : AdvanceCursor(s)
      BY <2>1 DEF AdvanceCursor, CursorOK, Placing
    <2>2. CASE ReadCursor
      BY <1>0, <2>2 DEF ReadCursor, CursorOK, LocalsOK, Placing
    <2>3. QED
      BY <1>4, <2>1, <2>2
  <1>5. CASE CursorTarget
    <2>1. limit \in Seqs /\ UNCHANGED <<limit, cursor>> /\ at' \in {"kGone", "kRead"}
      BY <1>0, <1>5 DEF CursorTarget, LocalsOK
    <2>2. at' = "kRead" => limit \in Landed
      BY <1>5, <2>1, Numbers DEF CursorTarget, Shown, Landed
    <2>3. at' = "kRead" => limit <= End
      BY <2>2, EndType DEF CursorInv, MigrationInv, TypeInv, IsEnd
    <2>4. QED
      BY <1>2, <2>1, <2>3 DEF CursorOK, Placing
  <1>6. CASE CursorGone \/ CursorRead
    <2>1. CASE CursorGone
      BY <1>3, <2>1 DEF CursorGone
    <2>2. CASE CursorRead
      BY <1>0, <1>2, <1>3, <2>2 DEF CursorRead, CursorOK, Placing
    <2>3. QED
      BY <1>6, <2>1, <2>2
  <1>7. CASE CursorVerify \/ CursorFloor
    <2>1. /\ at \in {"kVerify", "kFloor"} /\ UNCHANGED cursor
          /\ (limit # 0 => limit <= End)
      BY <1>0, <1>7 DEF CursorVerify, CursorFloor, CursorOK, Placing
    <2>2. ASSUME CursorPlace
          PROVE  CursorOK'
      BY <1>2, <1>3, <2>1, <2>2 DEF CursorPlace, CursorOK, Placing
    <2>3. \/ CursorPlace \/ \E k : Reply(k)
          \/ Send("kFloor") /\ UNCHANGED <<limit, saw>>
      BY <1>7 DEF CursorVerify, CursorFloor
    <2>4. QED
      BY <1>2, <1>3, <2>1, <2>2, <2>3 DEF CursorOK, Placing
  <1>8. CASE CursorWrite
    <2> DEFINE desired == [seq |-> limit, event |-> fetched]
    <2>1. at = "kWrite" /\ limit <= End /\ (saw # None => saw.seq < limit)
      BY <1>0, <1>8, Numbers DEF CursorWrite, CursorOK, LocalsOK, Placing
    <2>2. CASE saw' = None /\ Send("kRead") /\ UNCHANGED <<cursor, limit>>
      BY <1>2, <2>1, <2>2 DEF CursorOK, Placing
    <2>3. CASE /\ cursor' = cursor \/ (cursor = saw /\ cursor' = desired)
               /\ Reply("Cursor") \/ Reply("Unavailable")
      <3>1. desired.seq = limit
        OBVIOUS
      <3> HIDE DEF desired
      <3>2. cursor' # cursor => /\ cursor # None => cursor'.seq > cursor.seq
                                /\ cursor'.seq <= End'
        BY <1>0, <1>2, <2>1, <2>3, <3>1, MarkFields
      <3>3. QED
        BY <1>3, <2>3, <3>2
    <2>4. QED
      BY <1>8, <2>2, <2>3 DEF CursorWrite
  <1>9. QED
    BY <1>4, <1>5, <1>6, <1>7, <1>8 DEF CursorSteps

LEMMA NextCursor == CursorInv /\ [ConsumerNext]_consumerVars => CursorInv'
  <1> SUFFICES ASSUME CursorInv, [ConsumerNext]_consumerVars
               PROVE  CursorInv'
    OBVIOUS
  <1>1. MigrationInv' /\ CursorOK /\ End \in 0..MaxSeq /\ End' \in 0..MaxSeq /\ End <= End'
        /\ limit \in Nat
    BY NextMigration, EndStays DEF CursorInv, MigrationInv, TypeInv, ConsumerOK
  <1>2. CASE at' \notin Placing \/ UNCHANGED <<at, limit, saw>>
    BY <1>1, <1>2 DEF CursorInv, CursorOK, Placing
  <1>3. CASE UNCHANGED consumerVars
    BY <1>2, <1>3 DEF consumerVars
  <1>4. CASE ConsumerNext /\ ~ CursorSteps
    BY <1>2, <1>4, StepAside DEF Aside
  <1>5. CASE CursorSteps
    BY <1>1, <1>5, CursorStep DEF CursorInv
  <1>6. QED
    BY <1>3, <1>4, <1>5

\* Another process's advance is over an event that is there.
LEMMA CursorMoves ==
  ASSUME CursorInv, [ConsumerNext]_consumerVars, cursor' # cursor
  PROVE  /\ cursor # None => cursor'.seq > cursor.seq
         /\ cursor'.seq <= End'
  <1>1. CASE CursorSteps
    BY <1>1, CursorStep
  <1>2. CASE \E s \in Seqs : CursorElsewhere(s)
    <2>1. PICK s \in Seqs : CursorElsewhere(s)
      BY <1>2
    <2>2. /\ UNCHANGED <<log, floor>> /\ s \in Landed
          /\ cursor' = [seq |-> s, event |-> log[s]]
          /\ cursor # None => cursor.seq < s
      BY <2>1 DEF CursorElsewhere, Landed
    <2>3. End' = End /\ s <= End
      BY <2>2, EndType DEF CursorInv, MigrationInv, TypeInv, IsEnd, End, Landed
    <2>4. cursor \in Marks \cup {None} /\ s \in Nat
      BY Numbers DEF CursorInv, MigrationInv, TypeInv, ObjectsOK
    <2>5. cursor'.seq = s
      BY <2>2
    <2>6. QED
      BY <2>2, <2>3, <2>4, <2>5, MarkFields
  <1>3. QED
    BY <1>1, <1>2, StepAside DEF consumerVars

\* A cursor only moves forward, and never past the end of the log: a write goes
\* through only over the cursor its call read and found lower, and the event it names
\* was in the log when the call looked, at a number the end has not moved below.
THEOREM CursorMonotoneTheorem == ConsumerSpec => CursorMonotone
  <1>1. CursorInv /\ [ConsumerNext]_consumerVars =>
          [cursor' # cursor => /\ cursor # None => cursor'.seq > cursor.seq
                               /\ cursor'.seq <= End']_consumerVars
    BY CursorMoves
  <1>2. QED
    BY <1>1, InitCursor, NextCursor, PTL DEF ConsumerSpec, CursorMonotone
=============================================================================
