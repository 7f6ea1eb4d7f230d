-------------------------- MODULE StreamStore_proofs --------------------------
(***************************************************************************)
(* What StreamStore promises, for any events and any number of sequence    *)
(* numbers, and the facts about the end of the log that the proofs of the  *)
(* modules that implement it or compose with it rest on.                   *)
(***************************************************************************)
EXTENDS StreamStore, WellFoundedInduction, TLAPS

-----------------------------------------------------------------------------
(* Sets of numbers.                                                        *)

LEMMA LeastNumber ==
  ASSUME NEW T, T \subseteq Nat, T # {}
  PROVE  \E x \in T : \A y \in T : x <= y
  <1>1. PICK x \in T : \A y \in T : ~ (<<y, x>> \in OpToRel(<, Nat))
    BY NatLessThanWellFounded, WFMin
  <1>2. \A y \in Nat : y < x => <<y, x>> \in OpToRel(<, Nat)
    BY <1>1 DEF OpToRel
  <1>3. \A y \in T : ~ (y < x)
    BY <1>1, <1>2, Zenon
  <1>4. x \in Nat /\ \A y \in T : y \in Nat
    OBVIOUS
  <1> HIDE <1>1
  <1>5. QED
    BY <1>3, <1>4

\* The largest is the one farthest from the bound.
LEMMA LargestNumber ==
  ASSUME NEW m \in Nat, NEW T, T \subseteq 0..m, T # {}
  PROVE  \E x \in T : \A y \in T : y <= x
  <1> DEFINE U == {m - y : y \in T}
  <1>1. U \subseteq Nat /\ U # {}
    <2>1. \A y \in T : m - y \in Nat
      OBVIOUS
    <2>2. QED
      BY <2>1
  <1>2. PICK u \in U : \A w \in U : u <= w
    <2> HIDE DEF U
    <2>1. QED
      BY <1>1, LeastNumber
  <1>3. PICK x \in T : u = m - x
    OBVIOUS
  <1>4. \A y \in T : m - x <= m - y
    BY <1>2, <1>3
  <1>5. x \in Int /\ \A y \in T : y \in Int
    <2> HIDE DEF U
    <2>1. QED
      BY <1>3
  <1>6. QED
    BY <1>4, <1>5

-----------------------------------------------------------------------------
(* The end of the log.                                                     *)

StoreType ==
  /\ log \in [Seqs -> Events \cup {None}]
  /\ floor \in 0..MaxSeq

\* e is the last number that is taken.
IsEnd(e) ==
  /\ e \in 0..MaxSeq
  /\ floor <= e + 1
  /\ \A s \in Landed : s <= e
  /\ \/ e \in Landed /\ floor <= e
     \/ e + 1 = floor
     \/ e = 0 /\ floor = 0

LEMMA EndIsEnd ==
  ASSUME StoreType
  PROVE  IsEnd(End)
  <1> USE StoreAssumption DEF Seqs
  <1>1. Landed \subseteq 0..MaxSeq /\ floor \in 0..MaxSeq
    BY DEF Landed, StoreType
  <1>2. CASE \E s \in Landed : s >= floor
    <2>1. \E s \in Landed : \A t \in Landed : t <= s
      BY <1>1, <1>2, LargestNumber
    <2>2. End \in Landed /\ \A t \in Landed : t <= End
      BY <1>2, <2>1 DEF End
    <2>3. floor <= End
      BY <1>1, <1>2, <2>2
    <2>4. QED
      BY <1>1, <2>2, <2>3 DEF IsEnd
  <1>3. CASE ~ \E s \in Landed : s >= floor
    <2>1. End = IF floor = 0 THEN 0 ELSE floor - 1
      BY <1>3 DEF End
    <2>2. \A s \in Landed : s < floor
      BY <1>1, <1>3
    <2>3. QED
      BY <1>1, <2>1, <2>2 DEF IsEnd
  <1>4. QED
    BY <1>2, <1>3

LEMMA EndIsUnique == \A e : StoreType /\ IsEnd(e) => End = e
  <1> SUFFICES ASSUME NEW e, StoreType, IsEnd(e) PROVE End = e
    OBVIOUS
  <1>1. IsEnd(End)
    BY EndIsEnd
  <1>2. \A s \in Landed : s \in Nat
    BY StoreAssumption DEF Landed, Seqs
  <1>3. QED
    BY <1>1, <1>2, StoreAssumption DEF IsEnd, StoreType

-----------------------------------------------------------------------------
(* Every step of the store.                                                *)

\* No number between the floor and the end is free.
Gapless == \A s \in Seqs : floor <= s /\ s <= End => log[s] # None

StoreInv == StoreType /\ Gapless

\* A free number up to one past the end is the next one, or is below the floor.
LEMMA FreeNumber ==
  ASSUME StoreInv, NEW s \in Seqs, s <= End + 1, log[s] = None
  PROVE  s = End + 1 \/ s < floor
  <1>1. End \in 0..MaxSeq /\ floor \in 0..MaxSeq
    BY EndIsEnd DEF IsEnd, StoreInv, StoreType
  <1>2. QED
    BY <1>1, StoreAssumption DEF StoreInv, Gapless, Seqs

\* The end never moves back.
LEMMA StoreStep ==
  ASSUME StoreInv, StoreNext
  PROVE  StoreInv' /\ End <= End'
  <1>0. /\ StoreType /\ IsEnd(End) /\ Gapless /\ Landed \subseteq 1..MaxSeq
        /\ MaxSeq \in Nat \ {0} /\ Seqs = 1..MaxSeq /\ None \notin Events
    BY EndIsEnd, StoreAssumption DEF StoreInv, Seqs, Landed
  <1>9. (\A e : StoreType /\ IsEnd(e) => End = e)'
    BY EndIsUnique, PTL
  <1>1. ASSUME NEW s \in Seqs, NEW e \in Events, Land(s, e)
        PROVE  StoreInv' /\ End <= End'
    <2>1. /\ log[s] = None /\ (s = End + 1 \/ s < floor)
          /\ log' = [log EXCEPT ![s] = e] /\ floor' = floor
      BY <1>1 DEF Land
    <2>2. StoreType'
      BY <1>0, <1>1, <2>1 DEF StoreType
    <2>3. Landed' = Landed \cup {s}
      BY <1>0, <1>1, <2>1 DEF Landed, StoreType
    <2>4. CASE s = End + 1
      <3>1. IsEnd(s)'
        BY <1>0, <2>1, <2>3, <2>4 DEF IsEnd, StoreType
      <3>2. End' = s
        BY <1>9, <2>2, <3>1
      <3>3. ASSUME NEW t \in Seqs, floor' <= t, t <= End' PROVE log'[t] # None
        BY <1>0, <1>1, <2>1, <2>4, <3>2, <3>3 DEF IsEnd, StoreType, Gapless
      <3>4. QED
        BY <1>0, <2>2, <2>4, <3>2, <3>3 DEF StoreInv, Gapless, IsEnd
    <2>5. CASE s < floor
      <3>2. ASSUME NEW n, n = End PROVE IsEnd(n)'
        BY <1>0, <2>1, <2>3, <2>5, <3>2 DEF IsEnd, StoreType
      <3>3. End' = End
        BY <1>9, <2>2, <3>2
      <3>4. ASSUME NEW t \in Seqs, floor' <= t, t <= End' PROVE log'[t] # None
        BY <1>0, <1>1, <2>1, <2>5, <3>3, <3>4 DEF IsEnd, StoreType, Gapless
      <3>5. QED
        BY <1>0, <2>2, <3>3, <3>4 DEF StoreInv, Gapless, IsEnd
    <2>6. QED
      BY <2>1, <2>4, <2>5
  <1>2. ASSUME NEW f \in Seqs, Certify(f)
        PROVE  StoreInv' /\ End <= End'
    <2>1. floor < f /\ f <= End + 1 /\ floor' = f /\ log' = log
      BY <1>2 DEF Certify
    <2>2. StoreType' /\ Landed' = Landed
      BY <1>0, <1>2, <2>1 DEF StoreType, Landed
    <2>3. ASSUME NEW n, n = End PROVE IsEnd(n)'
      BY <1>0, <2>1, <2>2, <2>3 DEF IsEnd, StoreType
    <2>4. End' = End
      BY <1>9, <2>2, <2>3
    <2>5. ASSUME NEW t \in Seqs, floor' <= t, t <= End' PROVE log'[t] # None
      BY <1>0, <2>1, <2>4, <2>5 DEF IsEnd, StoreType, Gapless
    <2>6. QED
      BY <1>0, <2>2, <2>4, <2>5 DEF StoreInv, Gapless, IsEnd
  <1>3. ASSUME NEW s \in Seqs, Sweep(s)
        PROVE  StoreInv' /\ End <= End'
    <2>1. s < floor /\ log' = [log EXCEPT ![s] = None] /\ floor' = floor
      BY <1>3 DEF Sweep
    <2>2. StoreType' /\ Landed' = Landed \ {s}
      BY <1>0, <1>3, <2>1 DEF StoreType, Landed
    <2>3. ASSUME NEW n, n = End PROVE IsEnd(n)'
      BY <1>0, <2>1, <2>2, <2>3 DEF IsEnd, StoreType
    <2>4. End' = End
      BY <1>9, <2>2, <2>3
    <2>5. ASSUME NEW t \in Seqs, floor' <= t, t <= End' PROVE log'[t] # None
      BY <1>0, <1>3, <2>1, <2>4, <2>5 DEF IsEnd, StoreType, Gapless
    <2>6. QED
      BY <1>0, <2>2, <2>4, <2>5 DEF StoreInv, Gapless, IsEnd
  <1>4. QED
    BY <1>1, <1>2, <1>3 DEF StoreNext

\* The floor only rises, and a number that is taken keeps its event until the floor
\* has passed it.
LEMMA StoreKeeps ==
  ASSUME StoreInv, StoreNext
  PROVE  /\ floor <= floor'
         /\ \A s \in Seqs : log[s] # None /\ floor' <= s => log'[s] = log[s]
  <1>0. floor \in Int /\ \A s \in Seqs : s \in Int
    BY StoreAssumption DEF Seqs, StoreInv, StoreType
  <1>1. ASSUME NEW t \in Seqs, Certify(t)
        PROVE  floor <= floor' /\ log' = log
    BY <1>0, <1>1 DEF Certify
  <1>2. ASSUME NEW t \in Seqs, Sweep(t)
        PROVE  /\ floor <= floor'
               /\ \A s \in Seqs : log[s] # None /\ floor' <= s => log'[s] = log[s]
    <2>1. t < floor /\ floor' = floor /\ log' = [log EXCEPT ![t] = None]
      BY <1>2 DEF Sweep
    <2>2. ASSUME NEW s \in Seqs, floor <= s PROVE t # s
      BY <1>0, <2>1, <2>2
    <2>3. QED
      BY <1>0, <2>1, <2>2 DEF StoreInv, StoreType
  <1>3. ASSUME NEW t \in Seqs, NEW e \in Events, Land(t, e)
        PROVE  /\ floor <= floor'
               /\ \A s \in Seqs : log[s] # None /\ floor' <= s => log'[s] = log[s]
    BY <1>0, <1>3 DEF Land, StoreInv, StoreType
  <1>4. QED
    BY <1>1, <1>2, <1>3 DEF StoreNext

LEMMA StoreInitInv == StoreInit => StoreInv
  <1> SUFFICES ASSUME StoreInit PROVE StoreInv
    OBVIOUS
  <1>1. StoreType /\ Landed = {} /\ floor = 0
    BY StoreAssumption DEF StoreInit, StoreType, Landed
  <1>2. End = 0
    BY <1>1 DEF End
  <1>3. QED
    BY <1>1, <1>2, StoreAssumption DEF StoreInv, Gapless, Seqs

\* A number that is taken keeps its event until the floor has passed it.
KeepsRetained ==
  [][\A s \in Seqs : log[s] # None /\ floor' <= s => log'[s] = log[s]]_<<log, floor>>

\* Whoever keeps to StreamStore keeps a log without holes above the floor, and
\* takes back no event at or above it: what append, trim and gc promise readers.
THEOREM StoreIsALog == StoreSpec => []Gapless /\ KeepsRetained
  <1>1. StoreInv /\ [StoreNext]_<<log, floor>> => StoreInv'
    <2> SUFFICES ASSUME StoreInv, [StoreNext]_<<log, floor>> PROVE StoreInv'
      OBVIOUS
    <2>1. CASE UNCHANGED <<log, floor>>
      BY <2>1 DEF StoreInv, StoreType, Gapless, End, Landed
    <2>2. CASE StoreNext
      BY <2>2, StoreStep
    <2>3. QED
      BY <2>1, <2>2
  <1>2. StoreInv /\ [StoreNext]_<<log, floor>> =>
          [\A s \in Seqs : log[s] # None /\ floor' <= s => log'[s] = log[s]]_<<log, floor>>
    BY StoreKeeps
  <1>3. StoreInv => Gapless
    BY DEF StoreInv
  <1>4. QED
    BY <1>1, <1>2, <1>3, StoreInitInv, PTL DEF StoreSpec, KeepsRetained
=============================================================================
