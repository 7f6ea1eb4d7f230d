-------------------------- MODULE StreamsLog_proofs --------------------------
(***************************************************************************)
(* Proofs about StreamsLog for any clients, events, window, budget and     *)
(* number of sequence numbers.                                             *)
(***************************************************************************)
EXTENDS StreamsLog, TLAPS

\* The log and the floor as StreamStore sees them.
Facts == INSTANCE StreamStore_proofs

-----------------------------------------------------------------------------
(* Numbers and the end of the log.                                         *)

LEMMA StoreAssumed == MaxSeq \in Nat \ {0} /\ None \notin Events
  BY StreamAssumption, NoEventAssumption

LEMMA LargerOfTwo ==
  ASSUME NEW m \in Int, NEW n \in Int
  PROVE  Larger(m, n) \in {m, n} /\ Larger(m, n) \in Int /\ m <= Larger(m, n) /\ n <= Larger(m, n)
  BY DEF Larger

\* Every event is at or before the end, and the floor is at most one past it.
LEMMA EndFacts ==
  ASSUME TypeOK
  PROVE  /\ Facts!StoreType
         /\ Facts!End \in 0..MaxSeq
         /\ floor <= Facts!End + 1
         /\ \A s \in Seqs : log[s] # None => s <= Facts!End
  <1>1. Facts!StoreType
    BY DEF TypeOK, Seqs, Facts!StoreType, Facts!Seqs
  <1>2. Facts!IsEnd(Facts!End)
    BY <1>1, StoreAssumed, Facts!EndIsEnd
  <1>3. QED
    BY <1>1, <1>2 DEF Facts!IsEnd, Facts!Landed, Facts!Seqs, Seqs

LEMMA HintFields ==
  ASSUME NEW h \in Hints
  PROVE  h.seq \in Seqs /\ h.event \in Events /\ h # None
  BY NoEventAssumption DEF Hints

\* A verified hint names an event that is there.
LEMMA VerifiedFacts ==
  ASSUME TypeOK, NEW h \in Hints \cup {None}
  PROVE  /\ Verified(h) \in 0..MaxSeq
         /\ Verified(h) <= Facts!End
         /\ Verified(h) # 0 => h # None /\ Verified(h) = h.seq
         /\ Verified(h) = 0 /\ h # None => log[h.seq] # h.event
  <1>1. CASE h # None /\ log[h.seq] = h.event
    <2>1. h.seq \in Seqs /\ h.event # None
      BY <1>1, HintFields, StoreAssumed
    <2>2. QED
      BY <1>1, <2>1, EndFacts, StoreAssumed DEF Verified, Seqs
  <1>2. CASE ~ (h # None /\ log[h.seq] = h.event)
    BY <1>2, EndFacts, StoreAssumed DEF Verified
  <1>3. QED
    BY <1>1, <1>2

\* A LIST that starts at or before the end shows nothing past it.
LEMMA ListMaxFacts ==
  ASSUME TypeOK, NEW n \in 0..MaxSeq
  PROVE  /\ ListMax(n) \in 0..MaxSeq
         /\ n <= Facts!End => ListMax(n) <= Facts!End
  <1>1. CASE \E s \in Landed : s > n
    <2>1. Landed \subseteq 0..MaxSeq /\ Landed # {} /\ MaxSeq \in Nat
      BY <1>1, StoreAssumed DEF Landed, Seqs
    <2>2. \E s \in Landed : \A t \in Landed : t <= s
      BY <2>1, StoreAssumed, Facts!LargestNumber
    <2>3. ListMax(n) \in Landed
      BY <1>1, <2>2 DEF ListMax
    <2>4. QED
      BY <2>1, <2>3, EndFacts DEF Landed
  <1>2. CASE ~ \E s \in Landed : s > n
    BY <1>2 DEF ListMax
  <1>3. QED
    BY <1>1, <1>2

\* What the lowest number of a sweep is.
LEMMA LowestOfSweep ==
  ASSUME NEW S, S \subseteq Seqs, S # {}
  PROVE  (CHOOSE n \in S : \A m \in S : n <= m) \in S
  <1>1. S \subseteq Nat
    BY StoreAssumed DEF Seqs
  <1>2. \E n \in S : \A m \in S : n <= m
    BY <1>1, StoreAssumed, Facts!LeastNumber
  <1>3. QED
    BY <1>2

-----------------------------------------------------------------------------
(* Types, with what a call's locals hold while it is under way.            *)

Listing == {"lSeed", "lList", "lHint"}
Creating == {"aCreate", "aReadback"}
Hinting == {"hGet", "hCheck", "hCas"}
Appending == {"aHint", "aFloor", "aScan"} \cup Creating \cup Hinting
Trimming == {"tHint", "tFloor", "tCertify"}

\* What client c's call knows of its own locals.
CallOK(c) ==
  /\ pc[c] \in Appending => event[c] \in Events
  /\ pc[c] \in {"aScan"} \cup Creating \cup Hinting => guess[c] \in Seqs
  /\ pc[c] = "aScan" => guess[c] <= listMax[c] /\ listMax[c] < MaxSeq
  /\ pc[c] \in Listing /\ event[c] = None => limit[c] \in Seqs
  /\ pc[c] \in Trimming => limit[c] \in Seqs
  /\ pc[c] = "gDelete" => sweep[c] # {}
  /\ pc[c] = "hCheck" => old[c] # None

TypeInv == TypeOK /\ \A c \in Clients : CallOK(c)

LEMMA InitType == Init => TypeInv
  BY StoreAssumed, StreamAssumption
  DEF Init, TypeInv, TypeOK, CallOK, PCs, Listing, Creating, Hinting, Appending, Trimming

\* A step of client c, by action.
Steps(c) ==
  \/ \E e \in Events : Append(c, e)
  \/ \E f \in Seqs : Trim(c, f)
  \/ Gc(c)
  \/ LogMaxSeed(c) \/ LogMaxList(c) \/ ReadTailHint(c)
  \/ AppendHint(c) \/ AppendFloor(c) \/ AppendScan(c)
  \/ AppendCreate(c) \/ AppendReadback(c)
  \/ HintGet(c) \/ HintCheck(c) \/ HintCas(c)
  \/ TrimEnd(c) \/ ProposeTrim(c) \/ CertifyTrim(c)
  \/ DeleteBelow(c) \/ SweepOne(c) \/ Abort(c)

LEMMA NextSteps == Next => \E c \in Clients : Steps(c)
  <1>1. \A c \in Clients : Sends[c] \subseteq Events
    BY CallsAssumption
  <1>2. QED
    BY <1>1 DEF Next, Call, CallStep, Steps

\* The locals of client d.
Private(d) == <<pc[d], event[d], listMax[d], hintSeq[d], guess[d], limit[d], conflicts[d],
                sweep[d], old[d]>>

\* A step of one client leaves the others' locals alone.
LEMMA StepIsPrivate ==
  ASSUME TypeOK, NEW c \in Clients, Steps(c), NEW d \in Clients, d # c
  PROVE  Private(d)' = Private(d)
  <1> USE DEF TypeOK, Private, Goto
  <1>1. CASE \E e \in Events : Append(c, e)
    BY <1>1 DEF Append
  <1>2. CASE \E f \in Seqs : Trim(c, f)
    BY <1>2 DEF Trim
  <1>3. CASE Gc(c) \/ DeleteBelow(c)
    BY <1>3 DEF Gc, DeleteBelow, Return
  <1>4. CASE LogMaxSeed(c) \/ LogMaxList(c) \/ ReadTailHint(c) \/ AppendHint(c)
    BY <1>4 DEF LogMaxSeed, LogMaxList, ReadTailHint, AppendHint
  <1>5. CASE AppendFloor(c)
    BY <1>5 DEF AppendFloor, StartCreate, Return
  <1>6. CASE AppendScan(c)
    BY <1>6 DEF AppendScan, StartCreate, FoundOwn, Return
  <1>7. CASE AppendCreate(c)
    BY <1>7 DEF AppendCreate, FoundOwn
  <1>8. CASE AppendReadback(c)
    BY <1>8 DEF AppendReadback, FoundOwn, Return
  <1>9. CASE HintGet(c)
    BY <1>9 DEF HintGet, Receipt, Return
  <1>10. CASE HintCheck(c) \/ HintCas(c)
    BY <1>10 DEF HintCheck, HintCas, Receipt, Return
  <1>11. CASE TrimEnd(c)
    BY <1>11 DEF TrimEnd, Return
  <1>12. CASE ProposeTrim(c) \/ CertifyTrim(c) \/ Abort(c)
    BY <1>12 DEF ProposeTrim, CertifyTrim, Abort, Return
  <1>13. CASE SweepOne(c)
    BY <1>13 DEF SweepOne, Return
  <1>14. QED
    BY <1>1, <1>2, <1>3, <1>4, <1>5, <1>6, <1>7, <1>8, <1>9, <1>10, <1>11, <1>12, <1>13
    DEF Steps

\* What the scan's bounds and the first guess are, once the floor is read.
LEMMA ScanBounds ==
  ASSUME TypeOK, NEW c \in Clients, NEW m, m = Larger(listMax[c], hintSeq[c])
  PROVE  /\ m \in 0..MaxSeq /\ listMax[c] <= m /\ hintSeq[c] <= m
         /\ m \in {listMax[c], hintSeq[c]}
         /\ ScanFrom(c) \in Nat \ {0} /\ floor <= ScanFrom(c)
         /\ ScanFrom(c) \in {1, floor, hintSeq[c], listMax[c] - Window}
         /\ m < MaxSeq => FirstGuess(m, floor) \in Seqs
  <1>1. /\ listMax[c] \in 0..MaxSeq /\ hintSeq[c] \in 0..MaxSeq /\ floor \in 0..MaxSeq
        /\ MaxSeq \in Nat \ {0} /\ Window \in Nat
    BY StoreAssumed, StreamAssumption DEF TypeOK
  <1>2. m \in {listMax[c], hintSeq[c]} /\ listMax[c] <= m /\ hintSeq[c] <= m
    BY <1>1 DEF Larger
  <1>3. /\ ScanFrom(c) \in Nat \ {0} /\ floor <= ScanFrom(c)
        /\ ScanFrom(c) \in {1, floor, hintSeq[c], listMax[c] - Window}
    BY <1>1 DEF ScanFrom, Larger
  <1>4. m < MaxSeq => FirstGuess(m, floor) \in Seqs
    BY <1>1, <1>2 DEF FirstGuess, Larger, Seqs
  <1>5. QED
    BY <1>1, <1>2, <1>3, <1>4

\* A step keeps the types, and what the client that takes it knows.
LEMMA StepType ==
  ASSUME TypeInv, NEW c \in Clients, Steps(c)
  PROVE  TypeOK' /\ CallOK(c)'
  <1>0. TypeOK /\ CallOK(c) /\ MaxSeq \in Nat \ {0} /\ None \notin Events
    BY StoreAssumed DEF TypeInv
  <1> USE StreamAssumption DEF Listing, Creating, Hinting, Appending, Trimming, Goto
  <1>1. ASSUME Return(c), log' \in [Seqs -> Events \cup {None}], hint' \in Hints \cup {None},
               floor' \in 0..MaxSeq, receipts' \subseteq Hints
        PROVE  TypeOK' /\ CallOK(c)'
    <2>1. TypeOK'
      BY <1>0, <1>1 DEF Return, TypeOK, PCs
    <2>2. CallOK(c)'
      BY <1>0, <1>1 DEF Return, TypeOK, CallOK
    <2>3. QED
      BY <2>1, <2>2
  <1>2. ASSUME Return(c), UNCHANGED <<store, receipts>> PROVE TypeOK' /\ CallOK(c)'
    BY <1>0, <1>1, <1>2 DEF TypeOK, store
  <1>3. ASSUME NEW e \in Events, Append(c, e) PROVE TypeOK' /\ CallOK(c)'
    <2>1. TypeOK'
      BY <1>0, <1>3 DEF Append, HintRead, TypeOK, PCs, store
    <2>2. CallOK(c)'
      BY <1>0, <1>3 DEF Append, TypeOK, CallOK, store
    <2>3. QED
      BY <2>1, <2>2
  <1>4. ASSUME NEW f \in Seqs, Trim(c, f) PROVE TypeOK' /\ CallOK(c)'
    <2>1. TypeOK'
      BY <1>0, <1>4 DEF Trim, HintRead, TypeOK, PCs, store, Seqs
    <2>2. CallOK(c)'
      BY <1>0, <1>4 DEF Trim, TypeOK, CallOK, store
    <2>3. QED
      BY <2>1, <2>2
  <1>5. CASE Gc(c)
    <2>1. TypeOK'
      BY <1>0, <1>5 DEF Gc, TypeOK, PCs, store
    <2>2. CallOK(c)'
      BY <1>0, <1>5 DEF Gc, TypeOK, CallOK, store
    <2>3. QED
      BY <2>1, <2>2
  <1>6. CASE LogMaxSeed(c)
    <2>1. Larger(Verified(old[c]) - Window, 0) \in 0..MaxSeq
      BY <1>0, VerifiedFacts DEF TypeOK, Larger
    <2>2. TypeOK'
      BY <1>0, <1>6, <2>1 DEF LogMaxSeed, TypeOK, PCs, store
    <2>3. CallOK(c)'
      BY <1>0, <1>6 DEF LogMaxSeed, TypeOK, CallOK, store
    <2>4. QED
      BY <2>2, <2>3
  <1>7. CASE LogMaxList(c)
    <2>1. ListMax(listMax[c]) \in 0..MaxSeq
      BY <1>0, ListMaxFacts DEF TypeOK
    <2>2. TypeOK'
      BY <1>0, <1>7, <2>1 DEF LogMaxList, TypeOK, PCs, store
    <2>3. CallOK(c)'
      BY <1>0, <1>7 DEF LogMaxList, TypeOK, CallOK, store
    <2>4. QED
      BY <2>2, <2>3
  <1>8. CASE ReadTailHint(c)
    <2>1. TypeOK'
      BY <1>0, <1>8 DEF ReadTailHint, HintRead, TypeOK, PCs, store
    <2>2. CallOK(c)'
      BY <1>0, <1>8 DEF ReadTailHint, TypeOK, CallOK, store
    <2>3. QED
      BY <2>1, <2>2
  <1>9. CASE AppendHint(c)
    <2>1. Verified(old[c]) \in 0..MaxSeq
      BY <1>0, VerifiedFacts DEF TypeOK
    <2>2. TypeOK'
      BY <1>0, <1>9, <2>1 DEF AppendHint, TypeOK, PCs, store
    <2>3. CallOK(c)'
      BY <1>0, <1>9 DEF AppendHint, TypeOK, CallOK, store
    <2>4. QED
      BY <2>2, <2>3
  <1>10. CASE AppendFloor(c)
    <2> DEFINE m == Larger(listMax[c], hintSeq[c])
    <2>1. /\ m \in 0..MaxSeq /\ ScanFrom(c) \in Nat \ {0} /\ floor \in 0..MaxSeq
          /\ m < MaxSeq => FirstGuess(m, floor) \in Seqs
      BY <1>0, ScanBounds DEF TypeOK
    <2>2. CASE /\ m < MaxSeq /\ ScanFrom(c) <= m
               /\ pc' = [pc EXCEPT ![c] = "aScan"]
               /\ guess' = [guess EXCEPT ![c] = ScanFrom(c)]
               /\ listMax' = [listMax EXCEPT ![c] = m]
               /\ limit' = [limit EXCEPT ![c] = floor]
               /\ hintSeq' = [hintSeq EXCEPT ![c] = 0]
               /\ UNCHANGED <<event, conflicts, sweep, old>>
      <3> HIDE DEF m
      <3>1. ScanFrom(c) \in Seqs
        BY <1>0, <2>1, <2>2 DEF Seqs
      <3>2. TypeOK'
        BY SMTT(30), <1>0, <1>10, <2>1, <2>2, <3>1 DEF AppendFloor, TypeOK, PCs, store, Seqs
      <3>3. CallOK(c)'
        BY <1>0, <1>10, <2>2, <3>1 DEF AppendFloor, TypeOK, CallOK, store
      <3>4. QED
        BY <3>2, <3>3
    <2>3. CASE /\ m < MaxSeq /\ StartCreate(c, m, floor)
               /\ hintSeq' = [hintSeq EXCEPT ![c] = 0]
               /\ UNCHANGED <<event, conflicts, sweep, old>>
      <3> HIDE DEF m
      <3>1. FirstGuess(m, floor) \in Seqs
        BY <2>1, <2>3
      <3>2. TypeOK'
        BY <1>0, <1>10, <2>3, <3>1 DEF AppendFloor, StartCreate, TypeOK, PCs, store, Seqs
      <3>3. CallOK(c)'
        BY <1>0, <1>10, <2>3, <3>1 DEF AppendFloor, StartCreate, TypeOK, CallOK, store
      <3>4. QED
        BY <3>2, <3>3
    <2>4. CASE Return(c)
      BY <1>2, <1>10, <2>4 DEF AppendFloor
    <2>5. QED
      BY <1>10, <2>2, <2>3, <2>4 DEF AppendFloor
  <1>11. ASSUME FoundOwn(c), event[c] \in Events, guess[c] \in Seqs,
                log' \in [Seqs -> Events \cup {None}], UNCHANGED <<hint, floor, receipts>>
         PROVE  TypeOK' /\ CallOK(c)'
    <2>1. TypeOK'
      BY <1>0, <1>11 DEF FoundOwn, TypeOK, PCs
    <2>2. CallOK(c)'
      BY <1>0, <1>11 DEF FoundOwn, TypeOK, CallOK
    <2>3. QED
      BY <2>1, <2>2
  <1>12. CASE AppendScan(c)
    <2>0. /\ pc[c] = "aScan" /\ event[c] \in Events /\ guess[c] \in Seqs
          /\ guess[c] <= listMax[c] /\ listMax[c] < MaxSeq /\ listMax[c] \in 0..MaxSeq
          /\ limit[c] \in 0..MaxSeq /\ guess[c] + 1 \in Seqs
          /\ UNCHANGED <<store, receipts>>
      BY <1>0, <1>12 DEF AppendScan, TypeOK, CallOK, Seqs
    <2>1. CASE FoundOwn(c)
      BY <1>0, <1>11, <2>0, <2>1 DEF TypeOK, store
    <2>2. CASE Return(c)
      BY <1>2, <2>0, <2>2
    <2>3. CASE /\ guess[c] < listMax[c]
               /\ guess' = [guess EXCEPT ![c] = @ + 1]
               /\ UNCHANGED <<pc, listMax, limit, event, hintSeq, conflicts, sweep, old>>
      <3>1. TypeOK'
        BY <1>0, <2>0, <2>3 DEF TypeOK, store, Seqs
      <3>2. guess'[c] \in Seqs /\ guess'[c] <= listMax[c]
        BY <1>0, <2>0, <2>3 DEF TypeOK, Seqs
      <3>3. CallOK(c)'
        BY <1>0, <2>0, <2>3, <3>2 DEF CallOK
      <3>4. QED
        BY <3>1, <3>3
    <2>4. CASE /\ StartCreate(c, listMax[c], limit[c])
               /\ UNCHANGED <<event, hintSeq, conflicts, sweep, old>>
      <3>1. FirstGuess(listMax[c], limit[c]) \in Seqs
        BY <1>0, <2>0 DEF FirstGuess, Larger, Seqs
      <3>2. TypeOK'
        BY <1>0, <2>0, <2>4, <3>1 DEF StartCreate, TypeOK, PCs, store, Seqs
      <3>3. CallOK(c)'
        BY <1>0, <2>0, <2>4, <3>1 DEF StartCreate, TypeOK, CallOK
      <3>4. QED
        BY <3>2, <3>3
    <2>5. QED
      BY <1>12, <2>1, <2>2, <2>3, <2>4 DEF AppendScan
  <1>13. CASE AppendCreate(c)
    <2>0. /\ pc[c] = "aCreate" /\ event[c] \in Events /\ guess[c] \in Seqs
          /\ log' \in [Seqs -> Events \cup {None}]
          /\ UNCHANGED <<hint, floor, receipts>>
      BY <1>0, <1>13 DEF AppendCreate, TypeOK, CallOK
    <2>1. CASE FoundOwn(c)
      BY <1>11, <2>0, <2>1
    <2>2. CASE /\ pc' = [pc EXCEPT ![c] = "aReadback"]
               /\ UNCHANGED <<event, listMax, hintSeq, guess, limit, conflicts, sweep, old>>
      <3>1. TypeOK'
        BY <1>0, <2>0, <2>2 DEF TypeOK, PCs
      <3>2. CallOK(c)'
        BY <1>0, <2>0, <2>2 DEF TypeOK, CallOK
      <3>3. QED
        BY <3>1, <3>2
    <2>3. QED
      BY <1>13, <2>1, <2>2 DEF AppendCreate
  <1>14. CASE AppendReadback(c)
    <2>0. /\ pc[c] = "aReadback" /\ event[c] \in Events /\ guess[c] \in Seqs
          /\ UNCHANGED <<store, receipts>>
      BY <1>0, <1>14 DEF AppendReadback, CallOK
    <2>1. CASE FoundOwn(c)
      BY <1>0, <1>11, <2>0, <2>1 DEF TypeOK, store
    <2>2. CASE Return(c)
      BY <1>2, <2>0, <2>2
    <2>3. CASE /\ conflicts[c] < Budget /\ guess[c] < MaxSeq
               /\ conflicts' = [conflicts EXCEPT ![c] = @ + 1]
               /\ guess' = [guess EXCEPT ![c] = @ + 1]
               /\ pc' = [pc EXCEPT ![c] = "aCreate"]
               /\ UNCHANGED <<event, listMax, hintSeq, limit, sweep, old>>
      <3>0. guess[c] + 1 \in Seqs /\ conflicts[c] + 1 \in 0..Budget
        BY <1>0, <2>0, <2>3 DEF TypeOK, Seqs
      <3>1. TypeOK'
        BY SMTT(30), <1>0, <2>0, <2>3, <3>0 DEF TypeOK, PCs, store, Seqs
      <3>2. guess'[c] \in Seqs /\ pc'[c] = "aCreate" /\ event'[c] \in Events
        BY <1>0, <2>0, <2>3, <3>0 DEF TypeOK
      <3>3. CallOK(c)'
        BY <3>2 DEF CallOK
      <3>4. QED
        BY <3>1, <3>3
    <2>4. QED
      BY <1>14, <2>1, <2>2, <2>3 DEF AppendReadback
  <1>15. ASSUME Receipt(c), event[c] \in Events, guess[c] \in Seqs,
                hint' \in Hints \cup {None}, UNCHANGED <<log, floor>>
         PROVE  TypeOK' /\ CallOK(c)'
    <2>1. Desired(c) \in Hints
      BY <1>15 DEF Desired, Hints
    <2>2. receipts' \subseteq Hints
      BY <1>0, <1>15, <2>1 DEF Receipt, TypeOK
    <2>3. QED
      BY <1>0, <1>1, <1>15, <2>2 DEF Receipt, TypeOK
  <1>16. CASE HintGet(c)
    <2>0. pc[c] = "hGet" /\ event[c] \in Events /\ guess[c] \in Seqs /\ UNCHANGED store
      BY <1>0, <1>16 DEF HintGet, CallOK
    <2>1. CASE Receipt(c)
      BY <1>0, <1>15, <2>0, <2>1 DEF TypeOK, store
    <2>2. CASE /\ old' = [old EXCEPT ![c] = hint]
               /\ pc' = [pc EXCEPT ![c] = "hCas"] \/ (hint # None /\ pc' = [pc EXCEPT ![c] = "hCheck"])
               /\ UNCHANGED <<event, listMax, hintSeq, guess, limit, conflicts, sweep, receipts>>
      <3>1. TypeOK'
        BY <1>0, <2>0, <2>2 DEF TypeOK, PCs, store
      <3>2. CallOK(c)'
        BY <1>0, <2>0, <2>2 DEF TypeOK, CallOK
      <3>3. QED
        BY <3>1, <3>2
    <2>3. QED
      BY <1>16, <2>1, <2>2 DEF HintGet
  <1>17. CASE HintCheck(c)
    <2>0. pc[c] = "hCheck" /\ event[c] \in Events /\ guess[c] \in Seqs /\ UNCHANGED store
      BY <1>0, <1>17 DEF HintCheck, CallOK
    <2>1. CASE Receipt(c)
      BY <1>0, <1>15, <2>0, <2>1 DEF TypeOK, store
    <2>2. CASE /\ pc' = [pc EXCEPT ![c] = "hCas"]
               /\ UNCHANGED <<event, listMax, hintSeq, guess, limit, conflicts, sweep, old,
                              receipts>>
      <3>1. TypeOK'
        BY <1>0, <2>0, <2>2 DEF TypeOK, PCs, store
      <3>2. CallOK(c)'
        BY <1>0, <2>0, <2>2 DEF TypeOK, CallOK
      <3>3. QED
        BY <3>1, <3>2
    <2>3. QED
      BY <1>17, <2>1, <2>2 DEF HintCheck
  <1>18. CASE HintCas(c)
    <2>0. pc[c] = "hCas" /\ event[c] \in Events /\ guess[c] \in Seqs
      BY <1>0, <1>18 DEF HintCas, CallOK
    <2>1. hint' \in Hints \cup {None}
      BY <1>0, <1>18, <2>0 DEF HintCas, Desired, Hints, TypeOK
    <2>2. QED
      BY <1>15, <1>18, <2>0, <2>1 DEF HintCas
  <1>19. CASE TrimEnd(c)
    <2>0. pc[c] = "tHint" /\ limit[c] \in Seqs /\ UNCHANGED <<store, receipts>>
      BY <1>0, <1>19 DEF TrimEnd, CallOK
    <2>1. CASE Return(c)
      BY <1>2, <2>0, <2>1
    <2>2. CASE /\ pc' = [pc EXCEPT ![c] = "tFloor"]
               /\ listMax' = [listMax EXCEPT ![c] = 0]
               /\ old' = [old EXCEPT ![c] = None]
               /\ UNCHANGED <<event, hintSeq, guess, limit, conflicts, sweep>>
      <3>1. TypeOK'
        BY <1>0, <2>0, <2>2 DEF TypeOK, PCs, store
      <3>2. CallOK(c)'
        BY <1>0, <2>0, <2>2 DEF TypeOK, CallOK
      <3>3. QED
        BY <3>1, <3>2
    <2>3. QED
      BY <1>19, <2>1, <2>2 DEF TrimEnd
  <1>20. CASE ProposeTrim(c)
    <2>0. pc[c] = "tFloor" /\ limit[c] \in Seqs /\ UNCHANGED <<store, receipts>>
      BY <1>0, <1>20 DEF ProposeTrim, CallOK
    <2>1. CASE Return(c)
      BY <1>2, <2>0, <2>1
    <2>2. CASE /\ pc' = [pc EXCEPT ![c] = "tCertify"]
               /\ UNCHANGED <<event, listMax, hintSeq, guess, limit, conflicts, sweep, old>>
      <3>1. TypeOK'
        BY <1>0, <2>0, <2>2 DEF TypeOK, PCs, store
      <3>2. CallOK(c)'
        BY <1>0, <2>0, <2>2 DEF TypeOK, CallOK
      <3>3. QED
        BY <3>1, <3>2
    <2>3. QED
      BY <1>20, <2>1, <2>2 DEF ProposeTrim
  <1>21. CASE CertifyTrim(c)
    <2>1. Larger(floor, limit[c]) \in 0..MaxSeq
      BY <1>0 DEF TypeOK, Larger
    <2>2. QED
      BY <1>0, <1>1, <1>21, <2>1 DEF CertifyTrim, TypeOK
  <1>22. CASE DeleteBelow(c)
    <2>1. CASE Return(c)
      BY <1>2, <1>22, <2>1 DEF DeleteBelow
    <2>2. CASE /\ {s \in Landed : s < limit[c]} # {}
               /\ sweep' = [sweep EXCEPT ![c] = {s \in Landed : s < limit[c]}]
               /\ pc' = [pc EXCEPT ![c] = "gDelete"]
               /\ limit' = [limit EXCEPT ![c] = 0]
               /\ UNCHANGED <<event, listMax, hintSeq, guess, conflicts, old>>
      <3>1. {s \in Landed : s < limit[c]} \subseteq Seqs
        BY DEF Landed
      <3>2. TypeOK'
        BY <1>0, <1>22, <2>2, <3>1 DEF DeleteBelow, TypeOK, PCs, store
      <3>3. CallOK(c)'
        BY <1>0, <1>22, <2>2 DEF DeleteBelow, TypeOK, CallOK
      <3>4. QED
        BY <3>2, <3>3
    <2>3. QED
      BY <1>22, <2>1, <2>2 DEF DeleteBelow
  <1>23. CASE SweepOne(c)
    <2> DEFINE s == CHOOSE n \in sweep[c] : \A m \in sweep[c] : n <= m
    <2>0. pc[c] = "gDelete" /\ sweep[c] \subseteq Seqs /\ sweep[c] # {} /\ s \in sweep[c]
      <3>1. pc[c] = "gDelete" /\ sweep[c] \subseteq Seqs /\ sweep[c] # {}
        BY <1>0, <1>23 DEF SweepOne, TypeOK, CallOK
      <3>2. QED
        BY <3>1, LowestOfSweep
    <2>1. /\ log' = [log EXCEPT ![s] = None] \/ log' = log
          /\ \/ Return(c)
             \/ /\ sweep[c] # {s} /\ sweep' = [sweep EXCEPT ![c] = @ \ {s}]
                /\ UNCHANGED <<pc, event, listMax, hintSeq, guess, limit, conflicts, old>>
          /\ UNCHANGED <<hint, floor, receipts>>
      BY <1>23 DEF SweepOne
    <2> HIDE DEF s
    <2>2. log' \in [Seqs -> Events \cup {None}]
      BY <1>0, <2>0, <2>1 DEF TypeOK
    <2>3. CASE Return(c)
      BY <1>0, <1>1, <2>1, <2>2, <2>3 DEF TypeOK
    <2>4. CASE /\ sweep[c] # {s} /\ sweep' = [sweep EXCEPT ![c] = @ \ {s}]
               /\ UNCHANGED <<pc, event, listMax, hintSeq, guess, limit, conflicts, old>>
      <3>1. TypeOK'
        BY <1>0, <2>0, <2>1, <2>2, <2>4 DEF TypeOK
      <3>2. sweep'[c] # {}
        BY <1>0, <2>0, <2>4 DEF TypeOK
      <3>3. CallOK(c)'
        BY <1>0, <2>0, <2>4, <3>2 DEF CallOK
      <3>4. QED
        BY <3>1, <3>3
    <2>5. QED
      BY <2>1, <2>3, <2>4
  <1>24. CASE Abort(c)
    BY <1>2, <1>24 DEF Abort
  <1>25. QED
    BY <1>3, <1>4, <1>5, <1>6, <1>7, <1>8, <1>9, <1>10, <1>12, <1>13, <1>14, <1>16, <1>17,
       <1>18, <1>19, <1>20, <1>21, <1>22, <1>23, <1>24
    DEF Steps

LEMMA NextType == TypeInv /\ [Next]_vars => TypeInv'
  <1> SUFFICES ASSUME TypeInv, [Next]_vars PROVE TypeInv'
    OBVIOUS
  <1>1. CASE UNCHANGED vars
    BY <1>1 DEF vars, TypeInv, TypeOK, CallOK
  <1>2. CASE Next
    <2>1. PICK c \in Clients : Steps(c)
      BY <1>2, NextSteps
    <2>2. TypeOK' /\ CallOK(c)'
      BY <2>1, StepType
    <2>3. ASSUME NEW d \in Clients, d # c PROVE CallOK(d)'
      <3>1. Private(d)' = Private(d) /\ CallOK(d)
        BY <2>1, <2>3, StepIsPrivate DEF TypeInv
      <3>2. QED
        BY <3>1 DEF Private, CallOK
    <2>4. QED
      BY <2>2, <2>3 DEF TypeInv
  <1>3. QED
    BY <1>1, <1>2

\* Every variable keeps its type: no append, trim or sweep computes a sequence
\* number outside the numbers a stream has, also at the last one.
THEOREM TypeCorrect == Spec => []TypeOK
  <1>1. TypeInv => TypeOK
    BY DEF TypeInv
  <1>2. QED
    BY <1>1, InitType, NextType, PTL DEF Spec
-----------------------------------------------------------------------------
(* The log: what a call under way knows of it, and that every step is a    *)
(* step of StreamStore.                                                    *)

\* What client c's call knows of the log.
EndOK(c) ==
  /\ pc[c] \in {"lList", "lHint", "aHint", "aFloor", "aScan", "tHint"} =>
       listMax[c] <= Facts!End
  /\ pc[c] = "aFloor" => hintSeq[c] <= Facts!End
  /\ pc[c] \in {"aScan", "gList"} => limit[c] <= floor
  /\ pc[c] \in Creating => guess[c] <= Facts!End + 1
  /\ pc[c] \in {"tFloor", "tCertify"} => limit[c] <= Facts!End + 1
  /\ pc[c] \in Hinting /\ floor <= guess[c] => log[guess[c]] = event[c]
  /\ pc[c] = "gDelete" => \A s \in sweep[c] : s < floor

LogInv ==
  /\ TypeInv
  /\ Facts!Gapless
  /\ \A r \in receipts : floor <= r.seq /\ log[r.seq] = r.event
  /\ \A c \in Clients : EndOK(c)

LEMMA InitLog == Init => LogInv
  <1> SUFFICES ASSUME Init PROVE LogInv
    OBVIOUS
  <1>1. Facts!StoreInit
    BY DEF Init, Facts!StoreInit, Facts!Seqs, Seqs
  <1>2. Facts!Gapless
    BY <1>1, StoreAssumed, Facts!StoreInitInv DEF Facts!StoreInv
  <1>3. QED
    BY <1>2, InitType DEF Init, LogInv, EndOK, Creating, Hinting

\* A create lands on the next number or below the floor, a certificate is at most
\* one past the end, and a sweep deletes below the floor.
LEMMA StepOfStore ==
  ASSUME LogInv, NEW c \in Clients, Steps(c)
  PROVE  Facts!StoreNext \/ UNCHANGED <<log, floor>>
  <1>0. /\ TypeOK /\ CallOK(c) /\ EndOK(c) /\ Facts!StoreInv /\ Facts!End \in 0..MaxSeq
        /\ MaxSeq \in Nat \ {0} /\ Seqs = Facts!Seqs /\ floor \in 0..MaxSeq
    BY EndFacts, StoreAssumed DEF LogInv, TypeInv, Facts!StoreInv, Facts!Seqs, Seqs, TypeOK
  <1>1. CASE AppendCreate(c)
    <2>1. guess[c] \in Seqs /\ event[c] \in Events /\ guess[c] <= Facts!End + 1
      BY <1>0, <1>1 DEF AppendCreate, CallOK, EndOK, Creating, Appending
    <2>2. CASE log' = log
      BY <1>1, <2>2 DEF AppendCreate
    <2>3. CASE log[guess[c]] = None /\ log' = [log EXCEPT ![guess[c]] = event[c]]
      <3>1. guess[c] = Facts!End + 1 \/ guess[c] < floor
        BY <1>0, <2>1, <2>3, StoreAssumed, Facts!FreeNumber
      <3>2. Facts!Land(guess[c], event[c])
        BY <1>1, <2>3, <3>1 DEF AppendCreate, Facts!Land
      <3>3. QED
        BY <1>0, <2>1, <3>2 DEF Facts!StoreNext
    <2>4. QED
      BY <1>1, <2>2, <2>3 DEF AppendCreate
  <1>2. CASE CertifyTrim(c)
    <2>1. limit[c] \in Seqs /\ limit[c] <= Facts!End + 1
      BY <1>0, <1>2 DEF CertifyTrim, CallOK, EndOK, Trimming
    <2>2. floor' = Larger(floor, limit[c]) /\ log' = log
      BY <1>2 DEF CertifyTrim
    <2>3. CASE limit[c] <= floor
      BY <1>0, <2>1, <2>2, <2>3 DEF Larger, Seqs
    <2>4. CASE floor < limit[c]
      <3>1. Facts!Certify(limit[c])
        BY <1>0, <2>1, <2>2, <2>4 DEF Larger, Facts!Certify, Seqs
      <3>2. QED
        BY <1>0, <2>1, <3>1 DEF Facts!StoreNext
    <2>5. QED
      BY <1>0, <2>1, <2>3, <2>4 DEF Seqs
  <1>3. CASE SweepOne(c)
    <2> DEFINE s == CHOOSE n \in sweep[c] : \A m \in sweep[c] : n <= m
    <2>1. sweep[c] \subseteq Seqs /\ sweep[c] # {} /\ \A n \in sweep[c] : n < floor
      BY <1>0, <1>3 DEF SweepOne, TypeOK, CallOK, EndOK
    <2>2. s \in Seqs /\ s < floor
      BY <2>1, LowestOfSweep
    <2>3. (log' = [log EXCEPT ![s] = None] \/ log' = log) /\ floor' = floor
      BY <1>3 DEF SweepOne
    <2> HIDE DEF s
    <2>4. CASE log[s] = None
      BY <1>0, <2>2, <2>3, <2>4 DEF TypeOK
    <2>5. CASE log[s] # None /\ log' = [log EXCEPT ![s] = None]
      BY <1>0, <2>2, <2>3, <2>5 DEF Facts!StoreNext, Facts!Sweep
    <2>6. QED
      BY <2>3, <2>4, <2>5
  <1>4. CASE ~ (AppendCreate(c) \/ CertifyTrim(c) \/ SweepOne(c))
    BY <1>4 DEF Steps, store, Append, Trim, Gc, LogMaxSeed, LogMaxList, ReadTailHint,
       AppendHint, AppendFloor, AppendScan, AppendReadback, HintGet, HintCheck, HintCas,
       TrimEnd, ProposeTrim, DeleteBelow, Abort
  <1>5. QED
    BY <1>1, <1>2, <1>3, <1>4

\* What a step leaves of the log for those who have read it.
LEMMA StepKeeps ==
  ASSUME LogInv, NEW c \in Clients, Steps(c)
  PROVE  /\ Facts!Gapless'
         /\ Facts!End \in 0..MaxSeq /\ Facts!End' \in 0..MaxSeq /\ Facts!End <= Facts!End'
         /\ floor \in 0..MaxSeq /\ floor' \in 0..MaxSeq /\ floor <= floor'
         /\ \A s \in Seqs : log[s] # None /\ floor' <= s => log'[s] = log[s]
  <1>0. /\ TypeOK /\ TypeOK' /\ Facts!StoreInv /\ Facts!End \in 0..MaxSeq
        /\ Seqs = Facts!Seqs
    BY EndFacts, StepType DEF LogInv, TypeInv, Facts!StoreInv, Facts!Seqs, Seqs
  <1>1. Facts!End' \in 0..MaxSeq
    <2>1. TypeOK => Facts!End \in 0..MaxSeq
      BY EndFacts
    <2>2. (TypeOK => Facts!End \in 0..MaxSeq)'
      BY <2>1, EndFacts, PTL
    <2>3. QED
      BY <1>0, <2>2
  <1>2. CASE UNCHANGED <<log, floor>>
    BY <1>0, <1>1, <1>2, StoreAssumed
    DEF TypeOK, Facts!StoreInv, Facts!Gapless, Facts!End, Facts!Landed
  <1>3. CASE Facts!StoreNext
    <2>1. Facts!StoreInv' /\ Facts!End <= Facts!End'
      BY <1>0, <1>3, StoreAssumed, Facts!StoreStep
    <2>2. /\ floor <= floor'
          /\ \A s \in Seqs : log[s] # None /\ floor' <= s => log'[s] = log[s]
      BY <1>0, <1>3, StoreAssumed, Facts!StoreKeeps
    <2>3. QED
      BY <1>0, <1>1, <2>1, <2>2 DEF TypeOK, Facts!StoreInv
  <1>4. QED
    BY <1>2, <1>3, StepOfStore

\* The others still know what they knew.
LEMMA OthersKnow ==
  ASSUME LogInv, NEW c \in Clients, Steps(c), NEW d \in Clients, d # c
  PROVE  EndOK(d)'
  <1>0. /\ TypeOK /\ CallOK(d) /\ EndOK(d) /\ Private(d)' = Private(d)
        /\ MaxSeq \in Nat \ {0} /\ None \notin Events
    BY StepIsPrivate, StoreAssumed DEF LogInv, TypeInv
  <1>1. /\ listMax[d] \in Int /\ hintSeq[d] \in Int /\ limit[d] \in Int /\ guess[d] \in Int
        /\ \A s \in sweep[d] : s \in Int
    BY <1>0 DEF TypeOK, Seqs
  <1>2. pc[d] \in Hinting /\ floor' <= guess[d] => log'[guess[d]] = event[d]
    BY <1>0, <1>1, StepKeeps DEF EndOK, CallOK, Appending
  <1>3. QED
    BY <1>0, <1>1, <1>2, StepKeeps DEF EndOK, Private

\* Receipts stand, and a new one is for an event that is there.
LEMMA StepReceipts ==
  ASSUME LogInv, NEW c \in Clients, Steps(c)
  PROVE  \A r \in receipts' : floor' <= r.seq /\ log'[r.seq] = r.event
  <1>0. /\ TypeOK /\ CallOK(c) /\ EndOK(c) /\ MaxSeq \in Nat \ {0} /\ None \notin Events
        /\ \A r \in receipts : floor <= r.seq /\ log[r.seq] = r.event
    BY StoreAssumed DEF LogInv, TypeInv
  <1>1. \A r \in receipts : r.seq \in Seqs /\ r.seq \in Int /\ r.event # None
    BY <1>0, HintFields DEF TypeOK, Seqs
  <1>2. \A r \in receipts : floor' <= r.seq => log'[r.seq] = r.event
    BY <1>0, <1>1, StepKeeps
  <1>3. CASE receipts' = receipts /\ floor' = floor
    BY <1>0, <1>2, <1>3
  <1>4. CASE Receipt(c) /\ pc[c] \in Hinting /\ log' = log /\ floor' = floor
    <2>1. floor <= guess[c] => log[guess[c]] = event[c]
      BY <1>0, <1>4 DEF EndOK
    <2>2. /\ Desired(c).seq = guess[c] /\ Desired(c).event = event[c]
          /\ guess[c] \in Int /\ floor \in Int
      BY <1>0 DEF Desired, TypeOK
    <2>3. QED
      BY <1>0, <1>4, <2>1, <2>2 DEF Receipt
  <1>5. CASE CertifyTrim(c)
    <2>1. \A r \in receipts' : r \in receipts /\ limit[c] <= r.seq
      BY <1>1, <1>5 DEF CertifyTrim
    <2>2. floor' \in {floor, limit[c]}
      BY <1>5 DEF CertifyTrim, Larger
    <2>3. QED
      BY <1>0, <1>2, <2>1, <2>2
  <1>6. CASE HintGet(c) \/ HintCheck(c) \/ HintCas(c)
    BY <1>3, <1>4, <1>6 DEF HintGet, HintCheck, HintCas, Hinting, store
  <1>7. CASE ~ (HintGet(c) \/ HintCheck(c) \/ HintCas(c) \/ CertifyTrim(c))
    BY <1>3, <1>7 DEF Steps, store, Append, Trim, Gc, LogMaxSeed, LogMaxList, ReadTailHint,
       AppendHint, AppendFloor, AppendScan, AppendCreate, AppendReadback,
       TrimEnd, ProposeTrim, DeleteBelow, SweepOne, Abort
  <1>8. QED
    BY <1>5, <1>6, <1>7

\* The client that takes the step learns only what is so.
LEMMA StepKnows ==
  ASSUME LogInv, NEW c \in Clients, Steps(c)
  PROVE  EndOK(c)'
  <1>0. /\ TypeOK /\ CallOK(c) /\ EndOK(c) /\ Facts!End \in 0..MaxSeq
        /\ floor <= Facts!End + 1 /\ \A s \in Seqs : log[s] # None => s <= Facts!End
        /\ MaxSeq \in Nat \ {0} /\ None \notin Events /\ Window \in Nat
    BY EndFacts, StoreAssumed, StreamAssumption DEF LogInv, TypeInv
  <1>1. /\ pc \in [Clients -> PCs] /\ event \in [Clients -> Events \cup {None}]
        /\ listMax[c] \in 0..MaxSeq /\ hintSeq[c] \in 0..MaxSeq /\ limit[c] \in 0..MaxSeq
        /\ guess[c] \in 0..MaxSeq /\ old[c] \in Hints \cup {None}
        /\ \A s \in sweep[c] : s \in Int
    BY <1>0 DEF TypeOK, Seqs
  <1>2. /\ Facts!End' \in 0..MaxSeq /\ Facts!End <= Facts!End'
        /\ floor \in 0..MaxSeq /\ floor' \in 0..MaxSeq /\ floor <= floor'
    BY StepKeeps
  <1> USE DEF Creating, Hinting, Goto
  <1>3. CASE pc'[c] \in {"idle", "lSeed"}
    BY <1>3 DEF EndOK
  <1>4. ASSUME Return(c) PROVE EndOK(c)'
    BY <1>1, <1>3, <1>4 DEF Return
  <1>5. CASE (\E e \in Events : Append(c, e)) \/ \E f \in Seqs : Trim(c, f)
    BY <1>1, <1>3, <1>5 DEF Append, Trim
  <1>6. CASE Gc(c)
    <2>1. pc'[c] = "gList" /\ limit'[c] = floor
      BY <1>0, <1>6 DEF Gc, TypeOK
    <2>2. QED
      BY <1>2, <2>1 DEF EndOK
  <1>7. CASE LogMaxSeed(c)
    <2>1. pc'[c] = "lList" /\ listMax'[c] = Larger(Verified(old[c]) - Window, 0)
      BY <1>0, <1>7 DEF LogMaxSeed, TypeOK
    <2>2. listMax'[c] \in Int /\ listMax'[c] <= Facts!End
      BY <1>0, <1>1, <2>1, VerifiedFacts DEF Larger
    <2>3. QED
      BY <1>0, <1>2, <2>1, <2>2 DEF EndOK
  <1>8. CASE LogMaxList(c)
    <2>1. pc'[c] = "lHint" /\ listMax'[c] = ListMax(listMax[c]) /\ listMax[c] <= Facts!End
      BY <1>0, <1>8 DEF LogMaxList, TypeOK, EndOK
    <2>2. listMax'[c] \in Int /\ listMax'[c] <= Facts!End
      BY <1>0, <1>1, <2>1, ListMaxFacts
    <2>3. QED
      BY <1>0, <1>2, <2>1, <2>2 DEF EndOK
  <1>9. CASE ReadTailHint(c)
    <2>1. pc'[c] \in {"aHint", "tHint"} /\ listMax'[c] = listMax[c] /\ listMax[c] <= Facts!End
      BY <1>0, <1>9 DEF ReadTailHint, TypeOK, EndOK
    <2>2. QED
      BY <1>0, <1>1, <1>2, <2>1 DEF EndOK
  <1>10. CASE AppendHint(c)
    <2>1. /\ pc'[c] = "aFloor" /\ listMax'[c] = listMax[c] /\ listMax[c] <= Facts!End
          /\ hintSeq'[c] = Verified(old[c])
      BY <1>0, <1>10 DEF AppendHint, TypeOK, EndOK
    <2>2. hintSeq'[c] \in Int /\ hintSeq'[c] <= Facts!End
      BY <1>0, <1>1, <2>1, VerifiedFacts
    <2>3. QED
      BY <1>0, <1>1, <1>2, <2>1, <2>2 DEF EndOK
  <1>11. CASE AppendFloor(c)
    <2> DEFINE m == Larger(listMax[c], hintSeq[c])
    <2>1. m \in 0..MaxSeq /\ m <= Facts!End
      BY <1>0, <1>1, <1>11 DEF Larger, AppendFloor, EndOK
    <2>2. \/ Return(c)
          \/ pc'[c] = "aScan" /\ listMax'[c] = m /\ limit'[c] = floor
          \/ pc'[c] = "aCreate" /\ guess'[c] = FirstGuess(m, floor)
      BY <1>0, <1>11 DEF AppendFloor, StartCreate, TypeOK
    <2> HIDE DEF m
    <2>3. FirstGuess(m, floor) \in Int /\ FirstGuess(m, floor) <= Facts!End + 1
      BY <1>0, <1>2, <2>1 DEF FirstGuess, Larger
    <2>4. CASE pc'[c] = "aScan" /\ listMax'[c] = m /\ limit'[c] = floor
      BY <1>0, <1>2, <2>1, <2>4 DEF EndOK
    <2>5. CASE pc'[c] = "aCreate" /\ guess'[c] = FirstGuess(m, floor)
      BY <1>0, <1>2, <2>3, <2>5 DEF EndOK
    <2>6. QED
      BY <1>4, <2>2, <2>4, <2>5
  <1>12. ASSUME FoundOwn(c), log'[guess[c]] = event[c] PROVE EndOK(c)'
    <2>1. pc'[c] = "hGet" /\ guess'[c] = guess[c] /\ event'[c] = event[c]
      BY <1>0, <1>12 DEF FoundOwn, TypeOK
    <2>2. QED
      BY <1>12, <2>1 DEF EndOK
  <1>13. CASE AppendScan(c)
    <2>0. /\ pc[c] = "aScan" /\ log' = log /\ listMax[c] <= Facts!End /\ limit[c] <= floor
      BY <1>0, <1>13 DEF AppendScan, EndOK, store
    <2>1. CASE log[guess[c]] = event[c] /\ FoundOwn(c)
      BY <1>12, <2>0, <2>1
    <2>2. CASE UNCHANGED <<pc, listMax, limit>>
      BY <1>0, <1>1, <1>2, <2>0, <2>2 DEF EndOK
    <2>3. CASE StartCreate(c, listMax[c], limit[c])
      <3>1. pc'[c] = "aCreate" /\ guess'[c] = FirstGuess(listMax[c], limit[c])
        BY <1>0, <2>3 DEF StartCreate, TypeOK
      <3>2. guess'[c] \in Int /\ guess'[c] <= Facts!End + 1
        BY <1>0, <1>1, <1>2, <2>0, <3>1 DEF FirstGuess, Larger
      <3>3. QED
        BY <1>0, <1>2, <3>1, <3>2 DEF EndOK
    <2>4. QED
      BY <1>4, <1>13, <2>1, <2>2, <2>3 DEF AppendScan
  <1>14. CASE AppendCreate(c)
    <2>0. guess[c] <= Facts!End + 1 /\ guess[c] \in Seqs
      BY <1>0, <1>14 DEF AppendCreate, EndOK, CallOK
    <2>1. CASE FoundOwn(c) /\ log' = [log EXCEPT ![guess[c]] = event[c]]
      BY <1>0, <1>12, <2>0, <2>1 DEF TypeOK
    <2>2. CASE pc' = [pc EXCEPT ![c] = "aReadback"] /\ UNCHANGED guess
      BY <1>0, <1>1, <1>2, <2>0, <2>2 DEF EndOK
    <2>3. QED
      BY <1>14, <2>1, <2>2 DEF AppendCreate
  <1>15. CASE AppendReadback(c)
    <2>0. /\ pc[c] = "aReadback" /\ log' = log /\ guess[c] \in Seqs
          /\ log[guess[c]] # None => guess[c] <= Facts!End
      BY <1>0, <1>15 DEF AppendReadback, CallOK, store
    <2>1. CASE log[guess[c]] = event[c] /\ FoundOwn(c)
      BY <1>12, <2>0, <2>1
    <2>2. CASE /\ log[guess[c]] # None
               /\ guess' = [guess EXCEPT ![c] = @ + 1]
               /\ pc' = [pc EXCEPT ![c] = "aCreate"]
      <3>1. pc'[c] = "aCreate" /\ guess'[c] = guess[c] + 1
        BY <1>0, <2>2 DEF TypeOK
      <3>2. QED
        BY <1>0, <1>1, <1>2, <2>0, <2>2, <3>1 DEF EndOK
    <2>3. QED
      BY <1>4, <1>15, <2>1, <2>2 DEF AppendReadback
  <1>16. CASE HintGet(c) \/ HintCheck(c) \/ HintCas(c)
    <2>0. UNCHANGED <<log, floor>> /\ pc[c] \in Hinting
      BY <1>16 DEF HintGet, HintCheck, HintCas, store
    <2>1. CASE Receipt(c)
      BY <1>4, <2>1 DEF Receipt
    <2>2. CASE UNCHANGED <<guess, event>> /\ pc'[c] \in Hinting
      BY <1>0, <2>0, <2>2 DEF EndOK
    <2>3. QED
      BY <1>1, <1>16, <2>1, <2>2 DEF HintGet, HintCheck, HintCas
  <1>17. CASE TrimEnd(c)
    <2>0. pc[c] = "tHint" /\ listMax[c] <= Facts!End
      BY <1>0, <1>17 DEF TrimEnd, EndOK
    <2> DEFINE m == Larger(listMax[c], Verified(old[c]))
    <2>1. m \in Int /\ m <= Facts!End
      BY <1>0, <1>1, <2>0, VerifiedFacts DEF Larger
    <2>2. Return(c) \/ (limit[c] <= m + 1 /\ pc'[c] = "tFloor" /\ limit' = limit)
      BY <1>1, <1>17 DEF TrimEnd
    <2> HIDE DEF m
    <2>3. QED
      BY <1>0, <1>1, <1>2, <1>4, <2>1, <2>2 DEF EndOK
  <1>18. CASE ProposeTrim(c)
    <2>0. pc[c] = "tFloor" /\ limit[c] <= Facts!End + 1
      BY <1>0, <1>18 DEF ProposeTrim, EndOK
    <2>1. Return(c) \/ (pc'[c] = "tCertify" /\ limit' = limit)
      BY <1>1, <1>18 DEF ProposeTrim
    <2>2. QED
      BY <1>0, <1>1, <1>2, <1>4, <2>0, <2>1 DEF EndOK
  <1>19. CASE DeleteBelow(c)
    <2>0. pc[c] = "gList" /\ limit[c] <= floor
      BY <1>0, <1>19 DEF DeleteBelow, EndOK
    <2>1. CASE pc'[c] = "gDelete" /\ sweep'[c] = {s \in Landed : s < limit[c]}
      <3>1. \A s \in sweep'[c] : s \in Int /\ s < limit[c]
        BY <1>0, <2>1 DEF Landed, Seqs
      <3>2. QED
        BY <1>0, <1>1, <1>2, <2>0, <2>1, <3>1 DEF EndOK
    <2>2. QED
      BY <1>0, <1>4, <1>19, <2>1 DEF DeleteBelow, TypeOK
  <1>20. CASE SweepOne(c)
    <2>0. pc[c] = "gDelete" /\ (\A s \in sweep[c] : s < floor) /\ floor' = floor
      BY <1>0, <1>20 DEF SweepOne, EndOK
    <2>1. CASE pc'[c] = "gDelete" /\ sweep'[c] \subseteq sweep[c]
      BY <2>0, <2>1 DEF EndOK
    <2>2. QED
      BY <1>0, <1>4, <1>20, <2>0, <2>1 DEF SweepOne, TypeOK
  <1>21. CASE CertifyTrim(c) \/ Abort(c)
    BY <1>4, <1>21 DEF CertifyTrim, Abort
  <1>22. QED
    BY <1>5, <1>6, <1>7, <1>8, <1>9, <1>10, <1>11, <1>13, <1>14, <1>15, <1>16, <1>17, <1>18,
       <1>19, <1>20, <1>21
    DEF Steps

LEMMA NextLog == LogInv /\ [Next]_vars => LogInv'
  <1> SUFFICES ASSUME LogInv, [Next]_vars PROVE LogInv'
    OBVIOUS
  <1>1. TypeInv'
    BY NextType DEF LogInv
  <1>2. CASE UNCHANGED vars
    BY <1>1, <1>2 DEF vars, LogInv, EndOK, Facts!Gapless, Facts!End, Facts!Landed
  <1>3. CASE Next
    <2>1. PICK c \in Clients : Steps(c)
      BY <1>3, NextSteps
    <2>2. \A d \in Clients : EndOK(d)'
      BY <2>1, StepKnows, OthersKnow
    <2>3. QED
      BY <1>1, <2>1, <2>2, StepKeeps, StepReceipts DEF LogInv
  <1>4. QED
    BY <1>2, <1>3

\* A receipt's event stays readable at its number until a certificate passes it:
\* a create, a sweep and a hint of any other client leave it alone.
THEOREM ReceiptsRetainedTheorem == Spec => []ReceiptsRetained
  <1>1. LogInv => ReceiptsRetained
    BY DEF LogInv, ReceiptsRetained
  <1>2. QED
    BY <1>1, InitLog, NextLog, PTL DEF Spec

\* The appends, trims and sweeps of any number of clients together keep to
\* StreamStore: no gap is left, the floor is at most one past the end, and what is
\* deleted lies below it.
THEOREM ImplementsStreamStoreTheorem == Spec => ImplementsStreamStore
  <1>1. Init => Store!StoreInit
    BY DEF Init, Store!StoreInit, Store!Seqs, Seqs
  <1>2. LogInv /\ [Next]_vars => [Store!StoreNext]_<<log, floor>>
    <2> SUFFICES ASSUME LogInv, [Next]_vars
                 PROVE  Store!StoreNext \/ UNCHANGED <<log, floor>>
      OBVIOUS
    <2>1. CASE UNCHANGED vars
      BY <2>1 DEF vars
    <2>2. CASE Next
      <3>1. Facts!StoreNext \/ UNCHANGED <<log, floor>>
        BY <2>2, NextSteps, StepOfStore
      <3>2. QED
        BY <3>1
        DEF Store!StoreNext, Facts!StoreNext, Store!Land, Facts!Land, Store!Certify,
            Facts!Certify, Store!Sweep, Facts!Sweep, Store!End, Facts!End, Store!Landed,
            Facts!Landed, Store!Seqs, Facts!Seqs
    <2>3. QED
      BY <2>1, <2>2
  <1>3. QED
    BY <1>1, <1>2, InitLog, NextLog, PTL DEF Spec, ImplementsStreamStore, Store!StoreSpec

-----------------------------------------------------------------------------
(* Retries: what the tail hint and a scan say about earlier landings.      *)

\* Number n is below the floor, or the tail hint has come to it.
Hinted(n) == n < floor \/ (hint # None /\ hint.seq >= n)

\* The record of hint h was there, and goes only when the floor has passed it.
Backed(h) == h # None => h.seq < floor \/ log[h.seq] = h.event

\* Number s does not hold an event with the stable id of client c's own, or the
\* hint has passed it.
Foreign(c, s) == log[s] = None \/ log[s].id # event[c].id \/ Hinted(s + 1)

\* What client c's call knows of the hint, and of the numbers it has been through.
HintOK(c) ==
  /\ pc[c] \in {"lSeed", "aHint", "tHint", "hCheck"} => Backed(old[c])
  /\ pc[c] = "aHint" /\ old[c] # None => Hinted(old[c].seq)
  /\ pc[c] = "aFloor" => hintSeq[c] = 0 \/ Hinted(hintSeq[c])
  /\ pc[c] = "hCas" /\ old[c] # None => old[c].seq <= guess[c] \/ old[c].seq < floor
  /\ pc[c] = "aScan" => \A s \in Seqs :
       floor <= s /\ s < guess[c] /\ listMax[c] <= s + Window => Foreign(c, s)
  /\ pc[c] \in Creating => \A s \in Seqs :
       floor <= s /\ s < guess[c] /\ guess[c] <= s + Window + 1 => Foreign(c, s)

RetryInv == LogInv /\ Backed(hint) /\ RetryWindow /\ \A c \in Clients : HintOK(c)

LEMMA InitRetry == Init => RetryInv
  <1> SUFFICES ASSUME Init PROVE RetryInv
    OBVIOUS
  <1>1. \A s \in Seqs : log[s] = None
    BY DEF Init
  <1>2. QED
    BY <1>1, InitLog DEF Init, RetryInv, Backed, RetryWindow, HintOK, Creating

\* The hint falls back only over records that the floor has passed.
LEMMA HintedStays ==
  ASSUME RetryInv, NEW c \in Clients, Steps(c), NEW n \in Int, Hinted(n)
  PROVE  Hinted(n)'
  <1>0. /\ LogInv /\ TypeOK /\ CallOK(c) /\ HintOK(c) /\ TypeOK' /\ MaxSeq \in Nat \ {0}
        /\ floor \in 0..MaxSeq /\ floor' \in 0..MaxSeq /\ floor <= floor'
    BY StepKeeps, StepType, StoreAssumed DEF RetryInv, LogInv, TypeInv
  <1>1. CASE hint' = hint
    <2>1. hint # None => hint.seq \in Int
      BY <1>0, HintFields DEF TypeOK, Seqs
    <2>2. QED
      BY <1>0, <1>1, <2>1 DEF Hinted
  <1>2. CASE HintCas(c) /\ hint' # hint
    <2>1. hint = old[c] /\ hint' = Desired(c) /\ pc[c] = "hCas" /\ floor' = floor
      BY <1>2 DEF HintCas
    <2>2. hint # None => hint.seq \in Int /\ (hint.seq <= guess[c] \/ hint.seq < floor)
      BY <1>0, <2>1, HintFields DEF HintOK, TypeOK, Seqs
    <2>3. hint' # None /\ hint'.seq = guess[c] /\ guess[c] \in Int
      <3>1. guess[c] \in Seqs /\ event[c] \in Events
        BY <1>0, <2>1 DEF CallOK, Hinting, Appending
      <3>2. Desired(c) \in Hints /\ Desired(c).seq = guess[c]
        BY <3>1 DEF Desired, Hints
      <3>3. QED
        BY <1>0, <2>1, <3>1, <3>2, HintFields DEF Seqs
    <2>4. CASE n < floor
      BY <2>1, <2>4 DEF Hinted
    <2>5. CASE hint # None /\ hint.seq >= n
      BY <1>0, <2>1, <2>2, <2>3, <2>5 DEF Hinted
    <2>6. QED
      BY <2>4, <2>5 DEF Hinted
  <1>3. HintCas(c) \/ hint' = hint
    BY DEF Steps, store, Append, Trim, Gc, LogMaxSeed, LogMaxList, ReadTailHint,
       AppendHint, AppendFloor, AppendScan, AppendCreate, AppendReadback, HintGet, HintCheck,
       TrimEnd, ProposeTrim, CertifyTrim, DeleteBelow, SweepOne, Abort
  <1>4. QED
    BY <1>1, <1>2, <1>3

\* A hint that was backed stays so.
LEMMA BackedStays ==
  ASSUME RetryInv, NEW c \in Clients, Steps(c), NEW h \in Hints \cup {None}, Backed(h)
  PROVE  Backed(h)'
  <1>0. LogInv /\ MaxSeq \in Nat \ {0} /\ None \notin Events
    BY StoreAssumed DEF RetryInv
  <1>1. h # None => h.seq \in Seqs /\ h.seq \in Int /\ h.event # None
    BY <1>0, HintFields DEF Seqs
  <1>2. QED
    BY <1>0, <1>1, StepKeeps DEF Backed

\* Every number from the floor to the end that was foreign to client d stays so.
LEMMA ForeignStays ==
  ASSUME RetryInv, NEW c \in Clients, Steps(c), NEW d \in Clients, event'[d] = event[d],
         NEW s \in Seqs, floor' <= s, s <= Facts!End, Foreign(d, s)
  PROVE  Foreign(d, s)'
  <1>0. /\ LogInv /\ Facts!Gapless /\ Seqs = Facts!Seqs /\ s \in Int
        /\ MaxSeq \in Nat \ {0}
    BY StoreAssumed DEF RetryInv, LogInv, Seqs, Facts!Seqs
  <1>1. log[s] # None
    BY <1>0, StepKeeps DEF Facts!Gapless
  <1>2. log'[s] = log[s]
    BY <1>0, <1>1, StepKeeps
  <1>3. Hinted(s + 1) => Hinted(s + 1)'
    BY <1>0, HintedStays
  <1>4. QED
    BY <1>1, <1>2, <1>3 DEF Foreign

LEMMA OthersHints ==
  ASSUME RetryInv, NEW c \in Clients, Steps(c), NEW d \in Clients, d # c
  PROVE  HintOK(d)'
  <1>0. /\ LogInv /\ TypeOK /\ CallOK(d) /\ EndOK(d) /\ HintOK(d) /\ Private(d)' = Private(d)
        /\ MaxSeq \in Nat \ {0} /\ Window \in Nat
    BY StepIsPrivate, StoreAssumed, StreamAssumption DEF RetryInv, LogInv, TypeInv
  <1>1. /\ listMax[d] \in 0..MaxSeq /\ hintSeq[d] \in 0..MaxSeq /\ guess[d] \in 0..MaxSeq
        /\ old[d] \in Hints \cup {None} /\ \A s \in Seqs : s \in Int
        /\ old[d] # None => old[d].seq \in Int
    BY <1>0, HintFields DEF TypeOK, Seqs
  <1>2. /\ Facts!End \in 0..MaxSeq /\ floor \in 0..MaxSeq /\ floor' \in 0..MaxSeq
        /\ floor <= floor'
    BY <1>0, StepKeeps
  <1>3. pc[d] \in {"lSeed", "aHint", "tHint", "hCheck"} => Backed(old[d])'
    <2>1. ASSUME pc[d] \in {"lSeed", "aHint", "tHint", "hCheck"}, NEW h, h = old[d]
          PROVE  Backed(h)'
      BY <1>0, <1>1, <2>1, BackedStays DEF HintOK
    <2>2. QED
      BY <1>0, <2>1 DEF Private, Backed
  <1>4. pc[d] = "aHint" /\ old[d] # None => Hinted(old[d].seq)'
    <2>1. ASSUME pc[d] = "aHint", old[d] # None, NEW n, n = old[d].seq PROVE Hinted(n)'
      BY <1>0, <1>1, <2>1, HintedStays DEF HintOK
    <2>2. QED
      BY <1>0, <2>1 DEF Private, Hinted
  <1>5. pc[d] = "aFloor" => hintSeq[d] = 0 \/ Hinted(hintSeq[d])'
    <2>1. ASSUME pc[d] = "aFloor", hintSeq[d] # 0, NEW n, n = hintSeq[d] PROVE Hinted(n)'
      BY <1>0, <1>1, <2>1, HintedStays DEF HintOK
    <2>2. QED
      BY <1>0, <2>1 DEF Private, Hinted
  <1>6. ASSUME pc[d] = "aScan", NEW s \in Seqs, floor' <= s, s < guess[d],
               listMax[d] <= s + Window
        PROVE  Foreign(d, s)'
    <2>1. floor <= s /\ s <= Facts!End
      BY <1>0, <1>1, <1>2, <1>6 DEF EndOK, CallOK
    <2>2. Foreign(d, s)
      BY <1>0, <1>6, <2>1 DEF HintOK
    <2>3. QED
      BY <1>0, <1>6, <2>1, <2>2, ForeignStays DEF Private
  <1>7. ASSUME pc[d] \in Creating, NEW s \in Seqs, floor' <= s, s < guess[d],
               guess[d] <= s + Window + 1
        PROVE  Foreign(d, s)'
    <2>1. floor <= s /\ s <= Facts!End
      BY <1>0, <1>1, <1>2, <1>7 DEF EndOK
    <2>2. Foreign(d, s)
      BY <1>0, <1>7, <2>1 DEF HintOK
    <2>3. QED
      BY <1>0, <1>7, <2>1, <2>2, ForeignStays DEF Private
  <1>8. pc[d] = "hCas" /\ old[d] # None => old[d].seq <= guess[d] \/ old[d].seq < floor'
    BY <1>0, <1>1, <1>2 DEF HintOK
  <1>9. QED
    BY <1>0, <1>3, <1>4, <1>5, <1>6, <1>7, <1>8 DEF HintOK, Private

\* The number a create takes at or above the floor is past every other, and those
\* within a window before it are foreign to the client.
LEMMA StepRetry ==
  ASSUME RetryInv, NEW c \in Clients, Steps(c)
  PROVE  RetryWindow'
  <1>0. /\ LogInv /\ TypeOK /\ TypeOK' /\ CallOK(c) /\ EndOK(c) /\ HintOK(c) /\ RetryWindow
        /\ MaxSeq \in Nat \ {0} /\ Window \in Nat /\ None \notin Events
        /\ Facts!StoreInv /\ Seqs = Facts!Seqs
    BY EndFacts, StepType, StoreAssumed, StreamAssumption
    DEF RetryInv, LogInv, TypeInv, Facts!StoreInv, Facts!Seqs, Seqs
  <1>1. /\ Facts!End \in 0..MaxSeq /\ floor \in 0..MaxSeq /\ floor' \in 0..MaxSeq
        /\ floor <= floor' /\ \A s \in Seqs : log[s] # None /\ floor' <= s => log'[s] = log[s]
        /\ \A s \in Seqs : s \in Int
        /\ \A s \in Seqs : log[s] # None => s <= Facts!End
    BY <1>0, StepKeeps, EndFacts DEF Seqs
  <1>2. SUFFICES ASSUME NEW s \in Seqs, NEW t \in Seqs, floor' <= s, s < t,
                        t <= s + Window + 1, log'[s] # None, log'[t] # None,
                        log'[s].id = log'[t].id
                 PROVE  Hinted(s + 1)'
    <2>1. ASSUME NEW s \in Seqs, floor' <= s, Hinted(s + 1)' PROVE hint' # None /\ hint'.seq > s
      <3>1. hint' # None => hint'.seq \in Int
        BY <1>0, HintFields DEF TypeOK, Seqs
      <3>2. QED
        BY <1>1, <2>1, <3>1 DEF Hinted
    <2>2. QED
      BY <2>1 DEF RetryWindow
  <1>3. CASE log[s] # None /\ log[t] # None
    <2>1. log'[s] = log[s] /\ log'[t] = log[t] /\ floor <= s
      BY <1>1, <1>2, <1>3
    <2>2. hint # None /\ hint.seq > s
      BY <1>0, <1>2, <1>3, <2>1 DEF RetryWindow
    <2>3. Hinted(s + 1)
      <3>1. hint.seq \in Int
        BY <1>0, <2>2, HintFields DEF TypeOK, Seqs
      <3>2. QED
        BY <1>1, <2>2, <3>1 DEF Hinted
    <2>4. QED
      BY <1>1, <2>3, HintedStays
  <1>4. CASE AppendCreate(c) /\ ~ (log[s] # None /\ log[t] # None)
    <2>1. /\ guess[c] \in Seqs /\ event[c] \in Events /\ guess[c] <= Facts!End + 1
          /\ event[c] # None /\ pc[c] \in Creating /\ floor' = floor
      BY <1>0, <1>4 DEF AppendCreate, CallOK, EndOK, Creating, Appending
    <2>2. log[guess[c]] = None /\ log' = [log EXCEPT ![guess[c]] = event[c]]
      BY <1>2, <1>4 DEF AppendCreate
    <2>3. guess[c] = s \/ guess[c] = t
      BY <1>0, <1>2, <1>4, <2>1, <2>2 DEF TypeOK
    <2>4. guess[c] = Facts!End + 1
      <3>1. guess[c] = Facts!End + 1 \/ guess[c] < floor
        BY <1>0, <2>1, <2>2, StoreAssumed, Facts!FreeNumber
      <3>2. QED
        BY <1>1, <1>2, <2>1, <2>3, <3>1
    <2>5. t = guess[c]
      <3>1. CASE s = guess[c]
        <4>1. t # guess[c] /\ log'[t] = log[t]
          BY <1>0, <1>1, <1>2, <2>1, <2>2, <3>1 DEF TypeOK
        <4>2. t <= Facts!End
          BY <1>1, <1>2, <4>1
        <4>3. QED
          BY <1>1, <1>2, <2>4, <3>1, <4>2
      <3>2. QED
        BY <2>3, <3>1
    <2>6. s # guess[c] /\ log'[s] = log[s] /\ log'[t] = event[c]
      BY <1>0, <1>1, <1>2, <2>1, <2>2, <2>5 DEF TypeOK
    <2>7. Foreign(c, s)
      BY <1>0, <1>2, <2>1, <2>5 DEF HintOK
    <2>8. Hinted(s + 1)
      BY <1>2, <2>6, <2>7 DEF Foreign
    <2>9. QED
      BY <1>1, <2>8, HintedStays
  <1>5. CASE ~ AppendCreate(c)
    <2>1. \A n \in Seqs : log'[n] # None => log[n] # None
      <3>1. CASE SweepOne(c)
        <4>1. log' = log \/ \E n : log' = [log EXCEPT ![n] = None]
          BY <3>1 DEF SweepOne
        <4>2. QED
          BY <1>0, <4>1 DEF TypeOK
      <3>2. CASE ~ SweepOne(c)
        BY <1>5, <3>2 DEF Steps, store, Append, Trim, Gc, LogMaxSeed, LogMaxList,
           ReadTailHint, AppendHint, AppendFloor, AppendScan, AppendReadback, HintGet,
           HintCheck, HintCas, TrimEnd, ProposeTrim, CertifyTrim, DeleteBelow, Abort
      <3>3. QED
        BY <3>1, <3>2
    <2>2. QED
      BY <1>2, <1>3, <2>1
  <1>6. QED
    BY <1>3, <1>4, <1>5

\* Above the floor, what the scan leaves out and is within a window of the known
\* end lies before the hint.
LEMMA ScanCovers ==
  ASSUME TypeOK, NEW c \in Clients, hintSeq[c] = 0 \/ Hinted(hintSeq[c]), NEW s \in Seqs,
         floor <= s, s < ScanFrom(c), listMax[c] <= s + Window
  PROVE  Hinted(s + 1)
  <1>1. /\ listMax[c] \in 0..MaxSeq /\ hintSeq[c] \in 0..MaxSeq /\ floor \in 0..MaxSeq
        /\ MaxSeq \in Nat \ {0} /\ Window \in Nat /\ s \in Int /\ 1 <= s
    BY StoreAssumed, StreamAssumption DEF TypeOK, Seqs
  <1>2. ScanFrom(c) \in {1, floor, hintSeq[c], listMax[c] - Window}
    BY ScanBounds
  <1>3. s < hintSeq[c]
    BY <1>1, <1>2
  <1>4. hint # None /\ hint.seq >= hintSeq[c]
    BY <1>1, <1>3 DEF Hinted
  <1>5. hint.seq \in Int
    BY <1>4, <1>1, HintFields DEF TypeOK, Seqs
  <1>6. QED
    BY <1>1, <1>3, <1>4, <1>5 DEF Hinted

\* The client that takes the step keeps its account of the numbers it has been
\* through.
LEMMA StepHints ==
  ASSUME RetryInv, NEW c \in Clients, Steps(c)
  PROVE  HintOK(c)'
  <1>0. /\ LogInv /\ TypeOK /\ CallOK(c) /\ EndOK(c) /\ HintOK(c) /\ Backed(hint)
        /\ MaxSeq \in Nat \ {0} /\ Window \in Nat /\ None \notin Events
    BY StoreAssumed, StreamAssumption DEF RetryInv, LogInv, TypeInv
  <1>1. /\ listMax[c] \in 0..MaxSeq /\ hintSeq[c] \in 0..MaxSeq /\ guess[c] \in 0..MaxSeq
        /\ limit[c] \in 0..MaxSeq /\ old[c] \in Hints \cup {None} /\ hint \in Hints \cup {None}
        /\ \A s \in Seqs : s \in Int /\ 1 <= s
        /\ floor \in 0..MaxSeq /\ Facts!End \in 0..MaxSeq
    BY <1>0, EndFacts DEF TypeOK, Seqs
  <1> USE DEF Creating, Goto
  <1>2. CASE pc'[c] \in {"idle", "lList", "lHint", "hGet", "tFloor", "tCertify", "gList",
                         "gDelete"}
    BY <1>2 DEF HintOK
  <1>3. ASSUME Return(c) PROVE HintOK(c)'
    BY <1>0, <1>2, <1>3 DEF Return, TypeOK
  <1>4. ASSUME NEW h \in HintRead, UNCHANGED store PROVE Backed(h)'
    <2>1. Backed(h)
      BY <1>0, <1>4 DEF HintRead, Backed
    <2>2. QED
      BY <1>4, <2>1 DEF Backed, store
  <1>5. CASE (\E e \in Events : Append(c, e)) \/ \E f \in Seqs : Trim(c, f)
    <2>1. pc'[c] = "lSeed" /\ old'[c] \in HintRead /\ UNCHANGED store
      BY <1>0, <1>5 DEF Append, Trim, TypeOK
    <2>2. Backed(old[c])'
      BY <1>4, <2>1 DEF Backed
    <2>3. QED
      BY <2>1, <2>2 DEF HintOK
  <1>6. CASE LogMaxSeed(c) \/ LogMaxList(c) \/ Gc(c)
    BY <1>0, <1>2, <1>6 DEF LogMaxSeed, LogMaxList, Gc, TypeOK
  <1>7. CASE ReadTailHint(c)
    <2>1. pc'[c] \in {"aHint", "tHint"} /\ old'[c] \in HintRead /\ UNCHANGED store
      BY <1>0, <1>7 DEF ReadTailHint, TypeOK
    <2>2. Backed(old[c])'
      BY <1>4, <2>1 DEF Backed
    <2>3. old'[c] # None => Hinted(old[c].seq)'
      <3>1. ASSUME old'[c] # None PROVE old'[c] = hint' /\ hint.seq \in Int
        BY <1>1, <2>1, <3>1, HintFields DEF HintRead, store, Seqs
      <3>2. QED
        BY <2>1, <3>1 DEF Hinted, HintRead, store
    <2>4. QED
      BY <2>1, <2>2, <2>3 DEF HintOK
  <1>8. CASE AppendHint(c)
    <2>1. /\ pc[c] = "aHint" /\ pc'[c] = "aFloor" /\ hintSeq'[c] = Verified(old[c])
          /\ UNCHANGED store
      BY <1>0, <1>8 DEF AppendHint, TypeOK
    <2>2. hintSeq'[c] = 0 \/ Hinted(hintSeq'[c])
      BY <1>0, <1>1, <2>1, VerifiedFacts DEF HintOK
    <2>3. QED
      BY <2>1, <2>2 DEF HintOK, Hinted, store
  <1>9. CASE AppendFloor(c)
    <2> DEFINE m == Larger(listMax[c], hintSeq[c])
    <2>1. /\ pc[c] = "aFloor" /\ UNCHANGED store
          /\ hintSeq[c] = 0 \/ Hinted(hintSeq[c])
      BY <1>0, <1>9 DEF AppendFloor, HintOK, TypeOK
    <2>2. m \in 0..MaxSeq /\ listMax[c] <= m /\ ScanFrom(c) \in Nat
      BY <1>0, ScanBounds
    <2>3. ASSUME NEW s \in Seqs, floor' <= s, s < ScanFrom(c), m <= s + Window
          PROVE  Hinted(s + 1)'
      <3>1. UNCHANGED store
        BY <1>9 DEF AppendFloor
      <3>2. listMax[c] <= s + Window /\ floor <= s
        BY <1>0, <1>1, <2>2, <2>3, <3>1 DEF store
      <3>3. Hinted(s + 1)
        BY <1>0, <2>1, <2>3, <3>2, ScanCovers
      <3>4. QED
        BY <3>1, <3>3 DEF Hinted, store
    <2>4. \/ Return(c)
          \/ pc'[c] = "aScan" /\ guess'[c] = ScanFrom(c) /\ listMax'[c] = m
          \/ pc'[c] = "aCreate" /\ ScanFrom(c) > m /\ guess'[c] = FirstGuess(m, floor)
      BY <1>0, <1>9 DEF AppendFloor, StartCreate, TypeOK
    <2> HIDE DEF m
    <2>5. CASE pc'[c] = "aScan" /\ guess'[c] = ScanFrom(c) /\ listMax'[c] = m
      BY <2>3, <2>5 DEF HintOK, Foreign
    <2>6. CASE pc'[c] = "aCreate" /\ ScanFrom(c) > m /\ guess'[c] = FirstGuess(m, floor)
      <3>1. ASSUME NEW s \in Seqs, floor' <= s, s < guess'[c], guess'[c] <= s + Window + 1
            PROVE  s < ScanFrom(c) /\ m <= s + Window
        <4>1. floor' = floor /\ guess'[c] = Larger(m + 1, floor)
          BY <1>9, <2>6 DEF AppendFloor, store, FirstGuess
        <4>2. QED
          BY <1>0, <1>1, <2>2, <2>6, <3>1, <4>1 DEF Larger
      <3>2. QED
        BY <2>3, <2>6, <3>1 DEF HintOK, Foreign
    <2>7. QED
      BY <1>3, <2>4, <2>5, <2>6
  <1>10. ASSUME FoundOwn(c) PROVE HintOK(c)'
    BY <1>0, <1>2, <1>10 DEF FoundOwn, TypeOK
  <1>11. CASE AppendScan(c)
    <2>1. pc[c] = "aScan" /\ UNCHANGED store /\ guess[c] \in Seqs /\ guess[c] <= listMax[c]
      BY <1>0, <1>11 DEF AppendScan, CallOK
    <2>2. CASE /\ log[guess[c]] # None /\ log[guess[c]].id # event[c].id
               /\ \/ guess'[c] = guess[c] + 1 /\ pc'[c] = "aScan" /\ listMax'[c] = listMax[c]
                  \/ /\ guess[c] = listMax[c] /\ pc'[c] = "aCreate"
                     /\ guess'[c] = FirstGuess(listMax[c], limit[c])
               /\ event'[c] = event[c]
      <3>1. Foreign(c, guess[c])
        BY <2>2 DEF Foreign
      <3>2. ASSUME NEW s \in Seqs, floor <= s, s <= guess[c], listMax[c] <= s + Window
            PROVE  Foreign(c, s)'
        <4>1. Foreign(c, s)
          BY <1>0, <1>1, <2>1, <3>1, <3>2 DEF HintOK
        <4>2. QED
          BY <2>1, <2>2, <4>1 DEF Foreign, Hinted, store
      <3>3. CASE guess'[c] = guess[c] + 1 /\ pc'[c] = "aScan" /\ listMax'[c] = listMax[c]
        <4>1. ASSUME NEW s \in Seqs, s < guess'[c] PROVE s <= guess[c]
          BY <1>0, <1>1, <3>3, <4>1
        <4>2. QED
          BY <2>1, <3>2, <3>3, <4>1 DEF HintOK, store
      <3>4. CASE /\ guess[c] = listMax[c] /\ pc'[c] = "aCreate"
                 /\ guess'[c] = FirstGuess(listMax[c], limit[c])
        <4>1. limit[c] <= floor
          BY <1>0, <2>1 DEF EndOK
        <4>2. ASSUME NEW s \in Seqs, floor <= s, s < guess'[c], guess'[c] <= s + Window + 1
              PROVE  s <= guess[c] /\ listMax[c] <= s + Window
          BY <1>0, <1>1, <3>4, <4>1, <4>2 DEF FirstGuess, Larger
        <4>3. QED
          BY <2>1, <3>2, <3>4, <4>2 DEF HintOK, store
      <3>5. QED
        BY <2>2, <3>3, <3>4
    <2>3. QED
      BY <1>0, <1>3, <1>10, <1>11, <2>1, <2>2 DEF AppendScan, StartCreate, TypeOK
  <1>12. CASE AppendCreate(c)
    <2>1. CASE /\ pc'[c] = "aReadback" /\ guess'[c] = guess[c] /\ event'[c] = event[c]
      <3>0. pc[c] = "aCreate" /\ floor' = floor
        BY <1>12 DEF AppendCreate
      <3>1. ASSUME NEW s \in Seqs, floor' <= s, s < guess'[c], guess'[c] <= s + Window + 1
            PROVE  Foreign(c, s)'
        <4>1. Foreign(c, s)
          BY <1>0, <2>1, <3>0, <3>1 DEF HintOK
        <4>2. s <= Facts!End
          BY <1>0, <1>1, <2>1, <3>0, <3>1 DEF EndOK
        <4>3. QED
          BY <2>1, <3>1, <4>1, <4>2, ForeignStays
      <3>2. QED
        BY <2>1, <3>1 DEF HintOK
    <2>2. QED
      BY <1>0, <1>10, <1>12, <2>1 DEF AppendCreate, TypeOK
  <1>13. CASE AppendReadback(c)
    <2>0. pc[c] = "aReadback" /\ UNCHANGED store
      BY <1>13 DEF AppendReadback
    <2>1. CASE /\ log[guess[c]] # None /\ log[guess[c]].id # event[c].id
               /\ guess'[c] = guess[c] + 1 /\ pc'[c] = "aCreate" /\ event'[c] = event[c]
      <3>1. Foreign(c, guess[c])
        BY <2>1 DEF Foreign
      <3>2. ASSUME NEW s \in Seqs, floor <= s, s < guess'[c], guess'[c] <= s + Window + 1
            PROVE  Foreign(c, s)'
        <4>1. Foreign(c, s)
          BY <1>0, <1>1, <2>0, <2>1, <3>1, <3>2 DEF HintOK
        <4>2. QED
          BY <2>0, <2>1, <4>1 DEF Foreign, Hinted, store
      <3>3. QED
        BY <2>0, <2>1, <3>2 DEF HintOK, store
    <2>2. QED
      BY <1>0, <1>3, <1>10, <1>13, <2>1 DEF AppendReadback, TypeOK
  <1>14. CASE HintGet(c)
    <2>1. CASE /\ old'[c] = hint /\ pc'[c] = "hCas" /\ guess'[c] = guess[c]
               /\ hint # None => hint.seq <= guess[c]
      BY <2>1 DEF HintOK
    <2>2. CASE old'[c] = hint /\ pc'[c] = "hCheck" /\ UNCHANGED store
      BY <1>0, <2>2 DEF HintOK, Backed, store
    <2>3. hint # None => hint.seq \in Int
      BY <1>0, <1>1, HintFields DEF Seqs
    <2>4. QED
      BY <1>0, <1>1, <1>3, <1>14, <2>1, <2>2, <2>3 DEF HintGet, Receipt, TypeOK
  <1>15. CASE HintCheck(c)
    <2>0. pc[c] = "hCheck" /\ UNCHANGED store
      BY <1>15 DEF HintCheck
    <2>1. CASE Verified(old[c]) = 0 /\ pc'[c] = "hCas" /\ old' = old
      <3>1. old[c] # None => old[c].seq < floor
        BY <1>0, <1>1, <2>0, <2>1, VerifiedFacts DEF HintOK, Backed
      <3>2. QED
        BY <2>0, <2>1, <3>1 DEF HintOK, store
    <2>2. QED
      BY <1>0, <1>3, <1>15, <2>1 DEF HintCheck, Receipt, TypeOK
  <1>16. CASE HintCas(c) \/ CertifyTrim(c) \/ Abort(c)
    BY <1>3, <1>16 DEF HintCas, CertifyTrim, Abort, Receipt
  <1>17. CASE TrimEnd(c) \/ ProposeTrim(c) \/ DeleteBelow(c)
    BY <1>0, <1>2, <1>3, <1>17 DEF TrimEnd, ProposeTrim, DeleteBelow, TypeOK
  <1>18. CASE SweepOne(c)
    BY <1>0, <1>2, <1>3, <1>18 DEF SweepOne
  <1>19. QED
    BY <1>5, <1>6, <1>7, <1>8, <1>9, <1>11, <1>12, <1>13, <1>14, <1>15, <1>16, <1>17, <1>18
    DEF Steps

LEMMA NextRetry == RetryInv /\ [Next]_vars => RetryInv'
  <1> SUFFICES ASSUME RetryInv, [Next]_vars PROVE RetryInv'
    OBVIOUS
  <1>1. LogInv'
    BY NextLog DEF RetryInv
  <1>2. CASE UNCHANGED vars
    BY <1>1, <1>2 DEF vars, RetryInv, RetryWindow, HintOK, Backed, Foreign, Hinted
  <1>3. CASE Next
    <2>1. PICK c \in Clients : Steps(c)
      BY <1>3, NextSteps
    <2>2. Backed(hint)'
      <3>0. TypeOK /\ CallOK(c) /\ EndOK(c) /\ Backed(hint)
        BY DEF RetryInv, LogInv, TypeInv
      <3>1. CASE hint' = hint
        <4>1. ASSUME NEW h, h = hint PROVE Backed(h)'
          BY <2>1, <3>0, <4>1, BackedStays DEF TypeOK
        <4>2. QED
          BY <3>1, <4>1 DEF Backed
      <3>2. CASE HintCas(c) /\ hint' # hint
        <4>1. hint' = Desired(c) /\ pc[c] = "hCas" /\ log' = log /\ floor' = floor
          BY <3>2 DEF HintCas
        <4>2. floor <= guess[c] => log[guess[c]] = event[c]
          BY <3>0, <4>1 DEF EndOK, Hinting
        <4>3. /\ hint'.seq = guess[c] /\ hint'.event = event[c]
              /\ guess[c] \in Int /\ floor \in Int
          BY <3>0, <4>1, StoreAssumed DEF Desired, TypeOK
        <4>4. QED
          BY <4>1, <4>2, <4>3 DEF Backed
      <3>3. HintCas(c) \/ hint' = hint
        BY <2>1 DEF Steps, store, Append, Trim, Gc, LogMaxSeed, LogMaxList, ReadTailHint,
           AppendHint, AppendFloor, AppendScan, AppendCreate, AppendReadback, HintGet,
           HintCheck, TrimEnd, ProposeTrim, CertifyTrim, DeleteBelow, SweepOne, Abort
      <3>4. QED
        BY <3>1, <3>2, <3>3
    <2>3. \A d \in Clients : HintOK(d)'
      BY <2>1, StepHints, OthersHints
    <2>4. QED
      BY <1>1, <2>1, <2>2, <2>3, StepRetry DEF RetryInv
  <1>4. QED
    BY <1>2, <1>3

\* Of two retained events with the same stable id one is more than a window past
\* the other, or the tail hint has passed the earlier one: the scan before the
\* create loop and the readback in it miss no landing of a retried append, for any
\* number of writers, trims and sweeps.
THEOREM RetryWindowTheorem == Spec => []RetryWindow
  <1>1. RetryInv => RetryWindow
    BY DEF RetryInv
  <1>2. QED
    BY <1>1, InitRetry, NextRetry, PTL DEF Spec

==============================================================================
