--------------------------- MODULE LineageFolds_proofs ---------------------------
(***************************************************************************)
(* Proofs about LineageFolds for any records, folders and bounds.          *)
(***************************************************************************)
EXTENDS LineageFolds, WellFoundedInduction, TLAPS

-----------------------------------------------------------------------------
(* Types.                                                                  *)

Copies == [digest : Records, bytes : Records \cup {Rot}]

Projections == [kind : {"projection"}, gen : Nat, rec : Records, records : Seq(Copies)]

Checkpoints == [kind : {"checkpoint"}, gen : Nat, source : Records, last : Records,
                state : States \cup {None}, bytes : {"whole", "rotten"}]

TypeOK ==
  /\ head \in Heads \cup {None}
  /\ era \in 0..MaxInc
  /\ DOMAIN objects \subseteq Records
  /\ held # None => held \in Projections \cup Checkpoints
  /\ pc \in {"idle", "history", "terminal", "checkpoint"}
  /\ recs \in Seq(Records)
  /\ ready \in [0..MaxInc -> SUBSET Records]
  /\ log \in Seq(Records)
  /\ said \in Seq(Records)
  /\ logs \in [0..MaxInc -> Seq(Records)]
  /\ stood \subseteq [inc : 0..MaxInc, rec : Records]
  /\ pc # "idle" => /\ op \in {"fold", "at", "rebuild", "projected", "terminal"}
                    /\ loaded \in Heads
                    /\ want \in 0..loaded.gen
                    /\ op \in {"fold", "rebuild"} => want = loaded.gen

-----------------------------------------------------------------------------
(* Chains.                                                                 *)

\* The records of l are a chain from a genesis on.
Chain(l) ==
  \A i \in 1..Len(l) :
    /\ l[i].seq = i - 1
    /\ l[i].prior = IF i = 1 THEN None ELSE l[i - 1]

\* The records that are loaded end the log of the loaded head, and the walk's next
\* digest is the record before them.
Walking ==
  /\ Len(recs) < Len(said)
  /\ next = said[Len(said) - Len(recs)]
  /\ \A j \in 1..Len(recs) : recs[j] = said[Len(said) - Len(recs) + j]
  /\ recs # <<>> => loaded.gen = Len(said) - 1

\* A record that stood is in the log of its era.
Logged(x, l) == \E k \in 1..Len(l) : l[k] = x.rec

\* The head ends its log, the open era's log is the head's if the head is of that era
\* and empty if not, and what stood is logged.
LineageInv ==
  /\ Chain(log) /\ \A i \in 0..MaxInc : Chain(logs[i])
  /\ head # None => /\ log # <<>> /\ head.rec = log[Len(log)]
                    /\ head.inc <= era
                    /\ head.inc = era => logs[era] = log
  /\ head = None \/ head.inc # era => logs[era] = <<>>
  /\ \A i \in 0..MaxInc : i > era => logs[i] = <<>>
  /\ \A x \in stood : Logged(x, logs[x.inc])

\* A call works on the log of the head it loaded.
CallInv ==
  /\ Chain(said)
  /\ pc # "idle" => said # <<>> /\ loaded.rec = said[Len(said)]
  /\ pc = "history" => Walking
  /\ pc = "terminal" => next = loaded.rec
  /\ pc = "checkpoint" => /\ Holds("checkpoint")
                          /\ want = Len(said) - 1
                          /\ recs = said

FoldInv == TypeOK /\ LineageInv /\ CallInv

\* Before any harm every object is whole, every record under a head is there, and
\* every head repeats its record.
Intact ==
  ~ harmed =>
    /\ \A x \in DOMAIN objects : objects[x] = x
    /\ \A i \in 0..MaxInc : ready[i] \subseteq DOMAIN objects
    /\ \A k \in 1..Len(log) : log[k] \in DOMAIN objects
    /\ head # None => head.gen = head.rec.seq /\ head.prior = head.rec.prior
    /\ pc # "idle" => /\ loaded.gen = loaded.rec.seq /\ loaded.prior = loaded.rec.prior
                      /\ \A k \in 1..Len(said) : said[k] \in DOMAIN objects

LEMMA Bounds == /\ MaxGen \in Nat /\ MaxInc \in Nat /\ None \notin Records /\ None \notin Heads
                /\ \A r \in Records : r.seq \in Nat /\ r.seq <= MaxGen
  BY FoldsAssumption

LEMMA Difference ==
  ASSUME NEW a \in Nat, NEW b \in Nat, NEW c \in Nat, b - c = (a - c) - 1
  PROVE  b = a - 1
  OBVIOUS

\* One more record in front.
LEMMA Prepended ==
  ASSUME NEW S, NEW x \in S, NEW s \in Seq(S)
  PROVE  /\ <<x>> \o s \in Seq(S) /\ Len(<<x>> \o s) = Len(s) + 1
         /\ (<<x>> \o s)[1] = x
         /\ \A j \in 2..Len(s) + 1 : (<<x>> \o s)[j] = s[j - 1]
  OBVIOUS

\* A sequence with the entries of another one is that one.
LEMMA SameSequence ==
  ASSUME NEW S, NEW s \in Seq(S), NEW t \in Seq(S), Len(s) = Len(t),
         \A j \in 1..Len(s) : s[j] = t[j]
  PROVE  s = t
  OBVIOUS

\* Two sequences that agree up to n have the same beginnings.
LEMMA SameBeginning ==
  ASSUME NEW S, NEW s \in Seq(S), NEW t \in Seq(S), NEW n \in Nat,
         n <= Len(s), n <= Len(t), \A j \in 1..n : s[j] = t[j], NEW k \in 0..n
  PROVE  SubSeq(s, 1, k) = SubSeq(t, 1, k)
  OBVIOUS

\* A chain goes on by a batch that validate_record_batch accepts.
LEMMA ChainGrows ==
  ASSUME NEW l \in Seq(Records), NEW rs \in Seq(Records), rs # <<>>, Chain(l),
         ValidBatch(rs, Len(l), IF l = <<>> THEN None ELSE l[Len(l)])
  PROVE  /\ l \o rs \in Seq(Records) /\ Chain(l \o rs) /\ l \o rs # <<>>
         /\ Len(l) <= Len(l \o rs)
         /\ \A i \in 1..Len(l) : (l \o rs)[i] = l[i]
  <1> DEFINE k == l \o rs
  <1>1. /\ k \in Seq(Records) /\ Len(k) = Len(l) + Len(rs) /\ k # <<>>
        /\ Len(l) \in Nat /\ Len(rs) \in Nat /\ DOMAIN rs = 1..Len(rs)
        /\ \A i \in 1..Len(l) : k[i] = l[i]
        /\ \A i \in 1..Len(rs) : k[Len(l) + i] = rs[i]
    OBVIOUS
  <1> HIDE DEF k
  <1>2. ASSUME NEW i \in 1..Len(l)
        PROVE  k[i].seq = i - 1 /\ k[i].prior = IF i = 1 THEN None ELSE k[i - 1]
    <2>1. i # 1 => i - 1 \in 1..Len(l)
      BY <1>1
    <2>2. QED
      BY <1>1, <2>1 DEF Chain
  <1>3. ASSUME NEW j \in 1..Len(rs)
        PROVE  /\ k[Len(l) + j].seq = (Len(l) + j) - 1
               /\ k[Len(l) + j].prior =
                    IF Len(l) + j = 1 THEN None ELSE k[(Len(l) + j) - 1]
    <2>1. /\ rs[j].seq = Len(l) + j - 1
          /\ j = 1 => rs[j].prior = IF l = <<>> THEN None ELSE l[Len(l)]
          /\ j # 1 => rs[j].prior = rs[j - 1]
      BY <1>1 DEF ValidBatch
    <2>2. CASE j = 1 /\ l = <<>>
      BY <1>1, <2>1, <2>2
    <2>3. CASE j = 1 /\ l # <<>>
      <3>1. Len(l) \in 1..Len(l) /\ (Len(l) + j) - 1 = Len(l) /\ Len(l) + j # 1
        BY <1>1, <2>3
      <3>2. QED
        BY <1>1, <2>1, <2>3, <3>1
    <2>4. CASE j # 1
      <3>1. j - 1 \in 1..Len(rs) /\ (Len(l) + j) - 1 = Len(l) + (j - 1) /\ Len(l) + j # 1
        BY <1>1, <2>4
      <3>2. QED
        BY <1>1, <2>1, <2>4, <3>1
    <2>5. QED
      BY <2>2, <2>3, <2>4
  <1>4. ASSUME NEW i \in 1..Len(k)
        PROVE  k[i].seq = i - 1 /\ k[i].prior = IF i = 1 THEN None ELSE k[i - 1]
    <2>1. i \in 1..Len(l) \/ (i - Len(l) \in 1..Len(rs) /\ i = Len(l) + (i - Len(l)))
      BY <1>1
    <2>2. QED
      BY <1>2, <1>3, <2>1
  <1>5. Chain(k) /\ Len(l) <= Len(k)
    BY <1>1, <1>4 DEF Chain
  <1>6. QED
    BY <1>1, <1>5 DEF k

LEMMA LeastNumber ==
  ASSUME NEW T, T \subseteq Nat, T # {}
  PROVE  \E x \in T : \A y \in T : x <= y
  <1>1. PICK x \in T : \A y \in T : ~ (<<y, x>> \in OpToRel(<, Nat))
    BY NatLessThanWellFounded, WFMin
  <1>2. \A y \in Nat : y < x => <<y, x>> \in OpToRel(<, Nat)
    BY <1>1 DEF OpToRel
  <1>3. \A y \in T : ~ (y < x)
    BY <1>1, <1>2, Zenon
  <1>4. x \in Nat /\ \A y \in T : y \in Nat
    OBVIOUS
  <1> HIDE <1>1
  <1>5. QED
    BY <1>3, <1>4

\* Two chains with the same last record and the same length are one.
LEMMA OneChain ==
  ASSUME NEW n \in Nat \ {0}, NEW f, NEW g, f[n] = g[n],
         \A i \in 2..n : f[i].prior = f[i - 1] /\ g[i].prior = g[i - 1]
  PROVE  \A i \in 1..n : f[i] = g[i]
  <1> DEFINE T == {k \in 0..n - 1 : f[n - k] # g[n - k]}
  <1>1. SUFFICES ASSUME T # {} PROVE FALSE
    <2>1. ASSUME NEW i \in 1..n PROVE f[i] = g[i]
      <3>1. n - i \in 0..n - 1 /\ n - (n - i) = i
        OBVIOUS
      <3>2. QED
        BY <1>1, <3>1
    <2>2. QED
      BY <2>1
  <1>2. PICK k \in T : \A y \in T : k <= y
    <2>1. T \subseteq Nat
      OBVIOUS
    <2> HIDE DEF T
    <2>2. QED
      BY <1>1, <2>1, LeastNumber
  <1>3. k \in 1..n - 1
    <2>1. k \in 0..n - 1 /\ f[n - k] # g[n - k]
      OBVIOUS
    <2>2. k # 0
      BY <2>1
    <2>3. QED
      BY <2>1, <2>2
  <1>4. k - 1 \in 0..n - 1 /\ ~ (k <= k - 1)
    BY <1>3
  <1>5. k - 1 \notin T
    BY <1>2, <1>4
  <1>6. f[n - (k - 1)] = g[n - (k - 1)]
    BY <1>4, <1>5
  <1>7. n - (k - 1) \in 2..n /\ n - (k - 1) - 1 = n - k
    BY <1>3
  <1>8. f[n - k] = g[n - k]
    BY <1>6, <1>7
  <1>9. QED
    BY <1>8

\* Two chains in which one ends in a record of the other agree up to there.
LEMMA SameChain ==
  ASSUME NEW l \in Seq(Records), NEW m \in Seq(Records), Chain(l), Chain(m), l # <<>>,
         NEW k \in 1..Len(m), m[k] = l[Len(l)]
  PROVE  /\ k = Len(l) /\ Len(l) <= Len(m) /\ \A i \in 1..Len(l) : l[i] = m[i]
  <1>1. Len(l) \in Nat \ {0} /\ Len(m) \in Nat /\ Len(l) \in 1..Len(l)
    OBVIOUS
  <1>2. k = Len(l)
    <2>1. l[Len(l)].seq = Len(l) - 1 /\ m[k].seq = k - 1
      BY <1>1 DEF Chain
    <2>2. QED
      BY <1>1, <2>1
  <1>3. Len(l) <= Len(m)
    BY <1>1, <1>2
  <1>4. ASSUME NEW i \in 2..Len(l)
        PROVE  l[i].prior = l[i - 1] /\ m[i].prior = m[i - 1]
    <2>1. i \in 1..Len(l) /\ i \in 1..Len(m) /\ i # 1
      BY <1>1, <1>3
    <2>2. QED
      BY <2>1 DEF Chain
  <1>5. l[Len(l)] = m[Len(l)]
    BY <1>2
  <1>6. \A i \in 1..Len(l) : l[i] = m[i]
    <2> DEFINE n == Len(l)
    <2>1. n \in Nat \ {0} /\ l[n] = m[n]
          /\ \A i \in 2..n : l[i].prior = l[i - 1] /\ m[i].prior = m[i - 1]
      BY <1>1, <1>4, <1>5
    <2> HIDE DEF n
    <2>2. \A i \in 1..n : l[i] = m[i]
      BY <2>1, OneChain
    <2>3. QED
      BY <2>2 DEF n
  <1>7. QED
    BY <1>2, <1>3, <1>6

\* A copy that comes back has the form of one.
LEMMA CopyType ==
  ASSUME FoldInv, FromCanonicalBytes
  PROVE  held' \in Projections
  <1>0. /\ held \in Projections /\ DOMAIN objects \subseteq Records
        /\ held.records \in Seq(Copies) /\ DOMAIN held.records = 1..Len(held.records)
    <2>1. held \in Projections
      BY DEF FoldInv, TypeOK, FromCanonicalBytes, Holds, Checkpoints
    <2>2. held.records \in Seq(Copies)
      BY <2>1 DEF Projections
    <2>3. QED
      BY <2>1, <2>2 DEF FoldInv, TypeOK
  <1>1. ASSUME NEW i \in DOMAIN held.records,
               CameBack([held EXCEPT !.records = RemoveAt(@, i)])
        PROVE  held' \in Projections
    <2>1. RemoveAt(held.records, i) \in Seq(Copies)
      BY <1>0, <1>1 DEF RemoveAt
    <2>2. held' = [held EXCEPT !.records = RemoveAt(held.records, i)]
      BY <1>1 DEF CameBack
    <2>3. QED
      BY <1>0, <2>1, <2>2 DEF Projections
  <1>2. ASSUME NEW i \in DOMAIN held.records, NEW d \in DOMAIN objects,
               NEW b \in DOMAIN objects \cup {Rot}, NEW r \in DOMAIN objects,
               CameBack([held EXCEPT !.records = [@ EXCEPT ![i] = [digest |-> d, bytes |-> b]],
                                     !.gen = r.seq, !.rec = r])
        PROVE  held' \in Projections
    <2>1. [digest |-> d, bytes |-> b] \in Copies
      BY <1>0 DEF Copies
    <2>2. [held.records EXCEPT ![i] = [digest |-> d, bytes |-> b]] \in Seq(Copies)
      BY <1>0, <2>1
    <2>3. r \in Records /\ r.seq \in Nat
      BY <1>0, Bounds
    <2>4. held' = [held EXCEPT !.records = [held.records EXCEPT ![i] = [digest |-> d, bytes |-> b]],
                               !.gen = r.seq, !.rec = r]
      BY <1>2 DEF CameBack
    <2>5. QED
      BY <1>0, <2>2, <2>3, <2>4 DEF Projections
  <1>3. QED
    BY <1>1, <1>2 DEF FromCanonicalBytes

-----------------------------------------------------------------------------
(* The walk.                                                               *)

\* A record the walk takes is the one that the log has there: the first of it, or one
\* with the walk's next digest before it.
LEMMA Round ==
  ASSUME FoldInv, pc = "history", next \in DOMAIN objects, objects[next] = next,
         next.seq = loaded.gen - Len(recs)
  PROVE  LET rs == <<next>> \o recs
         IN /\ next \in Records /\ rs \in Seq(Records)
            /\ loaded.gen = Len(said) - 1
            /\ next.prior = None => rs = said
            /\ next.prior # None =>
                 /\ Len(rs) < Len(said)
                 /\ next.prior = said[Len(said) - Len(rs)]
                 /\ \A j \in 1..Len(rs) : rs[j] = said[Len(said) - Len(rs) + j]
  <1> DEFINE rs == <<next>> \o recs
             n  == Len(said)
             k  == n - Len(recs)
  <1>1. TypeOK /\ Chain(said) /\ Walking /\ next \in Records /\ loaded.gen \in Nat
    BY Bounds DEF FoldInv, TypeOK, CallInv, Heads
  <1>2. /\ recs \in Seq(Records) /\ said \in Seq(Records)
        /\ Len(recs) \in Nat /\ n \in Nat /\ k \in 1..n /\ next = said[k]
        /\ \A j \in 1..Len(recs) : recs[j] = said[k + j]
    BY <1>1 DEF TypeOK, Walking
  <1>3. rs \in Seq(Records) /\ Len(rs) = Len(recs) + 1 /\ rs[1] = next
        /\ \A j \in 2..Len(recs) + 1 : rs[j] = recs[j - 1]
    BY <1>1, <1>2, Prepended
  <1>4. next.seq = k - 1 /\ next.prior = IF k = 1 THEN None ELSE said[k - 1]
    BY <1>1, <1>2 DEF Chain
  <1>5. loaded.gen = n - 1
    <2>1. loaded.gen - Len(recs) = (n - Len(recs)) - 1
      BY <1>4
    <2> DEFINE c == Len(recs)
               g == loaded.gen
    <2>2. c \in Nat /\ g \in Nat /\ n \in Nat /\ g - c = (n - c) - 1
      BY <1>1, <1>2, <2>1
    <2> HIDE DEF n, c, g
    <2>3. g = n - 1
      BY <2>2, Difference
    <2>4. QED
      BY <2>3 DEF g
  <1>6. \A j \in 1..Len(rs) : rs[j] = said[n - Len(rs) + j]
    <2> SUFFICES ASSUME NEW j \in 1..Len(rs) PROVE rs[j] = said[n - Len(rs) + j]
      OBVIOUS
    <2>1. CASE j = 1
      <3>1. n - Len(rs) + j = k
        <4> HIDE DEF rs, n
        <4>1. QED
          BY <1>2, <1>3, <2>1
      <3>2. rs[j] = said[k]
        BY <1>2, <1>3, <2>1
      <3>3. QED
        BY <3>1, <3>2
    <2>2. CASE j \in 2..Len(recs) + 1
      <3>1. rs[j] = recs[j - 1] /\ j - 1 \in 1..Len(recs)
        BY <1>2, <1>3, <2>2
      <3>2. recs[j - 1] = said[k + (j - 1)]
        BY <1>2, <3>1
      <3>3. k + (j - 1) = n - Len(rs) + j
        BY <1>2, <1>3, <2>2
      <3>4. QED
        BY <3>1, <3>2, <3>3
    <2>3. QED
      BY <1>2, <1>3, <2>1, <2>2
  <1>7. ASSUME next.prior = None PROVE rs = said
    <2>1. k = 1
      <3>1. k # 1 => said[k - 1] \in Records
        BY <1>2
      <3>2. QED
        BY <1>4, <1>7, <3>1, Bounds
    <2>2. Len(rs) = n /\ \A j \in 1..n : n - Len(rs) + j = j
      <3> HIDE DEF rs, n
      <3>1. QED
        BY <1>2, <1>3, <2>1
    <2>3. \A j \in 1..n : rs[j] = said[j]
      BY <1>6, <2>2
    <2> HIDE DEF rs
    <2>4. QED
      BY <1>2, <1>3, <2>2, <2>3, SameSequence
  <1>8. ASSUME next.prior # None
        PROVE  Len(rs) < n /\ next.prior = said[n - Len(rs)]
    <2>1. k # 1 /\ k - 1 = n - Len(rs)
      BY <1>2, <1>3, <1>4, <1>8
    <2>2. QED
      BY <1>2, <1>3, <1>4, <2>1
  <1>9. QED
    BY <1>1, <1>3, <1>5, <1>6, <1>7, <1>8

-----------------------------------------------------------------------------
(* Projections.                                                            *)

\* A coherent copy of the head's chain, wherever its bytes were kept, is the head's
\* log.
LEMMA ProjectionSays ==
  ASSUME FoldInv, held \in Projections, head # None, ProjectedHistory(held, head)
  PROVE  /\ [i \in DOMAIN held.records |-> held.records[i].bytes] = log
         /\ head.gen = Len(log) - 1
  <1> DEFINE rs == [i \in DOMAIN held.records |-> held.records[i].bytes]
             n  == held.gen + 1
  <1>1. /\ log \in Seq(Records) /\ Chain(log) /\ log # <<>> /\ head.rec = log[Len(log)]
        /\ held.records \in Seq(Copies) /\ held.gen \in Nat
    BY DEF FoldInv, TypeOK, LineageInv, Projections
  <1>2. /\ held.gen = head.gen /\ held.rec = head.rec
        /\ Len(held.records) = n
        /\ held.records[Len(held.records)].digest = held.rec
        /\ \A i \in DOMAIN held.records :
             /\ held.records[i].bytes = held.records[i].digest
             /\ held.records[i].bytes.seq = i - 1
             /\ held.records[i].bytes.prior =
                  IF i = 1 THEN None ELSE held.records[i - 1].digest
    BY DEF ProjectedHistory, Matches, RecordsForSource
  <1>3. DOMAIN held.records = 1..n /\ n \in 1..n /\ n \in Nat \ {0}
    BY <1>1, <1>2
  <1>4. \A i \in 1..n : rs[i] \in Records
    <2> SUFFICES ASSUME NEW i \in 1..n PROVE rs[i] \in Records
      OBVIOUS
    <2>1. held.records[i] \in Copies
      BY <1>1, <1>3
    <2>2. held.records[i].digest \in Records /\ rs[i] = held.records[i].digest
      BY <1>2, <1>3, <2>1 DEF Copies
    <2>3. QED
      BY <2>2
  <1>5. rs \in [1..n -> Records]
    <2>1. rs = [i \in 1..n |-> rs[i]]
      BY <1>3
    <2> HIDE DEF rs, n
    <2>2. QED
      BY <1>4, <2>1
  <1>6. rs \in Seq(Records) /\ Len(rs) = n
    <2> HIDE DEF rs, n
    <2>1. QED
      BY <1>3, <1>5
  <1>7. Chain(rs)
    <2>1. ASSUME NEW i \in 1..n
          PROVE  rs[i].seq = i - 1 /\ rs[i].prior = IF i = 1 THEN None ELSE rs[i - 1]
      <3>1. rs[i] = held.records[i].bytes /\ (i # 1 => i - 1 \in 1..n)
        BY <1>3
      <3>2. i # 1 => rs[i - 1] = held.records[i - 1].digest
        BY <1>2, <1>3, <3>1
      <3>3. QED
        BY <1>2, <1>3, <3>1, <3>2
    <2> HIDE DEF rs, n
    <2>2. QED
      BY <1>6, <2>1 DEF Chain
  <1>8. rs[n] = log[Len(log)]
    BY <1>1, <1>2, <1>3
  <1>9. Len(log) \in 1..Len(log) /\ n \in 1..Len(rs) /\ rs # <<>>
    <2> HIDE DEF rs, n
    <2>1. QED
      BY <1>1, <1>3, <1>6
  <1>10. n = Len(log) /\ \A i \in 1..Len(log) : log[i] = rs[i]
    <2> HIDE DEF rs, n
    <2>1. QED
      BY <1>1, <1>6, <1>7, <1>8, <1>9, SameChain
  <1>11. rs = log
    <2> HIDE DEF rs, n
    <2>1. QED
      BY <1>1, <1>6, <1>10, SameSequence
  <1>12. head.gen = Len(log) - 1
    BY <1>1, <1>2, <1>10
  <1>13. QED
    BY <1>11, <1>12

-----------------------------------------------------------------------------
(* Every step of the reader keeps the invariant.                           *)

\* What a caller is told.
Told == FoldIsGenuine /\ AcceptedCheckpointIsTrue

LEMMA SameLineage ==
  ASSUME LineageInv, UNCHANGED lineage
  PROVE  LineageInv'
  BY DEF LineageInv, lineage, Logged

\* A call returns, and may leave its caller a projection.
LEMMA EndOfCall ==
  ASSUME FoldInv, Idle, UNCHANGED lineage,
         UNCHANGED held \/ held' \in Projections \cup Checkpoints
  PROVE  FoldInv'
  <1>1. TypeOK'
    BY DEF FoldInv, TypeOK, Idle, lineage
  <1>2. CallInv'
    BY DEF CallInv, Idle, Chain
  <1>3. QED
    BY <1>1, <1>2, SameLineage DEF FoldInv

\* A caller takes or drops a projection or a checkpoint.
LEMMA HeldChanges ==
  ASSUME FoldInv, pc = "idle", UNCHANGED <<lineage, locals>>,
         held' = None \/ held' \in Projections \cup Checkpoints
  PROVE  FoldInv'
  <1>1. TypeOK'
    BY DEF FoldInv, TypeOK, lineage, locals
  <1>2. CallInv'
    BY DEF FoldInv, CallInv, locals, Chain
  <1>3. QED
    BY <1>1, <1>2, SameLineage DEF FoldInv, locals

LEMMA PublishStep ==
  ASSUME FoldInv, PublishCheckpoint
  PROVE  FoldInv'
  <1>1. PICK c \in Candidates :
          \/ held' = c
          \/ c.state = None /\ held' = [c EXCEPT !.bytes = "rotten"]
    BY DEF PublishCheckpoint
  <1>2. \E g \in Nat, q \in Records, r \in Records, s \in States \cup {None} :
          c = Checkpoint(g, q, r, s)
    <2>0. \A r \in DOMAIN objects : r \in Records /\ r.seq \in Nat /\ r.seq + 1 \in Nat
      BY Bounds DEF FoldInv, TypeOK
    <2>1. PICK r \in DOMAIN objects :
            \/ c \in {Checkpoint(r.seq, r, r, s) : s \in States \cup {None}}
            \/ c \in {Checkpoint(r.seq + 1, r, r, s) : s \in States}
            \/ c \in {Checkpoint(r.seq, q, r, s) : q \in DOMAIN objects, s \in States}
            \/ c \in {Checkpoint(r.seq, r, q, s) : q \in DOMAIN objects, s \in States}
      BY SMTT(30) DEF Candidates
    <2>2. CASE c \in {Checkpoint(r.seq, r, r, s) : s \in States \cup {None}}
      BY <2>0, <2>2
    <2>3. CASE c \in {Checkpoint(r.seq + 1, r, r, s) : s \in States}
      BY <2>0, <2>3
    <2>4. CASE c \in {Checkpoint(r.seq, q, r, s) : q \in DOMAIN objects, s \in States}
      BY <2>0, <2>4
    <2>5. CASE c \in {Checkpoint(r.seq, r, q, s) : q \in DOMAIN objects, s \in States}
      BY <2>0, <2>5
    <2>6. QED
      BY <2>1, <2>2, <2>3, <2>4, <2>5
  <1>3. c \in Checkpoints
    BY <1>2 DEF Checkpoint, Checkpoints
  <1>4. held' \in Checkpoints
    BY <1>1, <1>3 DEF Checkpoints
  <1>5. QED
    BY <1>4, HeldChanges DEF PublishCheckpoint

\* A head is loaded, and the call starts at its record.
LEMMA LoadHeadStep ==
  ASSUME FoldInv, UNCHANGED <<lineage, held>>,
         NEW call \in {"fold", "at", "rebuild", "projected", "terminal"}, NEW g \in 0..MaxGen,
         LoadHead(call, g), g <= head.gen, call \in {"fold", "rebuild"} => g = head.gen
  PROVE  FoldInv'
  <1>1. /\ head \in Heads /\ head.gen \in Nat /\ g \in 0..head.gen
        /\ log \in Seq(Records) /\ Chain(log) /\ log # <<>> /\ head.rec = log[Len(log)]
    BY Bounds DEF FoldInv, TypeOK, LineageInv, LoadHead, Heads
  <1>2. /\ pc' \in {"terminal", "history"} /\ op' = call /\ loaded' = head /\ want' = g
        /\ next' = head.rec /\ recs' = <<>> /\ said' = log
        /\ UNCHANGED <<head, era, objects, ready, log, logs, stood, held>>
    BY DEF LoadHead, lineage
  <1>3. TypeOK'
    <2>1. recs' \in Seq(Records)
      BY <1>2
    <2>2. QED
      BY <1>1, <1>2, <2>1 DEF FoldInv, TypeOK
  <1>4. Walking'
    <2>1. Len(recs') = 0 /\ Len(said') \in Nat /\ Len(said') # 0
      BY <1>1, <1>2
    <2>2. Len(said') - Len(recs') = Len(log)
      BY <1>2, <2>1
    <2>3. QED
      BY <1>1, <1>2, <2>1, <2>2 DEF Walking
  <1>5. Chain(said')
    BY <1>1, <1>2 DEF Chain
  <1>6. CallInv'
    BY <1>1, <1>2, <1>4, <1>5 DEF CallInv, Chain
  <1>7. QED
    BY <1>3, <1>6, SameLineage DEF FoldInv

-----------------------------------------------------------------------------
(* What is told.                                                           *)

LEMMA NothingTold == answer' = None => Told'
  BY DEF Told, FoldIsGenuine, AcceptedCheckpointIsTrue

LEMMA ErrorTold ==
  ASSUME NEW why, NEW g, NEW f, Error(why, g) \/ Malformed(g, f)
  PROVE  Told' /\ Idle
  BY DEF Error, Malformed, Told, FoldIsGenuine, AcceptedCheckpointIsTrue

\* The log of a head that stood in its era is the beginning of the era's log.
LEMMA StoodLog ==
  ASSUME FoldInv, NEW i \in 0..MaxInc, NEW l \in Seq(Records), Chain(l), l # <<>>,
         [inc |-> i, rec |-> l[Len(l)]] \in stood, NEW k \in 0..Len(l)
  PROVE  SubSeq(l, 1, k) = SubSeq(logs[i], 1, k)
  <1> DEFINE x == [inc |-> i, rec |-> l[Len(l)]]
  <1>1. logs[i] \in Seq(Records) /\ Chain(logs[i]) /\ Logged(x, logs[x.inc])
    BY DEF FoldInv, TypeOK, LineageInv
  <1>2. PICK n \in 1..Len(logs[i]) : logs[i][n] = l[Len(l)]
    BY <1>1 DEF Logged
  <1>3. Len(l) <= Len(logs[i]) /\ \A j \in 1..Len(l) : l[j] = logs[i][j]
    BY <1>1, <1>2, SameChain
  <1>4. Len(l) \in Nat
    OBVIOUS
  <1>5. QED
    BY <1>1, <1>3, <1>4, SameBeginning

\* An outcome of the first records of the log of a head.
LEMMA OutcomeTold ==
  ASSUME FoldInv, UNCHANGED lineage, NEW h \in Heads, NEW l \in Seq(Records), Chain(l),
         l # <<>>, NEW g \in Nat, g < Len(l), NEW f, NEW used, NEW a,
         answer' = Outcome(h, l, g, f, SubSeq(l, 1, g + 1), used, a)
  PROVE  FoldIsGenuine' /\ (a = None => Told')
  <1> DEFINE rs == SubSeq(l, 1, g + 1)
  <1>1. /\ answer'.call = "fold" /\ answer'.inc = h.inc /\ answer'.gen = g /\ answer'.log = l
        /\ answer'.folder = f /\ answer'.records = rs /\ answer'.state = FoldFull(f, rs)
        /\ answer'.accepted = a
    <2> HIDE DEF rs
    <2>1. answer' = Outcome(h, l, g, f, rs, used, a)
      BY DEF rs
    <2>2. QED
      BY <2>1 DEF Outcome
  <1>2. Last(l) = l[Len(l)] /\ g + 1 \in 0..Len(l) /\ h.inc \in 0..MaxInc
    BY DEF Last, Heads
  <1>3. [inc |-> h.inc, rec |-> l[Len(l)]] \in stood => rs = SubSeq(logs[h.inc], 1, g + 1)
    BY <1>2, StoodLog
  <1>4. UNCHANGED <<logs, stood>>
    BY DEF lineage
  <1> HIDE DEF rs
  <1>5. FoldIsGenuine'
    BY <1>1, <1>2, <1>3, <1>4 DEF FoldIsGenuine, rs
  <1>6. QED
    BY <1>1, <1>5 DEF Told, AcceptedCheckpointIsTrue

LEMMA FoldRecordsTold ==
  ASSUME FoldInv, UNCHANGED lineage, NEW h \in Heads, NEW l \in Seq(Records), Chain(l),
         l # <<>>, NEW g \in Nat, g < Len(l), NEW used,
         FoldRecords(h, l, g, SubSeq(l, 1, g + 1), used)
  PROVE  Told' /\ Idle
  <1> DEFINE rs == SubSeq(l, 1, g + 1)
  <1>1. PICK f \in Folders :
          \/ answer' = Outcome(h, l, g, f, rs, used, None) /\ Idle
          \/ Malformed(g, f)
    <2>1. FoldRecords(h, l, g, rs, used)
      OBVIOUS
    <2> HIDE DEF rs
    <2>2. QED
      BY <2>1 DEF FoldRecords
  <1>2. QED
    BY <1>1, OutcomeTold, ErrorTold

\* The whole of a sequence.
LEMMA Whole ==
  ASSUME NEW S, NEW s \in Seq(S), s # <<>>
  PROVE  SubSeq(s, 1, (Len(s) - 1) + 1) = s /\ Len(s) - 1 \in Nat /\ Len(s) - 1 < Len(s)
  OBVIOUS

\* What a whole history leads to.
LEMMA HistoryStep ==
  ASSUME FoldInv, pc = "history", UNCHANGED lineage, loaded.gen = Len(said) - 1,
         HistoryLoaded(said)
  PROVE  FoldInv' /\ Told'
  <1>0. /\ loaded \in Heads /\ loaded.gen \in Nat /\ want \in 0..loaded.gen /\ want \in Nat
        /\ op \in {"fold", "rebuild"} => want = loaded.gen
        /\ said \in Seq(Records) /\ Chain(said) /\ said # <<>> /\ loaded.rec = said[Len(said)]
        /\ want < Len(said)
    <2>1. loaded \in Heads /\ want \in 0..loaded.gen /\ said \in Seq(Records) /\ loaded.gen \in Nat
      BY Bounds DEF FoldInv, TypeOK, Heads
    <2>2. QED
      BY <2>1 DEF FoldInv, TypeOK, CallInv
  <1>1. CASE /\ op = "rebuild"
             /\ held' = FromAuthoritative(loaded, said)
             /\ answer' = None
             /\ Idle
    <2>1. [i \in DOMAIN said |-> [digest |-> said[i], bytes |-> said[i]]] \in Seq(Copies)
      <3>1. \A i \in 1..Len(said) : [digest |-> said[i], bytes |-> said[i]] \in Copies
        BY <1>0 DEF Copies
      <3>2. DOMAIN said = 1..Len(said) /\ Len(said) \in Nat
        BY <1>0
      <3>3. QED
        BY <3>1, <3>2
    <2>2. held' \in Projections
      BY <1>0, <1>1, <2>1 DEF FromAuthoritative, Projection, Projections, Heads
    <2>3. QED
      BY <1>1, <2>2, EndOfCall, NothingTold
  <1>2. CASE /\ op = "fold" /\ Holds("checkpoint")
             /\ pc' = "checkpoint"
             /\ recs' = said
             /\ answer' = None
             /\ UNCHANGED <<op, loaded, want, next, said, held>>
    <2>1. TypeOK'
      BY <1>0, <1>2 DEF FoldInv, TypeOK, lineage
    <2>2. CallInv'
      BY <1>0, <1>2 DEF CallInv, Holds, Chain
    <2>3. QED
      BY <1>2, <2>1, <2>2, SameLineage, NothingTold DEF FoldInv
  <1>3. ASSUME NEW f, Malformed(want, f), UNCHANGED held PROVE FoldInv' /\ Told'
    BY <1>3, EndOfCall, ErrorTold
  <1>4. CASE FoldRecords(loaded, said, want, SubSeq(said, 1, want + 1), FALSE) /\ UNCHANGED held
    BY <1>0, <1>4, FoldRecordsTold, EndOfCall
  <1>5. QED
    BY <1>1, <1>2, <1>3, <1>4 DEF HistoryLoaded

\* One round of the walk.
LEMMA LoadRecordStep ==
  ASSUME FoldInv, LoadRecord
  PROVE  FoldInv' /\ Told'
  <1> DEFINE rs == <<next>> \o recs
  <1>1. pc = "history" /\ UNCHANGED lineage
    BY DEF LoadRecord
  <1>2. ASSUME NEW why, Error(why, want), UNCHANGED held PROVE FoldInv' /\ Told'
    BY <1>1, <1>2, EndOfCall, ErrorTold
  <1>3. ASSUME next \in DOMAIN objects, objects[next] = next,
               next.seq = loaded.gen - Len(recs), next.prior = None, HistoryLoaded(rs)
        PROVE  FoldInv' /\ Told'
    <2>1. rs = said /\ loaded.gen = Len(said) - 1
      BY <1>1, <1>3, Round
    <2> HIDE DEF rs
    <2>2. QED
      BY <1>1, <1>3, <2>1, HistoryStep
  <1>4. ASSUME next \in DOMAIN objects, objects[next] = next,
               next.seq = loaded.gen - Len(recs), next.prior # None,
               next' = next.prior, recs' = rs, answer' = None,
               UNCHANGED <<pc, op, loaded, want, folder, said, held>>
        PROVE  FoldInv' /\ Told'
    <2>1. /\ rs \in Seq(Records) /\ loaded.gen = Len(said) - 1
          /\ Len(rs) < Len(said)
          /\ next.prior = said[Len(said) - Len(rs)]
          /\ \A j \in 1..Len(rs) : rs[j] = said[Len(said) - Len(rs) + j]
      BY <1>1, <1>4, Round
    <2> HIDE DEF rs
    <2>2. Walking'
      BY <1>4, <2>1 DEF Walking
    <2>3. TypeOK'
      BY <1>1, <1>4, <2>1 DEF FoldInv, TypeOK, lineage
    <2>4. CallInv'
      BY <1>1, <1>4, <2>2 DEF FoldInv, CallInv, Chain
    <2>5. QED
      BY <1>1, <1>4, <2>3, <2>4, SameLineage, NothingTold DEF FoldInv
  <1>5. QED
    BY <1>1, <1>2, <1>3, <1>4 DEF LoadRecord, RecordFromBytes

\* The terminal record is the last of the log.
LEMMA TerminalStep ==
  ASSUME FoldInv, LoadTerminalRecord
  PROVE  FoldInv' /\ Told'
  <1>1. pc = "terminal" /\ UNCHANGED <<lineage, held>>
    BY DEF LoadTerminalRecord
  <1>2. ASSUME NEW why, Error(why, want) PROVE FoldInv' /\ Told'
    BY <1>1, <1>2, EndOfCall, ErrorTold
  <1>3. ASSUME objects[next] = next, answer' = TerminalRead(loaded, said, objects[next]), Idle
        PROVE  FoldInv' /\ Told'
    <2>1. next = Last(said)
      BY <1>1 DEF FoldInv, CallInv, Last
    <2>2. /\ answer'.call = "terminal" /\ answer'.records = <<Last(said)>>
          /\ answer'.log = said /\ answer'.accepted = None
      BY <1>3, <2>1 DEF TerminalRead
    <2>3. Told'
      BY <2>2 DEF Told, FoldIsGenuine, AcceptedCheckpointIsTrue
    <2>4. QED
      BY <1>1, <1>3, <2>3, EndOfCall
  <1>4. QED
    BY <1>2, <1>3 DEF LoadTerminalRecord, RecordFromBytes

LEMMA ReadCheckpointStep ==
  ASSUME FoldInv, ReadCheckpoint
  PROVE  FoldInv' /\ Told'
  <1> DEFINE a == IF CheckCheckpoint(held, folder, recs) THEN held ELSE None
  <1>0. /\ pc = "checkpoint" /\ UNCHANGED <<lineage, held>> /\ Idle
        /\ answer' = Outcome(loaded, said, want, folder, recs, FALSE, a)
    BY DEF ReadCheckpoint
  <1>1. FoldInv'
    BY <1>0, EndOfCall
  <1>2. /\ loaded \in Heads /\ said \in Seq(Records) /\ Chain(said) /\ said # <<>>
        /\ want = Len(said) - 1 /\ recs = said /\ held \in Checkpoints
    BY <1>0 DEF FoldInv, TypeOK, CallInv, Holds, Projections
  <1>3. want \in Nat /\ want < Len(said) /\ SubSeq(said, 1, want + 1) = said
    BY <1>2, Whole
  <1> HIDE DEF a
  <1>4. answer' = Outcome(loaded, said, want, folder, SubSeq(said, 1, want + 1), FALSE, a)
    BY <1>0, <1>2, <1>3
  <1>5. FoldIsGenuine'
    BY <1>0, <1>2, <1>3, <1>4, OutcomeTold
  <1>6. answer'.accepted = a /\ answer'.log = said /\ answer'.folder = folder
    BY <1>4 DEF Outcome
  <1>7. CheckCheckpoint(held, folder, recs) =>
          /\ held.gen < Len(said)
          /\ held.source = said[held.gen + 1]
          /\ FoldFrom(folder, held.state, SubSeq(said, held.gen + 2, Len(said))) =
               FoldFull(folder, said)
    <2>1. held.gen \in Nat /\ DOMAIN said = 1..Len(said) /\ Len(said) \in Nat
      BY <1>2 DEF Checkpoints
    <2>2. QED
      BY <1>2, <2>1 DEF CheckCheckpoint, CheckpointBasis
  <1>8. AcceptedCheckpointIsTrue'
    <2>1. CASE a = None
      BY <1>6, <2>1 DEF AcceptedCheckpointIsTrue
    <2>2. CASE a = held /\ CheckCheckpoint(held, folder, recs)
      BY <1>6, <1>7, <2>2 DEF AcceptedCheckpointIsTrue
    <2>3. QED
      BY <2>1, <2>2 DEF a
  <1>9. QED
    BY <1>1, <1>5, <1>8 DEF Told

-----------------------------------------------------------------------------
(* The calls that begin.                                                   *)

LEMMA BeginStep ==
  ASSUME FoldInv, \/ Fold \/ RebuildProjection \/ ReadTerminalRecord
                  \/ \E g \in 0..MaxGen : FoldAtGeneration(g)
  PROVE  FoldInv' /\ Told'
  <1>1. UNCHANGED <<lineage, held>>
    BY DEF Fold, RebuildProjection, ReadTerminalRecord, FoldAtGeneration
  <1>2. ASSUME NEW g, Error("incomplete", g) PROVE FoldInv' /\ Told'
    BY <1>1, <1>2, EndOfCall, ErrorTold
  <1>3. head # None => head.gen \in 0..MaxGen /\ head.gen <= head.gen
    <2>1. head # None => head.gen \in 0..MaxGen
      BY DEF FoldInv, TypeOK, Heads
    <2>2. QED
      BY <2>1, Bounds
  <1>4. CASE Fold
    BY <1>1, <1>2, <1>3, <1>4, LoadHeadStep, NothingTold DEF Fold, NoHead, LoadHead
  <1>5. CASE RebuildProjection
    BY <1>1, <1>2, <1>3, <1>5, LoadHeadStep, NothingTold DEF RebuildProjection, NoHead, LoadHead
  <1>6. CASE ReadTerminalRecord
    BY <1>1, <1>2, <1>3, <1>6, LoadHeadStep, NothingTold DEF ReadTerminalRecord, NoHead, LoadHead
  <1>7. ASSUME NEW g \in 0..MaxGen, FoldAtGeneration(g) PROVE FoldInv' /\ Told'
    BY <1>1, <1>2, <1>7, LoadHeadStep, NothingTold DEF FoldAtGeneration, NoHead, LoadHead
  <1>8. QED
    BY <1>4, <1>5, <1>6, <1>7

LEMMA ProjectedStep ==
  ASSUME FoldInv, FoldWithProjection
  PROVE  FoldInv' /\ Told'
  <1>1. UNCHANGED <<lineage, held>> /\ held \in Projections
    BY DEF FoldInv, TypeOK, FoldWithProjection, Holds, Checkpoints
  <1>2. CASE NoHead(0)
    BY <1>1, <1>2, EndOfCall, ErrorTold DEF NoHead
  <1>3. head # None =>
          /\ head \in Heads /\ head.gen \in 0..MaxGen /\ head.gen \in Nat
          /\ head.gen <= head.gen
          /\ log \in Seq(Records) /\ Chain(log) /\ log # <<>>
    BY Bounds DEF FoldInv, TypeOK, LineageInv, Heads
  <1>4. CASE head # None /\ ProjectedHistory(held, head)
             /\ FoldRecords(head, log, head.gen,
                  [i \in DOMAIN held.records |-> held.records[i].bytes], TRUE)
    <2> DEFINE rs == [i \in DOMAIN held.records |-> held.records[i].bytes]
    <2>1. rs = log /\ head.gen = Len(log) - 1
      BY <1>1, <1>4, ProjectionSays
    <2>2. FoldRecords(head, log, head.gen, rs, TRUE)
      BY <1>4
    <2> HIDE DEF rs
    <2>3. SubSeq(log, 1, head.gen + 1) = rs /\ head.gen < Len(log)
      BY <1>3, <1>4, <2>1, Whole
    <2>4. Told' /\ Idle
      BY <1>1, <1>3, <1>4, <2>2, <2>3, FoldRecordsTold
    <2>5. QED
      BY <1>1, <2>4, EndOfCall
  <1>5. CASE head # None /\ LoadHead("projected", head.gen)
    BY <1>1, <1>3, <1>5, LoadHeadStep, NothingTold DEF LoadHead
  <1>6. QED
    BY <1>2, <1>4, <1>5 DEF FoldWithProjection

-----------------------------------------------------------------------------
(* The lineage moves.                                                      *)

\* The reader's part of the invariant does not depend on the lineage.
LEMMA ReaderSame ==
  ASSUME FoldInv, UNCHANGED <<held, locals>>, head' \in Heads \cup {None}, era' \in 0..MaxInc,
         DOMAIN objects' \subseteq Records, ready' \in [0..MaxInc -> SUBSET Records],
         log' \in Seq(Records), logs' \in [0..MaxInc -> Seq(Records)],
         stood' \subseteq [inc : 0..MaxInc, rec : Records], LineageInv'
  PROVE  FoldInv'
  <1>1. TypeOK'
    BY DEF FoldInv, TypeOK, locals
  <1>2. CallInv'
    <2>1. CASE pc = "history"
      BY <2>1 DEF FoldInv, CallInv, Walking, locals, Chain
    <2>2. CASE pc # "history"
      BY <2>2 DEF FoldInv, CallInv, Holds, locals, Chain
    <2>3. QED
      BY <2>1, <2>2
  <1>3. QED
    BY <1>1, <1>2 DEF FoldInv

LEMMA PublishRecordStep ==
  ASSUME FoldInv, NEW r \in Records, PublishRecord(r)
  PROVE  FoldInv'
  <1>1. DOMAIN objects' \subseteq Records
    BY DEF FoldInv, TypeOK, PublishRecord
  <1>2. ready' \in [0..MaxInc -> SUBSET Records]
    BY DEF FoldInv, TypeOK, PublishRecord
  <1>3. LineageInv'
    BY DEF FoldInv, LineageInv, PublishRecord, Logged
  <1>4. QED
    BY <1>1, <1>2, <1>3, ReaderSame DEF FoldInv, TypeOK, PublishRecord

\* A head that ends a chain stands: the first one of its era, or one that goes on
\* from the log of its era.
LEMMA StandStep ==
  ASSUME FoldInv, NEW i \in 0..era, NEW l \in Seq(Records), Chain(l), l # <<>>, Stand(i, l),
         head = None \/ head.inc = i,
         i = era => /\ Len(logs[era]) <= Len(l)
                    /\ \A j \in 1..Len(logs[era]) : l[j] = logs[era][j]
  PROVE  FoldInv'
  <1> DEFINE n == Len(l)
  <1>1. /\ n \in Nat \ {0} /\ n \in 1..n /\ Last(l) = l[n] /\ l[n] \in Records
    BY DEF Last
  <1>2. /\ era \in 0..MaxInc /\ i \in 0..MaxInc /\ era \in Nat /\ i \in Nat /\ i <= era
        /\ logs \in [0..MaxInc -> Seq(Records)]
        /\ stood \subseteq [inc : 0..MaxInc, rec : Records]
    BY Bounds DEF FoldInv, TypeOK
  <1>3. /\ l[n].seq \in 0..MaxGen /\ l[n].prior \in Records \cup {None}
    <2>1. l[n].prior = IF n = 1 THEN None ELSE l[n - 1]
      BY <1>1 DEF Chain
    <2>2. n # 1 => n - 1 \in 1..n
      <3>1. n \in Nat \ {0}
        BY <1>1
      <3> HIDE DEF n
      <3>2. QED
        BY <3>1
    <2>3. \A j \in 1..Len(l) : l[j] \in Records
      OBVIOUS
    <2>4. QED
      BY <1>1, <2>1, <2>2, <2>3, FoldsAssumption
  <1> HIDE DEF n
  <1>4. /\ head' = [gen |-> l[n].seq, inc |-> i, rec |-> l[n], prior |-> l[n].prior]
        /\ log' = l
        /\ UNCHANGED <<era, objects, ready, held, locals>>
    BY <1>1 DEF Stand
  <1>5. \/ /\ i = era
           /\ logs' = [logs EXCEPT ![i] = l]
           /\ stood' = stood \cup {[inc |-> i, rec |-> l[n]]}
        \/ i # era /\ UNCHANGED <<logs, stood>>
    BY <1>1 DEF Stand
  <1>6. head' \in Heads /\ head' # None
    BY <1>1, <1>2, <1>3, <1>4, Bounds DEF Heads
  <1>7. /\ logs' \in [0..MaxInc -> Seq(Records)]
        /\ \A j \in 0..MaxInc : j # i \/ i # era => logs'[j] = logs[j]
        /\ i = era => logs'[i] = l
    BY <1>2, <1>5
  <1>8. stood' \subseteq [inc : 0..MaxInc, rec : Records]
    BY <1>1, <1>2, <1>5
  <1>9. LineageInv'
    <2>1. Chain(log') /\ \A j \in 0..MaxInc : Chain(logs'[j])
      <3>1. Chain(log')
        BY <1>4 DEF Chain
      <3>2. ASSUME NEW j \in 0..MaxInc PROVE Chain(logs'[j])
        <4>1. logs'[j] = l \/ logs'[j] = logs[j]
          BY <1>7
        <4>2. QED
          BY <4>1 DEF FoldInv, LineageInv
      <3>3. QED
        BY <3>1, <3>2
    <2>2. /\ log' # <<>> /\ head'.rec = log'[Len(log')] /\ head'.inc <= era'
          /\ head'.inc = era' => logs'[era'] = log'
      BY <1>2, <1>4, <1>7 DEF n
    <2>3. head'.inc # era' => logs'[era'] = <<>>
      <3>1. i # era => head = None \/ head.inc # era
        OBVIOUS
      <3>2. QED
        BY <1>2, <1>4, <1>7, <3>1 DEF FoldInv, LineageInv
    <2>4. \A j \in 0..MaxInc : j > era' => logs'[j] = <<>>
      BY <1>2, <1>4, <1>7 DEF FoldInv, LineageInv
    <2>5. ASSUME NEW x \in stood' PROVE Logged(x, logs'[x.inc])
      <3>1. CASE x \in stood
        <4>1. x.inc \in 0..MaxInc /\ Logged(x, logs[x.inc])
          BY <1>2, <3>1 DEF FoldInv, LineageInv
        <4>2. CASE x.inc = i /\ i = era
          <5>1. PICK k \in 1..Len(logs[era]) : logs[era][k] = x.rec
            BY <4>1, <4>2 DEF Logged
          <5>2. k \in 1..Len(l) /\ l[k] = x.rec
            <6>1. Len(logs[era]) \in Nat /\ Len(l) \in Nat
              BY <1>2
            <6>2. QED
              BY <4>2, <5>1, <6>1
          <5>3. QED
            BY <1>7, <4>2, <5>2 DEF Logged
        <4>3. CASE x.inc # i \/ i # era
          BY <1>7, <4>1, <4>3
        <4>4. QED
          BY <4>2, <4>3
      <3>2. CASE i = era /\ x = [inc |-> i, rec |-> l[n]]
        BY <1>1, <1>7, <3>2 DEF Logged, n
      <3>3. QED
        BY <1>5, <3>1, <3>2
    <2>6. QED
      BY <1>6, <2>1, <2>2, <2>3, <2>4, <2>5 DEF LineageInv
  <1>10. QED
    BY <1>4, <1>6, <1>7, <1>8, <1>9, ReaderSame DEF FoldInv, TypeOK

\* A batch is a sequence of records.
LEMMA BatchType ==
  ASSUME NEW rs \in Batches
  PROVE  rs \in Seq(Records) /\ rs # <<>>
  <1>1. PICK n \in 1..(MaxGen + 1) : rs \in [1..n -> Records]
    BY DEF Batches
  <1>2. n \in Nat /\ n # 0
    BY Bounds
  <1>3. rs \in Seq(Records) /\ Len(rs) = n
    BY <1>1, <1>2
  <1>4. QED
    BY <1>2, <1>3

LEMMA CreateHeadStep ==
  ASSUME FoldInv, NEW rs \in Batches, NEW i \in 0..MaxInc, CreateHead(i, rs)
  PROVE  FoldInv'
  <1>1. rs \in Seq(Records) /\ rs # <<>>
    BY BatchType
  <1>2. head = None /\ i \in 0..era /\ ValidBatch(rs, 0, None) /\ Stand(i, rs)
    BY Bounds DEF CreateHead, FoldInv, TypeOK
  <1>3. Chain(rs)
    <2>1. <<>> \in Seq(Records) /\ Len(<<>>) = 0 /\ <<>> \o rs = rs
      BY <1>1
    <2>2. Chain(<<>>)
      BY <2>1 DEF Chain
    <2>3. ValidBatch(rs, Len(<<>>), IF <<>> = <<>> THEN None ELSE <<>>[Len(<<>>)])
      BY <1>2, <2>1
    <2>4. Chain(<<>> \o rs)
      BY <1>1, <2>1, <2>2, <2>3, ChainGrows
    <2>5. QED
      BY <2>1, <2>4
  <1>4. logs[era] = <<>> /\ Len(logs[era]) = 0 /\ Len(rs) \in Nat
    BY <1>1, <1>2 DEF FoldInv, LineageInv
  <1>5. QED
    BY <1>1, <1>2, <1>3, <1>4, StandStep

\* The log of an undamaged head goes on by a batch on it.
LEMMA ReplaceHeadStep ==
  ASSUME FoldInv, NEW rs \in Batches, ReplaceHead(rs)
  PROVE  FoldInv' /\ log \o rs \in Seq(Records) /\ Chain(log \o rs)
  <1>1. rs \in Seq(Records) /\ rs # <<>>
    BY BatchType
  <1>2. /\ head # None /\ head.gen = head.rec.seq /\ ValidBatch(rs, head.gen + 1, head.rec)
        /\ Stand(head.inc, log \o rs)
    BY DEF ReplaceHead
  <1>3. /\ log \in Seq(Records) /\ Chain(log) /\ log # <<>> /\ head.rec = log[Len(log)]
        /\ head.inc \in 0..era /\ (head.inc = era => logs[era] = log)
    BY <1>2, Bounds DEF FoldInv, TypeOK, LineageInv, Heads
  <1>4. head.gen + 1 = Len(log)
    <2>1. Len(log) \in Nat /\ Len(log) \in 1..Len(log)
      BY <1>3
    <2>2. log[Len(log)].seq = Len(log) - 1
      BY <1>3, <2>1 DEF Chain
    <2>3. QED
      BY <1>2, <1>3, <2>1, <2>2
  <1>5. /\ log \o rs \in Seq(Records) /\ Chain(log \o rs) /\ log \o rs # <<>>
        /\ Len(log) <= Len(log \o rs)
        /\ \A j \in 1..Len(log) : (log \o rs)[j] = log[j]
    BY <1>1, <1>2, <1>3, <1>4, ChainGrows
  <1>6. QED
    BY <1>2, <1>3, <1>5, StandStep

LEMMA BumpStep ==
  ASSUME FoldInv, BumpIncarnation
  PROVE  FoldInv'
  <1>1. /\ era' = era + 1 /\ era < MaxInc
        /\ UNCHANGED <<head, objects, ready, log, logs, stood, held, locals>>
    BY DEF BumpIncarnation
  <1>2. era \in Nat /\ era' \in 0..MaxInc
    BY <1>1, Bounds DEF FoldInv, TypeOK
  <1>3. head # None => head.inc <= era /\ head.inc \in Nat
    BY Bounds DEF FoldInv, TypeOK, LineageInv, Heads
  <1>4. logs[era + 1] = <<>> /\ \A i \in 0..MaxInc : i > era + 1 => logs[i] = <<>>
    BY <1>1, <1>2 DEF FoldInv, LineageInv
  <1>5. LineageInv'
    <2>1. /\ Chain(log') /\ \A i \in 0..MaxInc : Chain(logs'[i])
          /\ \A x \in stood' : Logged(x, logs'[x.inc])
          /\ head' # None => log' # <<>> /\ head'.rec = log'[Len(log')]
      BY <1>1 DEF FoldInv, LineageInv, Logged, Chain
    <2>2. head' # None => head'.inc <= era' /\ head'.inc # era'
      BY <1>1, <1>2, <1>3
    <2>3. QED
      BY <1>1, <1>4, <2>1, <2>2 DEF LineageInv
  <1>6. QED
    BY <1>1, <1>2, <1>5, ReaderSame DEF FoldInv, TypeOK

\* Only a head of a closed era is deleted, so the open log stays what it is.
LEMMA DeleteStep ==
  ASSUME FoldInv, DeleteHead
  PROVE  FoldInv'
  <1>1. /\ head # None /\ head.inc < era /\ head' = None /\ log' = <<>>
        /\ UNCHANGED <<era, objects, ready, logs, stood, held, locals>>
    BY DEF DeleteHead
  <1>2. logs[era] = <<>>
    <2>1. head.inc \in Nat /\ era \in Nat
      BY <1>1, Bounds DEF FoldInv, TypeOK, Heads
    <2>2. QED
      BY <1>1, <2>1 DEF FoldInv, LineageInv
  <1>3. LineageInv'
    <2>1. Chain(log')
      BY <1>1 DEF Chain
    <2>2. QED
      BY <1>1, <1>2, <2>1 DEF FoldInv, LineageInv, Logged, Chain
  <1>4. QED
    BY <1>1, <1>3, ReaderSame DEF FoldInv, TypeOK

\* Damage to an object or to what the head repeats of its record.
LEMMA HarmStep ==
  ASSUME FoldInv, Harm
  PROVE  FoldInv'
  <1>1. UNCHANGED <<era, ready, log, logs, stood, held, locals>>
    BY DEF Harm
  <1>2. DOMAIN objects' \subseteq DOMAIN objects
    <2>1. CASE UNCHANGED objects
      BY <2>1
    <2>2. ASSUME NEW r \in DOMAIN objects, objects' = [x \in DOMAIN objects \ {r} |-> objects[x]]
          PROVE  DOMAIN objects' \subseteq DOMAIN objects
      BY <2>2
    <2>3. ASSUME NEW r \in DOMAIN objects, NEW b, objects' = [objects EXCEPT ![r] = b]
          PROVE  DOMAIN objects' \subseteq DOMAIN objects
      BY <2>3
    <2>4. QED
      BY <2>1, <2>2, <2>3 DEF Harm
  <1>3. \/ head' = head
        \/ /\ head \in Heads /\ head' \in Heads /\ head # None /\ head' # None
           /\ head'.rec = head.rec /\ head'.inc = head.inc
    <2>1. ASSUME head # None, NEW g \in 0..MaxGen, NEW p \in DOMAIN objects \cup {None},
                 head' = [head EXCEPT !.gen = g, !.prior = p]
          PROVE  /\ head \in Heads /\ head' \in Heads /\ head # None /\ head' # None
                 /\ head'.rec = head.rec /\ head'.inc = head.inc
      <3>1. head \in Heads /\ p \in Records \cup {None}
        BY <2>1 DEF FoldInv, TypeOK
      <3>2. head' \in Heads /\ head'.rec = head.rec /\ head'.inc = head.inc
        BY <2>1, <3>1 DEF Heads
      <3>3. QED
        BY <2>1, <3>1, <3>2, Bounds
    <2>2. QED
      BY <2>1 DEF Harm
  <1>4. LineageInv'
    BY <1>1, <1>3 DEF FoldInv, LineageInv, Logged, Chain
  <1>5. QED
    BY <1>1, <1>2, <1>3, <1>4, ReaderSame DEF FoldInv, TypeOK

-----------------------------------------------------------------------------
(* What every fold and every accepted checkpoint is.                       *)

LEMMA InitFold == Init => FoldInv /\ Told
  <1> SUFFICES ASSUME Init PROVE FoldInv /\ Told
    OBVIOUS
  <1>1. TypeOK
    BY Bounds DEF Init, TypeOK
  <1>2. (\A i \in 0..MaxInc : logs[i] = <<>>) /\ era \in 0..MaxInc /\ log = <<>>
    BY <1>1 DEF Init, TypeOK
  <1>3. Chain(<<>>)
    BY DEF Chain
  <1>4. LineageInv
    BY <1>2, <1>3 DEF Init, LineageInv
  <1>5. CallInv
    BY <1>3 DEF Init, CallInv
  <1>6. QED
    BY <1>1, <1>4, <1>5 DEF Init, FoldInv, Told, FoldIsGenuine, AcceptedCheckpointIsTrue

LEMMA NextFold == FoldInv /\ Told /\ [Next]_vars => FoldInv' /\ Told'
  <1> SUFFICES ASSUME FoldInv, Told, [Next]_vars PROVE FoldInv' /\ Told'
    OBVIOUS
  <1>1. CASE UNCHANGED vars
    <2>1. UNCHANGED <<lineage, held, locals, answer>>
      BY <1>1 DEF vars
    <2>2. FoldInv'
      <3>1. LineageInv'
        BY <2>1, SameLineage DEF FoldInv
      <3>2. QED
        BY <2>1, <3>1, ReaderSame DEF FoldInv, TypeOK, lineage
    <2>3. Told'
      BY <2>1 DEF Told, FoldIsGenuine, AcceptedCheckpointIsTrue, lineage
    <2>4. QED
      BY <2>2, <2>3
  <1>2. ASSUME NEW r \in Records, PublishRecord(r) PROVE FoldInv' /\ Told'
    BY <1>2, PublishRecordStep, NothingTold DEF PublishRecord
  <1>3. ASSUME NEW rs \in Batches, NEW i \in 0..MaxInc, CreateHead(i, rs)
        PROVE  FoldInv' /\ Told'
    BY <1>3, CreateHeadStep, NothingTold DEF CreateHead, Stand
  <1>4. ASSUME NEW rs \in Batches, ReplaceHead(rs) PROVE FoldInv' /\ Told'
    BY <1>4, ReplaceHeadStep, NothingTold DEF ReplaceHead, Stand
  <1>5. CASE BumpIncarnation
    BY <1>5, BumpStep, NothingTold DEF BumpIncarnation
  <1>6. CASE DeleteHead
    BY <1>6, DeleteStep, NothingTold DEF DeleteHead
  <1>7. CASE Harm
    BY <1>7, HarmStep, NothingTold DEF Harm
  <1>8. CASE PublishCheckpoint
    BY <1>8, PublishStep, NothingTold DEF PublishCheckpoint
  <1>9. CASE FromCanonicalBytes
    BY <1>9, CopyType, HeldChanges, NothingTold DEF FromCanonicalBytes
  <1>10. CASE Drop
    BY <1>10, HeldChanges, NothingTold DEF Drop
  <1>11. CASE \/ Fold \/ RebuildProjection \/ ReadTerminalRecord
              \/ \E g \in 0..MaxGen : FoldAtGeneration(g)
    BY <1>11, BeginStep
  <1>12. CASE FoldWithProjection
    BY <1>12, ProjectedStep
  <1>13. CASE LoadRecord
    BY <1>13, LoadRecordStep
  <1>14. CASE LoadTerminalRecord
    BY <1>14, TerminalStep
  <1>15. CASE ReadCheckpoint
    BY <1>15, ReadCheckpointStep
  <1>16. CASE Fail
    BY <1>16, EndOfCall, ErrorTold DEF Fail
  <1>17. QED
    BY <1>1, <1>2, <1>3, <1>4, <1>5, <1>6, <1>7, <1>8, <1>9, <1>10, <1>11, <1>12, <1>13,
       <1>14, <1>15, <1>16 DEF Next

\* Every fold that succeeds is the fold of the log of the head it loaded, from its
\* beginning to the generation it reports, and of the era's log if that head stood
\* while its era was open, for any records, folders and lengths of the log and
\* whatever rotted, moved or landed late meanwhile: StateKernel::fold,
\* fold_at_generation, fold_with_projection, read_terminal_record.
THEOREM FoldIsGenuineTheorem == Spec => []FoldIsGenuine
  <1>1. FoldInv /\ Told => FoldIsGenuine
    BY DEF Told
  <1>2. QED
    BY InitFold, NextFold, <1>1, PTL DEF Spec

\* A checkpoint that StateKernel::check_checkpoint accepts was taken at a record of
\* the folded log, and the caller's folder gets from its state to that of the full
\* fold, whoever published it and whatever the folder forgets.
THEOREM AcceptedCheckpointTheorem == Spec => []AcceptedCheckpointIsTrue
  <1>1. FoldInv /\ Told => AcceptedCheckpointIsTrue
    BY DEF Told
  <1>2. QED
    BY InitFold, NextFold, <1>1, PTL DEF Spec

-----------------------------------------------------------------------------
(* Nothing derived stands in the way of a fold.                            *)

LEMMA InitIntact == Init => Intact
  BY DEF Init, Intact

\* A head that is put is whole, with every record under it.
LEMMA StandIntact ==
  ASSUME Intact, ~ harmed, NEW i, NEW l \in Seq(Records), l # <<>>, Stand(i, l),
         \A k \in 1..Len(l) : l[k] \in DOMAIN objects
  PROVE  Intact'
  <1>1. /\ head' = [gen |-> Last(l).seq, inc |-> i, rec |-> Last(l), prior |-> Last(l).prior]
        /\ log' = l
        /\ UNCHANGED <<objects, ready, harmed, pc, loaded, said>>
    BY DEF Stand, locals
  <1>2. head'.gen = head'.rec.seq /\ head'.prior = head'.rec.prior
    BY <1>1
  <1>3. QED
    BY <1>1, <1>2 DEF Intact

\* The records of a batch are those under it.
LEMMA BatchObjects ==
  ASSUME NEW rs \in Seq(Records), NEW T, ToSet(rs) \subseteq T, NEW k \in 1..Len(rs)
  PROVE  rs[k] \in T
  BY DEF ToSet

LEMMA NextIntact == FoldInv /\ Intact /\ [Next]_vars => Intact'
  <1> SUFFICES ASSUME FoldInv, Intact, [Next]_vars, ~ harmed' PROVE Intact'
    BY DEF Intact
  <1>1. ASSUME UNCHANGED lineage,
               \/ pc' = "idle"
               \/ pc # "idle" /\ UNCHANGED <<loaded, said>>
               \/ loaded' = head /\ said' = log /\ head # None
        PROVE  Intact'
    BY <1>1 DEF Intact, lineage
  <1>2. ASSUME NEW r \in Records, PublishRecord(r) PROVE Intact'
    <2>1. /\ objects' = [x \in DOMAIN objects \cup {r} |-> IF x = r THEN r ELSE objects[x]]
          /\ ready' = [i \in 0..MaxInc |-> IF i < era THEN ready[i] ELSE ready[i] \cup {r}]
          /\ UNCHANGED <<head, log, harmed, pc, loaded, said>>
      BY <1>2 DEF PublishRecord, locals
    <2>2. DOMAIN objects' = DOMAIN objects \cup {r}
      BY <2>1
    <2>3. ASSUME ~ harmed, NEW x \in DOMAIN objects' PROVE objects'[x] = x
      BY <2>1, <2>3 DEF Intact
    <2>4. ASSUME ~ harmed, NEW i \in 0..MaxInc PROVE ready'[i] \subseteq DOMAIN objects'
      BY <2>1, <2>2, <2>4 DEF Intact
    <2>5. QED
      BY <2>1, <2>2, <2>3, <2>4 DEF Intact
  <1>3. ASSUME NEW rs \in Batches, NEW i \in 0..MaxInc, CreateHead(i, rs) PROVE Intact'
    <2>1. rs \in Seq(Records) /\ rs # <<>>
      BY BatchType
    <2>2. ToSet(rs) \subseteq ready[i] /\ Stand(i, rs) /\ ~ harmed
      BY <1>3 DEF CreateHead, Stand
    <2>3. \A k \in 1..Len(rs) : rs[k] \in DOMAIN objects
      BY <2>1, <2>2, BatchObjects DEF Intact
    <2>4. QED
      BY <2>1, <2>2, <2>3, StandIntact
  <1>4. ASSUME NEW rs \in Batches, ReplaceHead(rs) PROVE Intact'
    <2>1. rs \in Seq(Records) /\ rs # <<>> /\ log \in Seq(Records)
      BY BatchType DEF FoldInv, TypeOK
    <2>2. ToSet(rs) \subseteq ready[MaxInc] /\ Stand(head.inc, log \o rs) /\ ~ harmed
      BY <1>4 DEF ReplaceHead, Stand
    <2>3. ready[MaxInc] \subseteq DOMAIN objects
      BY <2>2, Bounds DEF Intact
    <2>4. \A k \in 1..Len(rs) : rs[k] \in DOMAIN objects
      BY <2>1, <2>2, <2>3, BatchObjects
    <2>5. \A k \in 1..Len(log) : log[k] \in DOMAIN objects
      BY <2>2 DEF Intact
    <2>6. log \o rs \in Seq(Records) /\ log \o rs # <<>>
      BY <2>1
    <2>7. ASSUME NEW k \in 1..Len(log \o rs) PROVE (log \o rs)[k] \in DOMAIN objects
      <3>1. \/ k \in 1..Len(log) /\ (log \o rs)[k] = log[k]
            \/ k - Len(log) \in 1..Len(rs) /\ (log \o rs)[k] = rs[k - Len(log)]
        BY <2>1
      <3>2. QED
        BY <2>4, <2>5, <3>1
    <2>8. QED
      BY <2>2, <2>6, <2>7, StandIntact
  <1>5. CASE BumpIncarnation
    BY <1>5 DEF BumpIncarnation, Intact, locals
  <1>6. CASE DeleteHead
    BY <1>6 DEF DeleteHead, Intact, locals
  <1>7. CASE Harm
    BY <1>7 DEF Harm
  <1>8. CASE PublishCheckpoint \/ FromCanonicalBytes \/ Drop
    BY <1>1, <1>8 DEF PublishCheckpoint, FromCanonicalBytes, Drop, locals
  <1>9. CASE \/ Fold \/ RebuildProjection \/ FoldWithProjection \/ ReadTerminalRecord
             \/ (\E g \in 0..MaxGen : FoldAtGeneration(g))
    BY <1>1, <1>9 DEF Fold, RebuildProjection, FoldWithProjection, ReadTerminalRecord,
       FoldAtGeneration, NoHead, LoadHead, FoldRecords, Malformed, Error, Idle
  <1>10. CASE LoadRecord
    <2>1. UNCHANGED lineage /\ pc # "idle"
      BY <1>10 DEF LoadRecord
    <2>2. pc' = "idle" \/ UNCHANGED <<loaded, said>>
      BY <1>10 DEF LoadRecord, HistoryLoaded, FoldRecords, Malformed, Error, Idle
    <2>3. QED
      BY <1>1, <2>1, <2>2
  <1>11. CASE LoadTerminalRecord \/ ReadCheckpoint \/ Fail
    BY <1>1, <1>11 DEF LoadTerminalRecord, ReadCheckpoint, Fail, Error, Idle
  <1>12. CASE UNCHANGED vars
    BY <1>12 DEF vars, Intact, lineage, locals
  <1>13. QED
    BY <1>2, <1>3, <1>4, <1>5, <1>6, <1>7, <1>8, <1>9, <1>10, <1>11, <1>12 DEF Next

\* What a caller may be told by a read that fails over an intact lineage.
Excused ==
  answer' # None /\ ~ answer'.ok /\ ~ harmed =>
    \/ pc = "idle" /\ (head = None \/ answer'.gen > head.gen)
    \/ /\ answer'.why = "malformed"
       /\ ~ Accepts(answer'.folder,
                    SubSeq(IF pc = "idle" THEN log ELSE said, 1, answer'.gen + 1))
    \/ answer'.why = "unavailable"

\* A folder that refuses the records it is to fold.
LEMMA MalformedExcused ==
  ASSUME NEW f, NEW g, Malformed(g, f),
         ~ Accepts(f, SubSeq(IF pc = "idle" THEN log ELSE said, 1, g + 1))
  PROVE  Excused
  <1>1. answer'.why = "malformed" /\ answer'.folder = f /\ answer'.gen = g
    BY DEF Malformed
  <1>2. QED
    BY <1>1 DEF Excused

LEMMA FoldRecordsExcused ==
  ASSUME NEW h, NEW l, NEW g, NEW used, l = IF pc = "idle" THEN log ELSE said,
         FoldRecords(h, l, g, SubSeq(l, 1, g + 1), used)
  PROVE  Excused
  <1> DEFINE rs == SubSeq(l, 1, g + 1)
  <1>1. PICK f \in Folders :
          \/ answer' = Outcome(h, l, g, f, rs, used, None)
          \/ ~ Accepts(f, rs) /\ Malformed(g, f)
    <2>1. FoldRecords(h, l, g, rs, used)
      OBVIOUS
    <2> HIDE DEF rs
    <2>2. QED
      BY <2>1 DEF FoldRecords
  <1>2. CASE answer' = Outcome(h, l, g, f, rs, used, None)
    <2> HIDE DEF rs
    <2>1. answer'.ok
      BY <1>2 DEF Outcome
    <2>2. QED
      BY <2>1 DEF Excused
  <1>3. QED
    BY <1>1, <1>2, MalformedExcused

LEMMA HistoryExcused ==
  ASSUME FoldInv, pc = "history", loaded.gen = Len(said) - 1, HistoryLoaded(said)
  PROVE  Excused
  <1>1. CASE answer' = None
    BY <1>1 DEF Excused
  <1>2. ASSUME op = "fold", NEW f \in Folders, ~ Accepts(f, said), Malformed(want, f)
        PROVE  Excused
    <2>1. said \in Seq(Records) /\ said # <<>> /\ want = Len(said) - 1
      BY <1>2 DEF FoldInv, TypeOK, CallInv
    <2>2. SubSeq(said, 1, want + 1) = said
      BY <2>1, Whole
    <2>3. QED
      BY <1>2, <2>2, MalformedExcused
  <1>3. CASE FoldRecords(loaded, said, want, SubSeq(said, 1, want + 1), FALSE)
    BY <1>3, FoldRecordsExcused
  <1>4. QED
    BY <1>1, <1>2, <1>3 DEF HistoryLoaded

\* Over an intact lineage the walk meets no defect.
LEMMA WalkExcused ==
  ASSUME FoldInv, Intact, LoadRecord
  PROVE  Excused
  <1> SUFFICES ASSUME ~ harmed PROVE Excused
    BY DEF Excused
  <1> DEFINE rs == <<next>> \o recs
             n  == Len(said)
             c  == Len(recs)
  <1>1. /\ pc = "history" /\ Walking /\ Chain(said) /\ said # <<>>
        /\ said \in Seq(Records) /\ recs \in Seq(Records)
        /\ loaded.rec = said[n]
        /\ loaded.gen = loaded.rec.seq /\ loaded.prior = loaded.rec.prior
    BY DEF LoadRecord, Intact, FoldInv, TypeOK, CallInv
  <1>2. n \in Nat \ {0} /\ c \in Nat /\ c < n /\ next = said[n - c] /\ (recs = <<>> => c = 0)
    BY <1>1 DEF Walking
  <1>3. next \in DOMAIN objects /\ objects[next] = next
    <2>1. n - c \in 1..n
      <3>1. n \in Nat /\ c \in Nat /\ c < n
        BY <1>2
      <3> HIDE DEF n, c
      <3>2. QED
        BY <3>1
    <2>2. QED
      BY <1>1, <1>2, <2>1 DEF Intact
  <1>4. next.seq = loaded.gen - c /\ (recs = <<>> => loaded.prior = next.prior)
    <2>1. n - c \in 1..n /\ n \in 1..n /\ (n - c) - 1 = (n - 1) - c
      <3>1. n \in Nat \ {0} /\ c \in Nat /\ c < n
        BY <1>2
      <3> HIDE DEF n, c
      <3>2. QED
        BY <3>1
    <2>2. said[n - c].seq = (n - c) - 1 /\ said[n].seq = n - 1
      BY <1>1, <2>1 DEF Chain
    <2>3. recs = <<>> => next = said[n]
      BY <1>2
    <2>4. QED
      BY <1>1, <1>2, <2>1, <2>2, <2>3
  <1>5. CASE next.prior = None /\ HistoryLoaded(rs)
    <2>1. rs = said /\ loaded.gen = Len(said) - 1
      BY <1>1, <1>3, <1>4, <1>5, Round
    <2> HIDE DEF rs
    <2>2. QED
      BY <1>1, <1>5, <2>1, HistoryExcused
  <1>6. CASE answer' = None
    BY <1>6 DEF Excused
  <1>7. QED
    BY <1>3, <1>4, <1>5, <1>6 DEF LoadRecord, RecordFromBytes

\* Nor does the read of the terminal record.
LEMMA TerminalExcused ==
  ASSUME FoldInv, Intact, LoadTerminalRecord
  PROVE  Excused
  <1> SUFFICES ASSUME ~ harmed PROVE Excused
    BY DEF Excused
  <1>1. /\ pc = "terminal" /\ said \in Seq(Records) /\ said # <<>>
        /\ next = said[Len(said)]
    BY DEF LoadTerminalRecord, FoldInv, TypeOK, CallInv
  <1>2. Len(said) \in 1..Len(said)
    BY <1>1
  <1>3. next \in DOMAIN objects /\ objects[next] = next
    BY <1>1, <1>2 DEF Intact
  <1>4. answer'.ok
    BY <1>3 DEF LoadTerminalRecord, RecordFromBytes, TerminalRead
  <1>5. QED
    BY <1>4 DEF Excused

LEMMA StepExcused ==
  ASSUME FoldInv, Intact, Next
  PROVE  Excused
  <1>1. CASE answer' = None
    BY <1>1 DEF Excused
  <1>2. ASSUME NEW g, NoHead(g) PROVE Excused
    BY <1>2 DEF Excused, NoHead
  <1>3. ASSUME NEW g, pc = "idle", g > head.gen, Error("incomplete", g) PROVE Excused
    BY <1>3 DEF Excused, Error
  <1>4. CASE \/ Fold \/ RebuildProjection \/ ReadTerminalRecord
             \/ \E g \in 0..MaxGen : FoldAtGeneration(g)
    BY <1>1, <1>2, <1>3, <1>4 DEF Fold, RebuildProjection, ReadTerminalRecord,
       FoldAtGeneration, LoadHead
  <1>5. CASE FoldWithProjection
    <2>1. held \in Projections
      BY <1>5 DEF FoldInv, TypeOK, FoldWithProjection, Holds, Checkpoints
    <2>2. CASE pc = "idle" /\ head # None /\ ProjectedHistory(held, head)
               /\ FoldRecords(head, log, head.gen,
                    [i \in DOMAIN held.records |-> held.records[i].bytes], TRUE)
      <3> DEFINE rs == [i \in DOMAIN held.records |-> held.records[i].bytes]
      <3>1. rs = log /\ head.gen = Len(log) - 1
        BY <2>1, <2>2, ProjectionSays
      <3>2. FoldRecords(head, log, head.gen, rs, TRUE)
        BY <2>2
      <3> HIDE DEF rs
      <3>3. log \in Seq(Records) /\ log # <<>>
        BY <2>2 DEF FoldInv, TypeOK, LineageInv
      <3>4. SubSeq(log, 1, head.gen + 1) = rs
        BY <3>1, <3>3, Whole
      <3>5. QED
        BY <2>2, <3>2, <3>4, FoldRecordsExcused
    <2>3. QED
      BY <1>1, <1>2, <1>5, <2>2 DEF FoldWithProjection, LoadHead
  <1>6. CASE LoadRecord
    BY <1>6, WalkExcused
  <1>7. CASE LoadTerminalRecord
    BY <1>7, TerminalExcused
  <1>8. CASE ReadCheckpoint
    <2>1. answer'.ok
      BY <1>8 DEF ReadCheckpoint, Outcome
    <2>2. QED
      BY <2>1 DEF Excused
  <1>9. CASE Fail
    BY <1>9 DEF Fail, Error, Excused
  <1>10. CASE \/ \E r \in Records : PublishRecord(r)
              \/ \E rs \in Batches : ReplaceHead(rs) \/ \E i \in 0..MaxInc : CreateHead(i, rs)
              \/ BumpIncarnation \/ DeleteHead \/ Harm
              \/ PublishCheckpoint \/ FromCanonicalBytes \/ Drop
    BY <1>1, <1>10 DEF PublishRecord, CreateHead, ReplaceHead, Stand, BumpIncarnation,
       DeleteHead, Harm, PublishCheckpoint, FromCanonicalBytes, Drop
  <1>11. QED
    BY <1>4, <1>5, <1>6, <1>7, <1>8, <1>9, <1>10 DEF Next

\* Over an intact lineage only an absent head, a generation it has not reached,
\* records that the caller's folder does not accept or a failed request makes a fold
\* or a terminal read fail: neither a projection nor a checkpoint ever does, whatever
\* it holds.
THEOREM DerivedNeverBlocksTheorem == Spec => DerivedNeverBlocks
  <1> DEFINE Inv == FoldInv /\ Told /\ Intact
  <1>1. Init => Inv
    BY InitFold, InitIntact
  <1>2. Inv /\ [Next]_vars => Inv'
    BY NextFold, NextIntact
  <1>3. Inv /\ [Next]_vars =>
          [answer' # None /\ ~ answer'.ok /\ ~ harmed =>
             \/ pc = "idle" /\ (head = None \/ answer'.gen > head.gen)
             \/ /\ answer'.why = "malformed"
                /\ ~ Accepts(answer'.folder,
                             SubSeq(IF pc = "idle" THEN log ELSE said, 1, answer'.gen + 1))
             \/ answer'.why = "unavailable"]_vars
    BY StepExcused DEF Excused
  <1> HIDE DEF Inv
  <1>4. QED
    BY <1>1, <1>2, <1>3, PTL DEF Spec, DerivedNeverBlocks

==============================================================================
