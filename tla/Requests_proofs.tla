--------------------------- MODULE Requests_proofs ---------------------------
(***************************************************************************)
(* What is proved about the callers of the store that work through many    *)
(* requests: the paged walks and batched deletes of Deletions, the SDK     *)
(* core's RetryLoop, the uploads and downloads of ObjectClient and the     *)
(* chunks of ChunkPipeline.  Each part stands alone; what they share is    *)
(* the lemmas on sets of numbers and on sequences.                         *)
(***************************************************************************)
EXTENDS Deletions, RetryLoop, ObjectClient, ChunkPipeline,
        FiniteSetTheorems, SequenceTheorems, WellFoundedInduction, TLAPS

-----------------------------------------------------------------------------
(* Sets of numbers.                                                        *)

\* A set of natural numbers has a least member.
LEMMA LeastNumber ==
  ASSUME NEW T, T \subseteq Nat, T # {}
  PROVE  \E x \in T : \A y \in T : x <= y
  <1>1. PICK x \in T : \A y \in T : ~ (<<y, x>> \in OpToRel(<, Nat))
    BY NatLessThanWellFounded, WFMin
  <1>2. \A y \in Nat : y < x => <<y, x>> \in OpToRel(<, Nat)
    BY <1>1 DEF OpToRel
  <1>3. \A y \in T : ~ (y < x)
    BY <1>1, <1>2, Zenon
  <1>4. x \in Nat /\ \A y \in T : y \in Nat
    OBVIOUS
  <1> HIDE <1>1
  <1>5. QED
    BY <1>3, <1>4

\* A bounded one has a largest: the one farthest from the bound.
LEMMA LargestNumber ==
  ASSUME NEW m \in Nat, NEW T, T \subseteq 0..m, T # {}
  PROVE  \E x \in T : \A y \in T : y <= x
  <1> DEFINE U == {m - y : y \in T}
  <1>1. U \subseteq Nat /\ U # {}
    <2>1. \A y \in T : m - y \in Nat
      OBVIOUS
    <2>2. QED
      BY <2>1
  <1>2. PICK u \in U : \A w \in U : u <= w
    <2> HIDE DEF U
    <2>1. QED
      BY <1>1, LeastNumber
  <1>3. PICK x \in T : u = m - x
    OBVIOUS
  <1>4. \A y \in T : m - x <= m - y
    BY <1>2, <1>3
  <1>5. x \in Int /\ \A y \in T : y \in Int
    <2> HIDE DEF U
    <2>1. QED
      BY <1>3
  <1>6. QED
    BY <1>4, <1>5

-----------------------------------------------------------------------------
(* Deletions: keys and their ranks.                                        *)

KeyRecords == [class : Classes, seq : Nat]

\* Every key has one place in byte order.
LEMMA RankOfKey ==
  /\ Len(Order) \in Nat
  /\ Keys \subseteq KeyRecords
  /\ \A k \in Keys : Rank[k] \in 1..Len(Order) /\ Order[Rank[k]] = k
  /\ \A r \in 1..Len(Order) : Order[r] \in Keys /\ Rank[Order[r]] = r
  <1>0. Order \in Seq(KeyRecords) /\ IsInjective(Order)
    BY DeletionAssumption DEF KeyRecords
  <1>1. /\ Len(Order) \in Nat /\ DOMAIN Order = 1..Len(Order)
        /\ \A i \in 1..Len(Order) : Order[i] \in KeyRecords
    BY <1>0
  <1>2. \A k \in Keys : \E i \in 1..Len(Order) : Order[i] = k
    BY <1>1 DEF Keys, ToSet
  <1>3. Keys \subseteq KeyRecords
    BY <1>1, <1>2
  <1>4. \A k \in Keys : Rank[k] \in 1..Len(Order) /\ Order[Rank[k]] = k
    BY <1>2 DEF Rank
  <1>5. \A r \in 1..Len(Order) : Order[r] \in Keys
    BY <1>1 DEF Keys, ToSet
  <1>6. \A r \in 1..Len(Order) : Rank[Order[r]] = r
    BY <1>0, <1>1, <1>4, <1>5 DEF IsInjective
  <1>7. QED
    BY <1>1, <1>3, <1>4, <1>5, <1>6

LEMMA KeysAreFinite == IsFiniteSet(Keys)
  <1>1. Order \in Surjection(1..Len(Order), Keys)
    <2>1. Order \in [1..Len(Order) -> Keys]
      <3>1. Order \in Seq(KeyRecords)
        BY DeletionAssumption DEF KeyRecords
      <3>2. QED
        BY <3>1, RankOfKey
    <2>2. QED
      BY <2>1, RankOfKey DEF Surjection
  <1>2. IsFiniteSet(1..Len(Order))
    BY RankOfKey, FS_Interval
  <1>3. QED
    BY <1>1, <1>2, FS_Surjection

\* Two keys of one rank are one key.
LEMMA RankIsUnique ==
  \A j, k \in Keys : Rank[j] = Rank[k] => j = k
  BY RankOfKey

\* Among certificates the largest number is the largest rank.
LEMMA HighestCertificate ==
  ASSUME NEW P, P \subseteq Certificates, P # {}
  PROVE  \E c \in P : \A d \in P : d.seq <= c.seq
  <1>1. P \subseteq Keys /\ \A c \in P : c.seq \in Nat
    BY RankOfKey DEF Certificates, KeyRecords
  <1>2. {Rank[c] : c \in P} \subseteq 0..Len(Order) /\ {Rank[c] : c \in P} # {}
    BY <1>1, RankOfKey
  <1>3. \E x \in {Rank[c] : c \in P} : \A y \in {Rank[c] : c \in P} : y <= x
    BY <1>2, LargestNumber, RankOfKey
  <1>4. PICK c \in P : \A d \in P : Rank[d] <= Rank[c]
    BY <1>3
  <1>5. \A d \in P : ~ (Rank[c] < Rank[d])
    BY <1>1, <1>4, RankOfKey
  <1>6. \A d \in P : ~ (c.seq < d.seq)
    BY <1>5, ByteOrderAssumption
  <1>7. QED
    BY <1>1, <1>6

\* The largest of a number and some certificates, as the walk computes it.
LEMMA LargestMet ==
  ASSUME NEW P, P \subseteq Certificates, NEW b \in Nat
  PROVE  LET seqs == {b} \cup {k.seq : k \in P}
             most == CHOOSE s \in seqs : \A t \in seqs : t <= s
         IN most \in seqs /\ most \in Nat /\ \A t \in seqs : t <= most
  <1> DEFINE seqs == {b} \cup {k.seq : k \in P}
             most == CHOOSE s \in seqs : \A t \in seqs : t <= s
  <1>1. \A c \in P : c.seq \in Nat
    BY RankOfKey DEF Certificates, KeyRecords
  <1>2. \E s \in seqs : \A t \in seqs : t <= s
    <2>1. CASE P = {}
      BY <2>1
    <2>2. CASE P # {}
      <3>1. PICK c \in P : \A d \in P : d.seq <= c.seq
        BY <2>2, HighestCertificate
      <3>2. CASE b <= c.seq
        <4>1. c.seq \in seqs /\ \A t \in seqs : t <= c.seq
          BY <3>1, <3>2
        <4>2. QED
          BY <4>1
      <3>3. CASE ~ (b <= c.seq)
        <4>1. b \in seqs /\ \A t \in seqs : t <= b
          BY <1>1, <3>1, <3>3
        <4>2. QED
          BY <4>1
      <3>4. QED
        BY <3>2, <3>3
    <2>3. QED
      BY <2>1, <2>2
  <1>3. seqs \subseteq Nat
    BY <1>1
  <1> HIDE DEF seqs
  <1>4. most \in seqs /\ \A t \in seqs : t <= most
    BY <1>2
  <1> HIDE DEF most
  <1>5. most \in seqs /\ most \in Nat /\ \A t \in seqs : t <= most
    BY <1>3, <1>4
  <1>6. QED
    BY <1>5 DEF seqs, most

\* Floor as a function of the keys that are there.
FloorOf(P) ==
  LET seqs == {k.seq : k \in P \cap Certificates}
  IN IF seqs = {} THEN 0 ELSE CHOOSE s \in seqs : \A t \in seqs : t <= s

\* The floor is the largest certificate.
LEMMA FloorIsLargest ==
  ASSUME NEW P, P \subseteq Keys
  PROVE  /\ FloorOf(P) \in Nat
         /\ \A c \in P \cap Certificates : c.seq <= FloorOf(P)
         /\ FloorOf(P) > 0 => \E c \in P \cap Certificates : c.seq = FloorOf(P)
  <1> DEFINE C == P \cap Certificates
             seqs == {k.seq : k \in C}
  <1>1. \A c \in C : c.seq \in Nat
    BY RankOfKey DEF Certificates, KeyRecords
  <1>2. CASE C = {}
    BY <1>2 DEF FloorOf
  <1>3. CASE C # {}
    <2>1. PICK c \in C : \A d \in C : d.seq <= c.seq
      BY <1>3, HighestCertificate
    <2>2. c.seq \in seqs /\ \A t \in seqs : t <= c.seq
      BY <2>1
    <2>3. FloorOf(P) = CHOOSE s \in seqs : \A t \in seqs : t <= s
      BY <2>2 DEF FloorOf
    <2>4. FloorOf(P) \in seqs /\ \A t \in seqs : t <= FloorOf(P)
      <3> HIDE DEF seqs
      <3>1. QED
        BY <2>2, <2>3
    <2>5. QED
      BY <1>1, <2>4
  <1>4. QED
    BY <1>2, <1>3

\* It does not fall while no certificate goes.
LEMMA FloorGrows ==
  ASSUME NEW P, P \subseteq Keys, NEW Q, Q \subseteq Keys, P \cap Certificates \subseteq Q
  PROVE  FloorOf(P) <= FloorOf(Q)
  <1>1. FloorOf(P) \in Nat /\ FloorOf(Q) \in Nat
    BY FloorIsLargest
  <1>2. CASE FloorOf(P) > 0
    <2>1. PICK c \in P \cap Certificates : c.seq = FloorOf(P)
      BY <1>2, FloorIsLargest
    <2>2. QED
      BY <2>1, FloorIsLargest
  <1>3. QED
    BY <1>1, <1>2

-----------------------------------------------------------------------------
(* Deletions: pages.                                                       *)

Ahead(from) == {k \in present : Rank[k] > from}

\* A page holds the first keys past a rank, and all of them if it is short.
LEMMA PageIsFirst ==
  ASSUME present \subseteq Keys, NEW from
  PROVE  /\ Page(from) \subseteq Ahead(from)
         /\ \A k \in Page(from) : \A j \in Ahead(from) :
              Rank[j] < Rank[k] => j \in Page(from)
         /\ IsFiniteSet(Page(from))
         /\ Cardinality(Page(from)) < PageSize => Page(from) = Ahead(from)
  <1> DEFINE A == Ahead(from)
             Below(k) == {j \in A : Rank[j] < Rank[k]}
  <1>1. A \subseteq Keys /\ \A k \in A : Rank[k] \in 1..Len(Order)
    BY RankOfKey DEF Ahead
  <1>2. IsFiniteSet(A)
    BY <1>1, KeysAreFinite, FS_Subset
  <1>3. \A T \in SUBSET A : IsFiniteSet(T) /\ Cardinality(T) \in Nat
    BY <1>2, FS_Subset, FS_CardinalityType
  <1>4. Page(from) = {k \in A : Cardinality(Below(k)) < PageSize}
    BY DEF Page, Ahead
  <1>5. Page(from) \subseteq A
    BY <1>4
  <1>6. PageSize \in Nat
    BY DeletionAssumption
  <1>7. ASSUME NEW k \in Page(from), NEW j \in A, Rank[j] < Rank[k]
        PROVE  j \in Page(from)
    <2>1. Below(j) \in SUBSET Below(k) /\ Below(k) \in SUBSET A
      BY <1>1, <1>5, <1>7, RankOfKey
    <2>2. IsFiniteSet(Below(k)) /\ Cardinality(Below(k)) \in Nat
          /\ Cardinality(Below(j)) \in Nat
      BY <1>3, <2>1
    <2>3. Cardinality(Below(j)) <= Cardinality(Below(k))
      BY <2>1, <2>2, FS_Subset
    <2>4. Cardinality(Below(k)) < PageSize
      BY <1>4
    <2>5. Cardinality(Below(j)) < PageSize
      BY <1>6, <2>2, <2>3, <2>4
    <2>6. QED
      BY <1>4, <2>5
  <1>8. ASSUME Cardinality(Page(from)) < PageSize
        PROVE  A \subseteq Page(from)
    <2> DEFINE Ranks == {Rank[k] : k \in A \ Page(from)}
    <2>1. SUFFICES ASSUME A \ Page(from) # {} PROVE FALSE
      OBVIOUS
    <2>2. Ranks \subseteq Nat /\ Ranks # {}
      BY <1>1, <2>1, RankOfKey
    <2>3. \E x \in Ranks : \A y \in Ranks : x <= y
      <3> HIDE DEF Ranks
      <3>1. QED
        BY <2>2, LeastNumber
    <2>4. PICK k \in A \ Page(from) : \A j \in A \ Page(from) : Rank[k] <= Rank[j]
      BY <2>3
    <2>5. Below(k) \in SUBSET Page(from)
      BY <1>1, <2>4, RankOfKey
    <2>6. IsFiniteSet(Page(from)) /\ Cardinality(Page(from)) \in Nat
          /\ Cardinality(Below(k)) \in Nat
      BY <1>3, <1>5, <2>5
    <2>7. Cardinality(Below(k)) <= Cardinality(Page(from))
      BY <2>5, <2>6, FS_Subset
    <2>8. Cardinality(Below(k)) < PageSize
      BY <1>6, <1>8, <2>6, <2>7
    <2>9. QED
      BY <1>4, <2>4, <2>8
  <1>9. IsFiniteSet(Page(from))
    BY <1>3, <1>5
  <1>10. QED
    BY <1>5, <1>7, <1>8, <1>9

\* The end of a page is the rank of its last key.
LEMMA EndIsLast ==
  ASSUME NEW page, page \subseteq Keys, page # {}
  PROVE  /\ EndOf(page) \in Nat /\ \A k \in page : Rank[k] <= EndOf(page)
         /\ \E k \in page : EndOf(page) = Rank[k]
  <1> DEFINE Ranks == {Rank[k] : k \in page}
  <1>1. Ranks \subseteq 0..Len(Order) /\ Ranks # {}
    BY RankOfKey
  <1>2. \E x \in Ranks : \A y \in Ranks : y <= x
    <2> HIDE DEF Ranks
    <2>1. QED
      BY <1>1, LargestNumber, RankOfKey
  <1>3. EndOf(page) \in Ranks /\ \A k \in page : Rank[k] <= EndOf(page)
    BY <1>2 DEF EndOf
  <1>4. QED
    BY <1>1, <1>3

-----------------------------------------------------------------------------
(* Deletions: the invariant.                                               *)

Swept == {"data", "tombstone", "incarnation"}

WalkType ==
  /\ present \subseteq Keys
  /\ bound \in Nat /\ best \in Nat /\ began \in Nat /\ at \in Nat
  /\ pending \in Seq(Keys)
  /\ labels \in Seq({"Ok", "Rejected", "NotDeleted"})
  /\ pc \in {"idle", "floor", "certify"} => pending = <<>>
  /\ pc \notin {"many", "objects"} => labels = <<>>

\* A bound that is to be certified is a certificate's number.
Proposed == op = "propose" => \E c \in Certificates : c.seq = bound

\* The floor the walk began with is met, or is still ahead.
FloorAhead ==
  began > 0 =>
    \E c \in present \cap Certificates : c.seq = began /\ (Rank[c] > at \/ began <= best)

InWalk ==
  /\ pc \in {"floor", "certify"} => Proposed
  /\ pc = "certify" => op = "propose"
  /\ pc = "floor" => best <= Floor /\ FloorAhead

\* What a sweep has collected is covered by a certificate that stays.
InSweep ==
  pc \in Swept \cup {"sweep"} =>
    /\ bound <= Floor
    /\ \A i \in 1..Len(pending) : pending[i].class \in Swept /\ pending[i].seq \in 1..bound - 1

\* What a batched delete was given is no kernel key, and what it has confirmed was
\* gone.
InBatch ==
  pc \in {"many", "objects"} =>
    /\ \A i \in 1..Len(pending) : ~ Reserved(pending[i])
    /\ Len(labels) <= Len(pending)
    /\ \A i \in 1..Len(labels) : labels[i] = "Ok" => pending[i] \in gone

DeletionsInv ==
  WalkType /\ InWalk /\ InSweep /\ InBatch /\ FloorIsCurrent /\ OutcomesAreTrue

LEMMA DeletionsInit == Init => DeletionsInv
  <1> SUFFICES ASSUME Init PROVE DeletionsInv
    OBVIOUS
  <1> USE DEF Init
  <1>1. WalkType
    BY DEF WalkType
  <1>2. InWalk /\ InSweep /\ InBatch
    BY DEF InWalk, InSweep, InBatch, Swept
  <1>3. FloorIsCurrent /\ OutcomesAreTrue
    BY DEF FloorIsCurrent, OutcomesAreTrue
  <1>4. QED
    BY <1>1, <1>2, <1>3 DEF DeletionsInv

\* An answer that is of no interest here.
Silent(a) == a.kind \notin {"floor", "outcomes"}

\* A call that returns, whatever it did last.
LEMMA AnswerKeeps ==
  ASSUME WalkType, present' \subseteq Keys, NEW a, Answer(a),
         a.kind = "floor" => a.floor >= a.began,
         a.kind = "outcomes" =>
           /\ Len(a.outcomes) = Len(a.keys)
           /\ \A i \in 1..Len(a.keys) : a.outcomes[i] = "Ok" => a.keys[i] \in a.gone
  PROVE  DeletionsInv'
  <1> USE DEF Answer
  <1>1. WalkType'
    BY DEF WalkType
  <1>2. (InWalk /\ InSweep /\ InBatch)'
    BY DEF InWalk, InSweep, InBatch, Swept
  <1>3. FloorIsCurrent' /\ OutcomesAreTrue'
    BY DEF FloorIsCurrent, OutcomesAreTrue
  <1>4. QED
    BY <1>1, <1>2, <1>3 DEF DeletionsInv

\* A quiet step answers nothing.
LEMMA QuietKeeps == Quiet => FloorIsCurrent' /\ OutcomesAreTrue'
  BY DEF Quiet, FloorIsCurrent, OutcomesAreTrue

\* The floor as FloorOf.
LEMMA FloorNow ==
  /\ Floor = FloorOf(present)
  /\ Floor' = FloorOf(present')
  BY DEF Floor, FloorOf

\* Certificates that are there stay, unless a step says otherwise.
LEMMA CertificatesStay ==
  ASSUME WalkType, present' \subseteq Keys, present \cap Certificates \subseteq present'
  PROVE  Floor \in Nat /\ Floor' \in Nat /\ Floor <= Floor'
  BY FloorNow, FloorIsLargest, FloorGrows DEF WalkType

-----------------------------------------------------------------------------
(* Deletions: the walk over the certificates.                              *)

\* A walk starts before every certificate that counts.
LEMMA StartIsKey ==
  ASSUME NEW class \in Swept \cup {"certificate"}
  PROVE  StartOf(class) \in 1..Len(Order) /\ Order[StartOf(class)].class = class
         /\ Order[StartOf(class)].seq = 0
  <1>1. PICK k \in Keys : k.class = class /\ k.seq = 0
    BY ByteOrderAssumption DEF Swept
  <1>2. QED
    BY <1>1, RankOfKey DEF StartOf

LEMMA StartIsFirst ==
  \A c \in Certificates : c.seq > 0 => Rank[c] > StartOf("certificate")
  <1> DEFINE r == StartOf("certificate")
  <1>1. r \in 1..Len(Order) /\ Order[r].class = "certificate" /\ Order[r].seq = 0
    BY StartIsKey
  <1>2. Order[r] \in Certificates /\ Rank[Order[r]] = r
    BY <1>1, RankOfKey DEF Certificates
  <1> HIDE DEF r
  <1>3. \A c \in Certificates : c.seq > 0 => Rank[c] > r
    BY <1>1, <1>2, ByteOrderAssumption, RankOfKey DEF Certificates, KeyRecords
  <1>4. QED
    BY <1>3 DEF r

\* A walk that begins has the whole floor ahead.
LEMMA WalkBegins ==
  ASSUME WalkType, present' \subseteq Keys, present \cap Certificates \subseteq present',
         began' \in Nat,
         began' > 0 => \E c \in present' \cap Certificates : c.seq = began',
         at' = StartOf("certificate"), best' = 0
  PROVE  best' <= Floor' /\ FloorAhead' /\ at' \in Nat /\ best' \in Nat
  <1>1. Floor' \in Nat
    BY CertificatesStay
  <1>2. StartOf("certificate") \in Nat
    BY StartIsKey, RankOfKey
  <1>3. FloorAhead'
    <2>1. CASE began' > 0
      <3>1. PICK c \in present' \cap Certificates : c.seq = began'
        BY <2>1
      <3>2. Rank[c] > StartOf("certificate")
        BY <2>1, <3>1, StartIsFirst
      <3>3. QED
        BY <3>1, <3>2 DEF FloorAhead
    <2>2. CASE ~ (began' > 0)
      BY <2>2 DEF FloorAhead
    <2>3. QED
      BY <2>1, <2>2
  <1>4. QED
    BY <1>1, <1>2, <1>3

\* The three calls that begin with a walk.
LEMMA BeginKeeps ==
  ASSUME DeletionsInv, pc = "idle", WalkCertificates, bound' \in Nat, Proposed',
         UNCHANGED <<present, pending, labels>>
  PROVE  DeletionsInv'
  <1> USE DEF WalkCertificates, Goto
  <1>1. WalkType /\ present' = present /\ began' = Floor
    BY DEF DeletionsInv
  <1>2. Floor \in Nat /\ (Floor > 0 => \E c \in present \cap Certificates : c.seq = Floor)
    BY <1>1, FloorNow, FloorIsLargest DEF WalkType
  <1>3. best' <= Floor' /\ FloorAhead' /\ at' \in Nat /\ best' \in Nat
    <2>1. /\ present' \subseteq Keys /\ present \cap Certificates \subseteq present'
          /\ began' \in Nat
          /\ began' > 0 => \E c \in present' \cap Certificates : c.seq = began'
      BY <1>1, <1>2 DEF WalkType
    <2>2. QED
      BY <1>1, <2>1, WalkBegins
  <1>4. WalkType'
    BY <1>1, <1>2, <1>3 DEF WalkType
  <1>5. InWalk' /\ InSweep' /\ InBatch'
    BY <1>3 DEF InWalk, InSweep, InBatch, Swept
  <1>6. QED
    BY <1>4, <1>5, QuietKeeps DEF DeletionsInv

\* A key that a walk over the certificates does not go past lies after all of them.
LEMMA NotPassed ==
  ASSUME NEW k \in Keys, ~ Passed(k), NEW c \in Certificates, Rank[k] <= Rank[c]
  PROVE  FALSE
  <1>1. k \notin Certificates /\ k # c
    BY DEF Passed, Certificates
  <1>2. PICK d \in Certificates : d.seq > 0 /\ ~ (Rank[k] < Rank[d])
    BY DEF Passed
  <1>3. c \in Keys /\ d \in Keys /\ k # d
    BY <1>1 DEF Certificates
  <1>4. Rank[k] # Rank[c] /\ Rank[k] # Rank[d]
    BY <1>1, <1>3, RankIsUnique
  <1>5. Rank[d] < Rank[k] /\ Rank[k] < Rank[c]
    BY <1>2, <1>3, <1>4, RankOfKey
  <1>6. QED
    BY <1>1, <1>2, <1>5, ByteOrderAssumption

\* One page of that walk either meets the floor it began with or stops short of it.
LEMMA PageMeets ==
  ASSUME DeletionsInv, pc = "floor"
  PROVE  LET page  == Page(at)
             past == Before(page, Passed)
             seqs  == {best} \cup {k.seq : k \in past \cap Certificates}
             most  == CHOOSE s \in seqs : \A t \in seqs : t <= s
         IN /\ most \in Nat /\ most <= Floor
            /\ past # page \/ Cardinality(page) < PageSize => most >= began
            /\ past = page /\ Cardinality(page) = PageSize =>
                 /\ page # {}
                 /\ began > 0 =>
                      \E c \in present \cap Certificates :
                        c.seq = began /\ (Rank[c] > EndOf(page) \/ began <= most)
  <1> DEFINE page  == Page(at)
             past == Before(page, Passed)
             P     == past \cap Certificates
             seqs  == {best} \cup {k.seq : k \in P}
             most  == CHOOSE s \in seqs : \A t \in seqs : t <= s
  <1>1. WalkType /\ best <= Floor /\ FloorAhead
    BY DEF DeletionsInv, InWalk
  <1>2. /\ page \subseteq Ahead(at)
        /\ \A k \in page : \A j \in Ahead(at) : Rank[j] < Rank[k] => j \in page
        /\ Cardinality(page) < PageSize => page = Ahead(at)
    BY <1>1, PageIsFirst DEF WalkType
  <1>3. Ahead(at) \subseteq present /\ present \subseteq Keys
    BY <1>1 DEF Ahead, WalkType
  <1>4. past \subseteq page
    BY DEF Before
  <1>5. best \in Nat /\ began \in Nat
    BY <1>1 DEF WalkType
  <1>6. P \subseteq Certificates
    OBVIOUS
  <1>7. most \in seqs /\ most \in Nat /\ \A t \in seqs : t <= most
    <2> HIDE DEF P
    <2>1. QED
      BY <1>5, <1>6, LargestMet
  <1>8. most <= Floor
    <2>1. \A c \in P : c.seq <= Floor
      BY <1>2, <1>3, <1>4, FloorNow, FloorIsLargest
    <2>2. \A t \in seqs : t <= Floor
      BY <1>1, <2>1
    <2> HIDE DEF seqs, most
    <2>3. QED
      BY <1>7, <2>2
  <1>9. best <= most /\ \A c \in P : c.seq <= most
    <2> HIDE DEF most
    <2>1. QED
      BY <1>7
  <1>10. CASE began > 0
    <2>1. PICK c \in present \cap Certificates :
            c.seq = began /\ (Rank[c] > at \/ began <= best)
      BY <1>1, <1>10 DEF FloorAhead
    <2> HIDE DEF most, seqs
    <2>2. CASE began <= best
      <3>1. began <= most
        BY <1>5, <1>7, <1>9, <2>2
      <3>2. Cardinality(page) = PageSize => page # {}
        BY DeletionAssumption, FS_EmptySet
      <3>3. QED
        BY <1>5, <1>7, <1>8, <2>1, <3>1, <3>2 DEF most, seqs
    <2>3. CASE Rank[c] > at
      <3>1. c \in Ahead(at)
        BY <2>1, <2>3 DEF Ahead
      <3>2. CASE c \in page
        <4>1. \A j \in page : Rank[j] <= Rank[c] => Passed(j)
          BY <1>2, <1>3, <2>1, NotPassed
        <4>2. c \in past
          BY <3>2, <4>1 DEF Before
        <4>3. began <= most
          BY <1>9, <2>1, <4>2
        <4>4. QED
          BY <1>5, <1>7, <1>8, <2>1, <3>2, <4>3 DEF most, seqs
      <3>3. CASE c \notin page
        <4>1. \A j \in page : Rank[j] < Rank[c]
          <5>1. \A j \in page : j \in Keys /\ j # c /\ ~ (Rank[c] < Rank[j])
            BY <1>2, <1>3, <3>1, <3>3
          <5>2. c \in Keys
            BY <1>3, <2>1
          <5> HIDE DEF page
          <5>3. \A j \in page : Rank[j] # Rank[c] /\ Rank[j] \in Nat /\ Rank[c] \in Nat
            BY <5>1, <5>2, RankOfKey, RankIsUnique
          <5>4. QED
            BY <5>1, <5>3
        <4>2. \A j \in page : Passed(j)
          <5>1. SUFFICES ASSUME NEW j \in page, ~ Passed(j) PROVE FALSE
            OBVIOUS
          <5>2. j \in Keys /\ c \in Certificates /\ Rank[j] <= Rank[c]
            BY <1>2, <1>3, <2>1, <4>1, RankOfKey
          <5>3. QED
            BY <5>1, <5>2, NotPassed
        <4>3. past = page
          BY <4>2 DEF Before
        <4>4. ~ (Cardinality(page) < PageSize)
          BY <1>2, <3>1, <3>3
        <4>5. Cardinality(page) = PageSize => page # {}
          BY DeletionAssumption, FS_EmptySet
        <4>6. page # {} => Rank[c] > EndOf(page)
          <5> HIDE DEF page
          <5>1. page # {} => \E k \in page : EndOf(page) = Rank[k]
            BY <1>2, <1>3, EndIsLast
          <5>2. QED
            BY <4>1, <5>1
        <4>7. QED
          BY <1>7, <1>8, <2>1, <4>3, <4>4, <4>5, <4>6 DEF most, seqs
      <3>4. QED
        BY <3>2, <3>3
    <2>4. QED
      BY <2>1, <2>2, <2>3
  <1>11. CASE ~ (began > 0)
    <2>1. Cardinality(page) = PageSize => page # {}
      BY DeletionAssumption, FS_EmptySet
    <2> HIDE DEF most, seqs
    <2>2. most >= began
      BY <1>5, <1>7, <1>11
    <2>3. QED
      BY <1>7, <1>8, <1>11, <2>1, <2>2 DEF most, seqs
  <1>12. QED
    BY <1>10, <1>11

LEMMA FloorPageKeeps == DeletionsInv /\ FloorPage => DeletionsInv'
  <1> SUFFICES ASSUME DeletionsInv, FloorPage PROVE DeletionsInv'
    OBVIOUS
  <1> DEFINE page  == Page(at)
             past == Before(page, Passed)
             seqs  == {best} \cup {k.seq : k \in past \cap Certificates}
             most  == CHOOSE s \in seqs : \A t \in seqs : t <= s
  <1>1. pc = "floor" /\ present' = present
    BY DEF FloorPage
  <1>2. /\ most \in Nat /\ most <= Floor
        /\ past # page \/ Cardinality(page) < PageSize => most >= began
        /\ past = page /\ Cardinality(page) = PageSize =>
             /\ page # {}
             /\ began > 0 =>
                  \E c \in present \cap Certificates :
                    c.seq = began /\ (Rank[c] > EndOf(page) \/ began <= most)
    BY <1>1, PageMeets
  <1>3. WalkType /\ Proposed /\ Floor' = Floor
    BY <1>1, FloorNow DEF DeletionsInv, InWalk
  <1>4. present' \subseteq Keys
    BY <1>1, <1>3 DEF WalkType
  <1>5. ASSUME FloorRead(most), most >= began
        PROVE  DeletionsInv'
    <2> HIDE DEF most
    <2> DEFINE told == [kind |-> "floor", floor |-> most, began |-> began]
    <2>1. CASE Answer(told)
      BY <1>3, <1>4, <1>5, <2>1, AnswerKeeps
    <2>2. CASE /\ op = "propose"
               /\ at' = 0 /\ best' = 0 /\ Goto("certify")
               /\ UNCHANGED <<op, bound, pending, labels, began, gone>>
      <3>1. WalkType'
        BY <1>1, <1>3, <2>2 DEF WalkType, Goto
      <3>2. InWalk' /\ InSweep' /\ InBatch'
        BY <1>3, <2>2 DEF InWalk, InSweep, InBatch, Goto, Proposed, Swept
      <3>3. QED
        BY <2>2, <3>1, <3>2, QuietKeeps DEF DeletionsInv, Goto
    <2>3. CASE /\ bound <= most
               /\ at' = StartOf("data") /\ best' = 0 /\ Goto("data")
               /\ UNCHANGED <<op, bound, pending, labels, began, gone>>
      <3>1. StartOf("data") \in Nat
        BY StartIsKey, RankOfKey DEF Swept
      <3>2. WalkType'
        BY <1>1, <1>3, <2>3, <3>1 DEF WalkType, Goto
      <3>3. pending = <<>>
        BY <1>1, <1>3 DEF WalkType
      <3>4. Floor \in Nat
        BY <1>3, FloorNow, FloorIsLargest DEF WalkType
      <3>5. bound <= Floor
        BY <1>2, <1>3, <2>3, <3>4 DEF WalkType
      <3>6. InWalk' /\ InSweep' /\ InBatch'
        BY <1>3, <2>3, <3>3, <3>5 DEF InWalk, InSweep, InBatch, Goto, Swept
      <3>7. QED
        BY <2>3, <3>2, <3>6, QuietKeeps DEF DeletionsInv, Goto
    <2>4. QED
      BY <1>5, <2>1, <2>2, <2>3 DEF FloorRead
  <1>6. CASE (past # page \/ Cardinality(page) < PageSize) /\ FloorRead(most)
    BY <1>2, <1>5, <1>6
  <1>7. CASE /\ past = page /\ Cardinality(page) = PageSize
             /\ at' = EndOf(page) /\ best' = most /\ Goto("floor")
             /\ UNCHANGED <<op, bound, pending, labels, began, gone>>
    <2>1. page \subseteq Keys
      BY <1>3, PageIsFirst DEF WalkType, Ahead
    <2>2. EndOf(page) \in Nat
      <3> HIDE DEF page
      <3>1. QED
        BY <1>2, <1>7, <2>1, EndIsLast
    <2> HIDE DEF most, page, past
    <2>3. WalkType'
      BY <1>1, <1>2, <1>3, <1>7, <2>2 DEF WalkType, Goto
    <2>4. best' <= Floor' /\ FloorAhead' /\ Proposed'
      BY <1>1, <1>2, <1>3, <1>7 DEF FloorAhead, Proposed
    <2>5. InWalk' /\ InSweep' /\ InBatch'
      BY <1>7, <2>4 DEF InWalk, InSweep, InBatch, Goto, Swept
    <2>6. QED
      BY <1>7, <2>3, <2>5, QuietKeeps DEF DeletionsInv, Goto
  <1>8. QED
    BY <1>6, <1>7 DEF FloorPage

LEMMA CertifyKeeps == DeletionsInv /\ Certify => DeletionsInv'
  <1> SUFFICES ASSUME DeletionsInv, Certify PROVE DeletionsInv'
    OBVIOUS
  <1> DEFINE cert == CHOOSE k \in Certificates : k.seq = bound
  <1>1. WalkType /\ Proposed /\ op = "propose" /\ pc = "certify"
    BY DEF Certify, DeletionsInv, InWalk
  <1>2. cert \in Certificates /\ cert.seq = bound
    BY <1>1 DEF Proposed
  <1> HIDE DEF cert
  <1>3. cert \in Keys
    BY <1>2 DEF Certificates
  <1>4. CASE Answer([kind |-> "unavailable"]) /\ present' \in {present, present \cup {cert}}
    <2>1. present' \subseteq Keys
      BY <1>1, <1>3, <1>4 DEF WalkType
    <2>2. QED
      BY <1>1, <1>4, <2>1, AnswerKeeps
  <1>5. CASE /\ present' = present \cup {cert}
             /\ at' = StartOf("certificate") /\ best' = 0 /\ op' = "proposed"
             /\ began' = IF Floor >= bound THEN Floor ELSE bound
             /\ Goto("floor")
             /\ UNCHANGED <<bound, pending, labels, gone>>
    <2>1. present' \subseteq Keys /\ present \cap Certificates \subseteq present'
      BY <1>1, <1>3, <1>5 DEF WalkType
    <2>2. Floor \in Nat /\ (Floor > 0 => \E c \in present \cap Certificates : c.seq = Floor)
      BY <1>1, FloorNow, FloorIsLargest DEF WalkType
    <2>3. /\ began' \in Nat
          /\ began' > 0 => \E c \in present' \cap Certificates : c.seq = began'
      BY <1>1, <1>2, <1>5, <2>2 DEF WalkType
    <2>4. best' <= Floor' /\ FloorAhead' /\ at' \in Nat /\ best' \in Nat
      BY <1>1, <1>5, <2>1, <2>3, WalkBegins
    <2>5. WalkType'
      BY <1>1, <1>5, <2>1, <2>3, <2>4 DEF WalkType, Goto
    <2>6. InWalk' /\ InSweep' /\ InBatch'
      BY <1>5, <2>4 DEF InWalk, InSweep, InBatch, Goto, Swept, Proposed
    <2>7. QED
      BY <1>5, <2>5, <2>6, QuietKeeps DEF DeletionsInv, Goto
  <1>6. QED
    BY <1>4, <1>5 DEF Certify, cert

-----------------------------------------------------------------------------
(* Deletions: the sweep.                                                   *)

\* A step that leaves the keys of callers alone, and the floor.
LEMMA SweepPageKeeps == DeletionsInv /\ SweepPage => DeletionsInv'
  <1> SUFFICES ASSUME DeletionsInv, SweepPage PROVE DeletionsInv'
    OBVIOUS
  <1>1. PICK class \in Swept :
          /\ pc = class
          /\ \E s \in Listings({k \in Before(Page(at), LAMBDA k : Sweepable(k, class)) : k.seq # 0}) :
               pending' = pending \o s
          /\ \/ /\ Page(at) # {} /\ at' = EndOf(Page(at)) /\ Goto(class)
             \/ /\ at' = IF class = "incarnation" THEN 0 ELSE StartOf(After(class))
                /\ Goto(After(class))
          /\ UNCHANGED <<present, op, bound, best, labels, began, gone>>
    BY DEF SweepPage, Swept
  <1>2. WalkType /\ bound <= Floor
        /\ \A i \in 1..Len(pending) : pending[i].class \in Swept /\ pending[i].seq \in 1..bound - 1
    BY <1>1 DEF DeletionsInv, InSweep, Swept
  <1> DEFINE T == {k \in Before(Page(at), LAMBDA k : Sweepable(k, class)) : k.seq # 0}
  <1>3. PICK s \in Listings(T) : pending' = pending \o s
    BY <1>1
  <1>4. Page(at) \subseteq Keys
    BY <1>2, PageIsFirst DEF WalkType, Ahead
  <1>5. \A k \in T : k \in Page(at) /\ k.class = class /\ k.seq < bound /\ k.seq # 0
    <2>1. \A k \in Page(at) : Rank[k] <= Rank[k]
      BY <1>4, RankOfKey
    <2>2. QED
      BY <2>1 DEF Before, Sweepable
  <1>6. \A k \in T : k \in Keys /\ k.class \in Swept /\ k.seq \in 1..bound - 1
    <2> HIDE DEF T
    <2>1. \A k \in Keys : k.seq \in Nat
      BY RankOfKey DEF KeyRecords
    <2>2. QED
      BY <1>2, <1>4, <1>5, <2>1 DEF WalkType
  <1>7. IsFiniteSet(T)
    BY <1>6, KeysAreFinite, FS_Subset
  <1> HIDE DEF T
  <1>8. Cardinality(T) \in Nat
    BY <1>7, FS_CardinalityType
  <1>9. s \in Seq(Keys) /\ Len(s) \in Nat /\ \A i \in 1..Len(s) : s[i] \in T
    <2>1. s \in [1..Cardinality(T) -> T]
      BY DEF Listings
    <2>2. s \in Seq(T)
      BY <1>8, <2>1, SeqDef
    <2>3. QED
      BY <1>6, <2>2
  <1>10. pending' \in Seq(Keys) /\ \A i \in 1..Len(pending') : pending'[i].class \in Swept /\ pending'[i].seq \in 1..bound - 1
    <2>1. pending \in Seq(Keys)
      BY <1>2 DEF WalkType
    <2>2. /\ pending' \in Seq(Keys) /\ Len(pending') = Len(pending) + Len(s)
          /\ \A i \in 1..Len(pending) + Len(s) :
               pending'[i] = IF i <= Len(pending) THEN pending[i] ELSE s[i - Len(pending)]
      BY <1>3, <1>9, <2>1, ConcatProperties
    <2>3. Len(pending) \in Nat
      BY <2>1
    <2>4. ASSUME NEW i \in 1..Len(pending')
          PROVE  pending'[i].class \in Swept /\ pending'[i].seq \in 1..bound - 1
      <3>1. CASE i <= Len(pending)
        BY <1>2, <2>2, <2>3, <3>1
      <3>2. CASE ~ (i <= Len(pending))
        <4>1. i - Len(pending) \in 1..Len(s) /\ pending'[i] = s[i - Len(pending)]
          BY <1>9, <2>2, <2>3, <3>2
        <4>2. QED
          BY <1>6, <1>9, <4>1
      <3>3. QED
        BY <3>1, <3>2
    <2>5. QED
      BY <2>2, <2>4
  <1>11. at' \in Nat /\ pc' \in Swept \cup {"sweep"} /\ Quiet
    <2>1. CASE Page(at) # {} /\ at' = EndOf(Page(at)) /\ Goto(class)
      <3>1. EndOf(Page(at)) \in Nat
        BY <1>4, <2>1, EndIsLast
      <3>2. QED
        BY <2>1, <3>1 DEF Goto
    <2>2. CASE /\ at' = IF class = "incarnation" THEN 0 ELSE StartOf(After(class))
               /\ Goto(After(class))
      <3>1. After(class) \in Swept \cup {"sweep"} /\ (class # "incarnation" => After(class) \in Swept)
        BY DEF After, Swept
      <3>2. class # "incarnation" => StartOf(After(class)) \in Nat
        BY <3>1, StartIsKey, RankOfKey
      <3>3. QED
        BY <2>2, <3>1, <3>2 DEF Goto
    <2>3. QED
      BY <1>1, <2>1, <2>2
  <1>12. pc' \notin {"idle", "floor", "certify", "many", "objects"} /\ labels = <<>>
    BY <1>1, <1>2, <1>11 DEF Swept, WalkType
  <1>13. Floor' = Floor
    BY <1>1, FloorNow
  <1>14. WalkType'
    BY <1>1, <1>2, <1>10, <1>11, <1>12 DEF WalkType
  <1>15. InWalk' /\ InBatch'
    BY <1>12 DEF InWalk, InBatch
  <1>16. InSweep'
    BY <1>1, <1>2, <1>10, <1>13 DEF InSweep
  <1>17. QED
    BY <1>11, <1>14, <1>15, <1>16, QuietKeeps DEF DeletionsInv

\* What a sweep is about to delete.
LEMMA SweepHead ==
  ASSUME DeletionsInv, pc = "sweep", pending # <<>>
  PROVE  /\ Head(pending) \in Keys /\ Head(pending) \notin Certificates
         /\ Head(pending).class \in Swept /\ Head(pending).seq \in 1..bound - 1
  <1>1. WalkType /\ \A i \in 1..Len(pending) : pending[i].class \in Swept /\ pending[i].seq \in 1..bound - 1
    BY DEF DeletionsInv, InSweep
  <1>2. pending \in Seq(Keys)
    BY <1>1 DEF WalkType
  <1>3. 1 \in 1..Len(pending) /\ Head(pending) = pending[1]
    BY <1>2, EmptySeq
  <1>4. QED
    BY <1>1, <1>2, <1>3 DEF Swept, Certificates

LEMMA SweepKeeps == DeletionsInv /\ Sweep => DeletionsInv'
  <1> SUFFICES ASSUME DeletionsInv, Sweep PROVE DeletionsInv'
    OBVIOUS
  <1>1. WalkType /\ pc = "sweep" /\ bound <= Floor
        /\ \A i \in 1..Len(pending) : pending[i].class \in Swept /\ pending[i].seq \in 1..bound - 1
    BY DEF Sweep, DeletionsInv, InSweep
  <1>2. CASE Answer([kind |-> "swept"]) /\ UNCHANGED present
    BY <1>1, <1>2, AnswerKeeps DEF WalkType
  <1>3. CASE /\ pending # <<>>
             /\ present' \in {present, present \ {Head(pending)}}
             /\ pending' = Tail(pending)
             /\ Goto("sweep")
             /\ UNCHANGED <<op, bound, at, best, labels, began, gone>>
    <2>1. present' \subseteq Keys /\ present \cap Certificates \subseteq present'
      BY <1>1, <1>3, SweepHead DEF WalkType
    <2>2. Floor \in Nat /\ Floor' \in Nat /\ Floor <= Floor'
      BY <1>1, <2>1, CertificatesStay
    <2>3. /\ Tail(pending) \in Seq(Keys) /\ Len(Tail(pending)) = Len(pending) - 1
          /\ \A i \in 1..Len(pending) - 1 : Tail(pending)[i] = pending[i + 1]
      BY <1>1, <1>3 DEF WalkType
    <2>4. Len(pending) \in Nat
      BY <1>1 DEF WalkType
    <2>5. \A i \in 1..Len(pending') : pending'[i].class \in Swept /\ pending'[i].seq \in 1..bound - 1
      BY <1>1, <1>3, <2>3, <2>4
    <2>6. WalkType'
      BY <1>1, <1>3, <2>1, <2>3 DEF WalkType, Goto
    <2>7. bound' <= Floor'
      BY <1>1, <1>3, <2>2 DEF WalkType
    <2>8. InSweep'
      BY <1>3, <2>5, <2>7 DEF InSweep
    <2>9. InWalk' /\ InBatch'
      BY <1>3 DEF InWalk, InBatch, Goto
    <2>10. QED
      BY <1>3, <2>6, <2>8, <2>9, QuietKeeps DEF DeletionsInv, Goto
  <1>4. QED
    BY <1>2, <1>3 DEF Sweep

-----------------------------------------------------------------------------
(* Deletions: the batched deletes.                                         *)

LEMMA AdmittedKeeps ==
  ASSUME DeletionsInv, pc = "idle", NEW n \in Nat, NEW keys \in [1..n -> Asked],
         Admits(keys), NEW p \in {"many", "objects"}, Admitted(keys, p)
  PROVE  DeletionsInv'
  <1> USE DEF Admitted, Goto
  <1>1. WalkType /\ labels = <<>>
    BY DEF DeletionsInv, WalkType
  <1>2. keys \in Seq(Keys)
    <2>1. keys \in [1..n -> Keys]
      BY DeletionAssumption
    <2>2. QED
      BY <2>1, SeqDef
  <1>3. WalkType'
    BY <1>1, <1>2 DEF WalkType
  <1>4. InWalk' /\ InSweep'
    BY DEF InWalk, InSweep, Swept
  <1>5. InBatch'
    <2>1. Len(labels') = 0 /\ Len(pending') \in Nat
      BY <1>1, <1>2
    <2>2. QED
      BY <2>1 DEF InBatch, Admits
  <1>6. QED
    BY <1>3, <1>4, <1>5, QuietKeeps DEF DeletionsInv

\* Nothing that a caller was admitted to delete is a certificate.
LEMMA CallersKeys ==
  ASSUME DeletionsInv, pc \in {"many", "objects"}
  PROVE  /\ pending \in Seq(Keys) /\ Len(pending) \in Nat /\ Len(labels) \in Nat
         /\ ToSet(pending) \cap Certificates = {}
         /\ \A i \in 1..Len(pending) : pending[i] \in ToSet(pending)
  <1>1. pending \in Seq(Keys) /\ labels \in Seq({"Ok", "Rejected", "NotDeleted"})
        /\ \A i \in 1..Len(pending) : ~ Reserved(pending[i])
    BY DEF DeletionsInv, WalkType, InBatch
  <1>2. DOMAIN pending = 1..Len(pending)
    BY <1>1
  <1>3. QED
    BY <1>1, <1>2 DEF ToSet, Certificates, Reserved

\* A step of a batched delete that goes on: some labels more, some keys fewer.
LEMMA BatchKeeps ==
  ASSUME DeletionsInv, pc \in {"many", "objects"}, Goto(pc),
         present' \subseteq present, present \ present' \subseteq ToSet(pending),
         gone' = Witness(present'),
         labels' \in Seq({"Ok", "Rejected", "NotDeleted"}), Len(labels') <= Len(pending),
         \A i \in 1..Len(labels') :
           labels'[i] = "Ok" => pending[i] \in gone \/ pending[i] \notin present',
         UNCHANGED <<op, bound, at, best, pending, began>>
  PROVE  DeletionsInv'
  <1> USE DEF Goto
  <1>1. WalkType /\ InBatch
    BY DEF DeletionsInv
  <1>2. WalkType'
    BY <1>1 DEF WalkType
  <1>3. InWalk' /\ InSweep'
    BY DEF InWalk, InSweep, Swept
  <1>4. InBatch'
    <2>1. Len(labels') \in Nat /\ Len(pending) \in Nat
      BY <1>1 DEF WalkType
    <2>2. \A i \in 1..Len(labels') : labels'[i] = "Ok" => pending[i] \in gone'
      BY <2>1, CallersKeys DEF Witness
    <2>3. QED
      BY <1>1, <2>2 DEF InBatch
  <1>5. QED
    BY <1>2, <1>3, <1>4, QuietKeeps DEF DeletionsInv

\* A batched delete that returns.
LEMMA ToldKeeps ==
  ASSUME DeletionsInv, pc \in {"many", "objects"}, present' \subseteq present,
         NEW outcomes, Len(outcomes) = Len(pending),
         \A i \in 1..Len(pending) : outcomes[i] = "Ok" => pending[i] \in gone,
         Answer(Told(outcomes))
  PROVE  DeletionsInv'
  <1>1. WalkType /\ present' \subseteq Keys
    BY DEF DeletionsInv, WalkType
  <1>2. /\ Told(outcomes).kind = "outcomes" /\ Told(outcomes).keys = pending
        /\ Told(outcomes).outcomes = outcomes /\ Told(outcomes).gone = gone
    BY DEF Told
  <1> DEFINE a == Told(outcomes)
  <1>3. /\ a.kind = "floor" => a.floor >= a.began
        /\ a.kind = "outcomes" =>
             /\ Len(a.outcomes) = Len(a.keys)
             /\ \A i \in 1..Len(a.keys) : a.outcomes[i] = "Ok" => a.keys[i] \in a.gone
    BY <1>2
  <1> HIDE DEF a
  <1>4. Answer(a)
    BY DEF a
  <1>5. QED
    BY <1>1, <1>3, <1>4, AnswerKeeps

LEMMA DeleteOneKeeps == DeletionsInv /\ DeleteOne => DeletionsInv'
  <1> SUFFICES ASSUME DeletionsInv, DeleteOne PROVE DeletionsInv'
    OBVIOUS
  <1> DEFINE key == pending[Len(labels) + 1]
  <1>1. pc = "many" /\ WalkType /\ InBatch
    BY DEF DeleteOne, DeletionsInv
  <1>2. /\ pending \in Seq(Keys) /\ Len(pending) \in Nat /\ Len(labels) \in Nat
        /\ \A i \in 1..Len(pending) : pending[i] \in ToSet(pending)
    BY <1>1, CallersKeys
  <1>3. /\ Len(labels) <= Len(pending)
        /\ \A i \in 1..Len(labels) : labels[i] = "Ok" => pending[i] \in gone
    BY <1>1 DEF InBatch
  <1>4. labels \in Seq({"Ok", "Rejected", "NotDeleted"})
    BY <1>1 DEF WalkType
  <1>5. CASE Len(labels) = Len(pending) /\ Answer(Told(labels)) /\ UNCHANGED present
    BY <1>1, <1>3, <1>5, ToldKeeps
  <1>6. CASE /\ Len(labels) < Len(pending)
             /\ \E label \in {"Ok", "NotDeleted"} :
                  /\ labels' = Append(labels, label)
                  /\ present' \in {present, present \ {key}}
                  /\ label = "Ok" => present' = present \ {key}
             /\ gone' = Witness(present') /\ Goto("many")
             /\ UNCHANGED <<op, bound, at, best, pending, began>>
    <2>1. PICK label \in {"Ok", "NotDeleted"} :
            /\ labels' = Append(labels, label)
            /\ present' \in {present, present \ {key}}
            /\ label = "Ok" => present' = present \ {key}
      BY <1>6
    <2>2. Len(labels) + 1 \in 1..Len(pending)
      BY <1>2, <1>6
    <2>3. present' \subseteq present /\ present \ present' \subseteq ToSet(pending)
      BY <1>2, <2>1, <2>2
    <2>4. /\ labels' \in Seq({"Ok", "Rejected", "NotDeleted"}) /\ Len(labels') = Len(labels) + 1
          /\ \A i \in 1..Len(labels) : labels'[i] = labels[i]
          /\ labels'[Len(labels) + 1] = label
      BY <1>4, <2>1
    <2>5. ASSUME NEW i \in 1..Len(labels'), labels'[i] = "Ok"
          PROVE  pending[i] \in gone \/ pending[i] \notin present'
      <3>1. CASE i \in 1..Len(labels)
        BY <1>3, <2>4, <2>5, <3>1
      <3>2. CASE i = Len(labels) + 1
        BY <2>1, <2>4, <2>5, <3>2
      <3>3. QED
        BY <1>2, <2>4, <3>1, <3>2
    <2>6. Len(labels') <= Len(pending)
      BY <1>2, <1>6, <2>4
    <2>7. QED
      BY <1>1, <1>6, <2>3, <2>4, <2>5, <2>6, BatchKeeps
  <1>7. QED
    BY <1>5, <1>6 DEF DeleteOne

\* A response that reconciles confirms only what the store removed.
LEMMA ReconcileIsTrue ==
  ASSUME NEW chunk \in Seq(Keys), NEW deleted \in Seq(Keys \cup {Foreign}),
         NEW errors \in Seq(Keys \cup {Foreign}), NEW removed,
         ToSet(deleted) \subseteq removed \cup {Foreign},
         Reconcile(chunk, deleted, errors) # <<>>
  PROVE  LET outcomes == Reconcile(chunk, deleted, errors)
         IN /\ outcomes \in Seq({"Ok", "Rejected"}) /\ Len(outcomes) = Len(chunk)
            /\ \A i \in 1..Len(chunk) : outcomes[i] = "Ok" => chunk[i] \in removed
  <1> DEFINE outcomes ==
        [i \in 1..Len(chunk) |-> IF chunk[i] \in ToSet(errors) THEN "Rejected" ELSE "Ok"]
  <1>1. /\ ToSet(deleted \o errors) = ToSet(chunk)
        /\ Reconcile(chunk, deleted, errors) = outcomes
    BY DEF Reconcile
  <1>2. Len(chunk) \in Nat /\ DOMAIN chunk = 1..Len(chunk)
        /\ \A i \in 1..Len(chunk) : chunk[i] \in ToSet(chunk) /\ chunk[i] \in Keys
    BY DEF ToSet
  <1>3. outcomes \in Seq({"Ok", "Rejected"}) /\ Len(outcomes) = Len(chunk)
        /\ \A i \in 1..Len(chunk) : outcomes[i] = "Ok" => chunk[i] \notin ToSet(errors)
    <2>1. outcomes \in [1..Len(chunk) -> {"Ok", "Rejected"}]
      OBVIOUS
    <2>2. outcomes \in Seq({"Ok", "Rejected"})
      BY <1>2, <2>1, SeqDef
    <2>3. QED
      BY <1>2, <2>1, <2>2
  <1>4. ToSet(deleted \o errors) \subseteq ToSet(deleted) \cup ToSet(errors)
    <2>1. ASSUME NEW k \in ToSet(deleted \o errors)
          PROVE  k \in ToSet(deleted) \cup ToSet(errors)
      <3>1. /\ Len(deleted) \in Nat /\ Len(errors) \in Nat
            /\ deleted \o errors \in Seq(Keys \cup {Foreign})
            /\ Len(deleted \o errors) = Len(deleted) + Len(errors)
            /\ DOMAIN deleted = 1..Len(deleted) /\ DOMAIN errors = 1..Len(errors)
            /\ \A i \in 1..Len(deleted) + Len(errors) : (deleted \o errors)[i] =
                 IF i <= Len(deleted) THEN deleted[i] ELSE errors[i - Len(deleted)]
        BY ConcatProperties, LenProperties
      <3>2. PICK i \in 1..Len(deleted) + Len(errors) : k = (deleted \o errors)[i]
        BY <2>1, <3>1 DEF ToSet
      <3>3. CASE i <= Len(deleted)
        BY <3>1, <3>2, <3>3 DEF ToSet
      <3>4. CASE ~ (i <= Len(deleted))
        <4>1. i - Len(deleted) \in 1..Len(errors) /\ k = errors[i - Len(deleted)]
          BY <3>1, <3>2, <3>4
        <4>2. QED
          BY <3>1, <4>1 DEF ToSet
      <3>5. QED
        BY <3>3, <3>4
    <2>2. QED
      BY <2>1
  <1>5. Foreign \notin Keys
    BY DeletionAssumption
  <1> HIDE DEF outcomes
  <1>6. \A i \in 1..Len(chunk) : outcomes[i] = "Ok" => chunk[i] \in removed
    BY <1>1, <1>2, <1>3, <1>4, <1>5
  <1>7. QED
    BY <1>1, <1>3, <1>6

\* What a batched delete may say of a key.
DeleteLabels == {"Ok", "Rejected", "NotDeleted", "Unsupported", "Unconfirmed", "NotAttempted"}

\* Labels behind a response that cannot be trusted confirm nothing.
LEMMA StoppedConfirmsNothing ==
  ASSUME DeletionsInv, pc = "objects", NEW chunk, Len(chunk) \in Nat,
         NEW label \in DeleteLabels \ {"Ok"}, NEW tail \in DeleteLabels \ {"Ok"}
  PROVE  /\ Len(Stopped(chunk, label, tail)) = Len(pending)
         /\ \A i \in 1..Len(pending) :
              Stopped(chunk, label, tail)[i] = "Ok" => pending[i] \in gone
  <1> DEFINE m == Len(pending) - Len(labels)
             rest == [i \in 1..m |-> IF i <= Len(chunk) THEN label ELSE tail]
  <1>1. /\ Len(pending) \in Nat /\ Len(labels) \in Nat /\ Len(labels) <= Len(pending)
        /\ labels \in Seq(DeleteLabels)
        /\ \A i \in 1..Len(labels) : labels[i] = "Ok" => pending[i] \in gone
    <2>1. labels \in Seq({"Ok", "Rejected", "NotDeleted"})
      BY DEF DeletionsInv, WalkType
    <2>2. labels \in Seq(DeleteLabels)
      <3>1. {"Ok", "Rejected", "NotDeleted"} \subseteq DeleteLabels
        BY DEF DeleteLabels
      <3>2. QED
        BY <2>1, <3>1, SeqMonotonic
    <2>3. QED
      BY <2>2, CallersKeys DEF DeletionsInv, InBatch
  <1>2. m \in Nat
    BY <1>1
  <1>3. rest \in Seq(DeleteLabels) /\ Len(rest) = m /\ \A i \in 1..m : rest[i] # "Ok"
    <2> HIDE DEF m
    <2>1. rest \in [1..m -> DeleteLabels]
      OBVIOUS
    <2>2. rest \in Seq(DeleteLabels)
      BY <1>2, <2>1, SeqDef
    <2>3. QED
      BY <1>2, <2>1, <2>2
  <1>4. Stopped(chunk, label, tail) = labels \o rest
    BY DEF Stopped
  <1> HIDE DEF rest
  <1>5. /\ Len(labels \o rest) = Len(labels) + m
        /\ \A i \in 1..Len(labels) + m : (labels \o rest)[i] =
             IF i <= Len(labels) THEN labels[i] ELSE rest[i - Len(labels)]
    BY <1>1, <1>3, ConcatProperties
  <1>6. ASSUME NEW i \in 1..Len(pending), (labels \o rest)[i] = "Ok"
        PROVE  pending[i] \in gone
    <2>1. CASE i <= Len(labels)
      BY <1>1, <1>5, <1>6, <2>1
    <2>2. CASE ~ (i <= Len(labels))
      BY <1>1, <1>3, <1>5, <1>6, <2>2
    <2>3. QED
      BY <2>1, <2>2
  <1>7. QED
    BY <1>1, <1>4, <1>5, <1>6

LEMMA DeleteChunkKeeps == DeletionsInv /\ DeleteChunk => DeletionsInv'
  <1> SUFFICES ASSUME DeletionsInv, DeleteChunk PROVE DeletionsInv'
    OBVIOUS
  <1> DEFINE chunk == IF Len(labels) + MaxKeys < Len(pending)
                      THEN SubSeq(pending, Len(labels) + 1, Len(labels) + MaxKeys)
                      ELSE SubSeq(pending, Len(labels) + 1, Len(pending))
             responses == UNION {[1..n -> ToSet(chunk) \cup {Foreign}] : n \in 0..Len(chunk)}
  <1>1. pc = "objects" /\ WalkType /\ InBatch
    BY DEF DeleteChunk, DeletionsInv
  <1>2. /\ pending \in Seq(Keys) /\ Len(pending) \in Nat /\ Len(labels) \in Nat
        /\ \A i \in 1..Len(pending) : pending[i] \in ToSet(pending)
    BY <1>1, CallersKeys
  <1>3. /\ Len(labels) <= Len(pending)
        /\ \A i \in 1..Len(labels) : labels[i] = "Ok" => pending[i] \in gone
    BY <1>1 DEF InBatch
  <1>4. labels \in Seq({"Ok", "Rejected", "NotDeleted"})
    BY <1>1 DEF WalkType
  <1>5. chunk \in Seq(Keys) /\ Len(chunk) \in Nat /\ Len(labels) + Len(chunk) <= Len(pending)
        /\ \A i \in 1..Len(chunk) : chunk[i] = pending[Len(labels) + i]
    <2>1. MaxKeys \in Nat
      BY DeletionAssumption
    <2>2. PICK n \in Len(labels)..Len(pending) : chunk = SubSeq(pending, Len(labels) + 1, n)
      BY <1>2, <1>3, <2>1
    <2>3. \A i \in Len(labels) + 1..n : pending[i] \in Keys
      BY <1>2
    <2> HIDE DEF chunk
    <2>4. /\ chunk \in Seq(Keys)
          /\ Len(chunk) = IF Len(labels) + 1 <= n THEN n - (Len(labels) + 1) + 1 ELSE 0
          /\ \A i \in 1..n - (Len(labels) + 1) + 1 : chunk[i] = pending[Len(labels) + 1 + i - 1]
      BY <1>2, <2>2, <2>3, SubSeqProperties
    <2>5. QED
      BY <1>2, <2>2, <2>4
  <1> HIDE DEF chunk
  <1>6. ToSet(chunk) \subseteq ToSet(pending) /\ ToSet(chunk) \subseteq Keys
    <2>1. DOMAIN chunk = 1..Len(chunk)
      BY <1>5
    <2>2. ASSUME NEW i \in 1..Len(chunk)
          PROVE  chunk[i] \in ToSet(pending) /\ chunk[i] \in Keys
      BY <1>2, <1>5
    <2>3. QED
      BY <2>1, <2>2 DEF ToSet
  <1>7. ASSUME NEW label \in DeleteLabels \ {"Ok"}, NEW tail \in DeleteLabels \ {"Ok"},
                Answer(Told(Stopped(chunk, label, tail))), present' \subseteq present
         PROVE  DeletionsInv'
    <2>1. /\ Len(Stopped(chunk, label, tail)) = Len(pending)
          /\ \A i \in 1..Len(pending) :
               Stopped(chunk, label, tail)[i] = "Ok" => pending[i] \in gone
      BY <1>1, <1>5, StoppedConfirmsNothing
    <2>2. QED
      BY <1>1, <1>7, <2>1, ToldKeeps
  <1>8. {"Unsupported", "Unconfirmed", "NotAttempted"} \subseteq DeleteLabels \ {"Ok"}
    BY DEF DeleteLabels
  <1>9. CASE Len(labels) = Len(pending) /\ Answer(Told(labels)) /\ UNCHANGED present
    BY <1>1, <1>3, <1>9, ToldKeeps
  <1>10. CASE Answer(Told(Stopped(chunk, "Unsupported", "Unsupported"))) /\ UNCHANGED present
    BY <1>10, <1>7, <1>8
  <1>11. ASSUME NEW removed \in SUBSET ToSet(chunk),
               NEW r \in responses \X responses, ToSet(r[1]) \subseteq removed \cup {Foreign},
               present' = present \ removed,
               LET outcomes == Reconcile(chunk, r[1], r[2])
               IN \/ /\ outcomes = <<>>
                     /\ Answer(Told(Stopped(chunk, "Unconfirmed", "NotAttempted")))
                  \/ /\ outcomes # <<>>
                     /\ labels' = labels \o outcomes
                     /\ gone' = Witness(present')
                     /\ Goto("objects")
                     /\ UNCHANGED <<op, bound, at, best, pending, began>>
        PROVE  DeletionsInv'
    <2> DEFINE outcomes == Reconcile(chunk, r[1], r[2])
    <2>1. CASE Answer(Told(Stopped(chunk, "Unconfirmed", "NotAttempted")))
      <3>1. present' \subseteq present
        BY <1>11
      <3>2. QED
        BY <1>7, <1>8, <2>1, <3>1
    <2>2. CASE /\ outcomes # <<>>
               /\ labels' = labels \o outcomes
               /\ gone' = Witness(present')
               /\ Goto("objects")
               /\ UNCHANGED <<op, bound, at, best, pending, began>>
      <3>1. r[1] \in Seq(Keys \cup {Foreign}) /\ r[2] \in Seq(Keys \cup {Foreign})
        <4>1. \A n \in 0..Len(chunk) : \A f \in [1..n -> ToSet(chunk) \cup {Foreign}] :
                f \in Seq(Keys \cup {Foreign})
          <5>1. SUFFICES ASSUME NEW n \in Nat, NEW f \in [1..n -> ToSet(chunk) \cup {Foreign}]
                         PROVE  f \in Seq(Keys \cup {Foreign})
            BY <1>5
          <5>2. f \in [1..n -> Keys \cup {Foreign}]
            BY <1>6
          <5>3. QED
            BY <5>2, SeqDef
        <4>2. QED
          BY <4>1
      <3>2. /\ outcomes \in Seq({"Ok", "Rejected"}) /\ Len(outcomes) = Len(chunk)
            /\ \A i \in 1..Len(chunk) : outcomes[i] = "Ok" => chunk[i] \in removed
        BY <1>5, <1>11, <2>2, <3>1, ReconcileIsTrue
      <3> HIDE DEF outcomes
      <3>3. outcomes \in Seq({"Ok", "Rejected", "NotDeleted"})
        BY <3>2, SeqMonotonic
      <3>4. /\ labels' \in Seq({"Ok", "Rejected", "NotDeleted"})
            /\ Len(labels') = Len(labels) + Len(chunk)
            /\ \A i \in 1..Len(labels) + Len(chunk) : labels'[i] =
                 IF i <= Len(labels) THEN labels[i] ELSE outcomes[i - Len(labels)]
        <4>1. /\ labels \o outcomes \in Seq({"Ok", "Rejected", "NotDeleted"})
              /\ Len(labels \o outcomes) = Len(labels) + Len(outcomes)
              /\ \A i \in 1..Len(labels) + Len(outcomes) : (labels \o outcomes)[i] =
                   IF i <= Len(labels) THEN labels[i] ELSE outcomes[i - Len(labels)]
          BY <1>4, <3>3, ConcatProperties
        <4>2. labels' = labels \o outcomes /\ Len(outcomes) = Len(chunk)
          BY <2>2, <3>2
        <4>3. QED
          BY <4>1, <4>2
      <3>5. ASSUME NEW i \in 1..Len(labels'), labels'[i] = "Ok"
            PROVE  pending[i] \in gone \/ pending[i] \notin present'
        <4>1. CASE i <= Len(labels)
          <5>1. i \in 1..Len(labels) /\ i \in 1..Len(labels) + Len(chunk)
            BY <1>2, <1>5, <3>4, <4>1
          <5>2. labels[i] = "Ok"
            BY <3>4, <3>5, <4>1, <5>1
          <5>3. QED
            BY <1>3, <5>1, <5>2
        <4>2. CASE ~ (i <= Len(labels))
          <5>1. i - Len(labels) \in 1..Len(chunk) /\ outcomes[i - Len(labels)] = "Ok"
            BY <1>2, <1>5, <3>4, <3>5, <4>2
          <5>2. pending[i] \in removed
            BY <1>2, <1>5, <3>2, <5>1
          <5>3. QED
            BY <1>11, <5>2
        <4>3. QED
          BY <4>1, <4>2
      <3>6. Len(labels') <= Len(pending) /\ Goto(pc)
        BY <1>1, <1>5, <2>2, <3>4
      <3>7. present' \subseteq present /\ present \ present' \subseteq ToSet(pending)
        BY <1>6, <1>11
      <3>8. QED
        BY <1>1, <2>2, <3>4, <3>5, <3>6, <3>7, BatchKeeps
    <2>3. QED
      BY <1>11, <2>1, <2>2
  <1>12. QED
    BY <1>9, <1>10, <1>11 DEF DeleteChunk, chunk

-----------------------------------------------------------------------------
(* Deletions: the other callers, and every step.                           *)

\* Whatever the others do, certificates stay.
LEMMA ElsewhereKeeps ==
  ASSUME DeletionsInv, NEW now, now \subseteq Keys, present \cap Certificates \subseteq now,
         Elsewhere(now)
  PROVE  DeletionsInv'
  <1> USE DEF Elsewhere
  <1>1. WalkType /\ InWalk /\ InSweep /\ InBatch
    BY DEF DeletionsInv
  <1>2. Floor \in Nat /\ Floor' \in Nat /\ Floor <= Floor'
    BY <1>1, CertificatesStay
  <1>3. WalkType'
    BY <1>1 DEF WalkType
  <1>4. best \in Nat /\ bound \in Nat
    BY <1>1 DEF WalkType
  <1>5. FloorAhead => FloorAhead'
    BY DEF FloorAhead
  <1>6. InWalk'
    BY <1>1, <1>2, <1>4, <1>5 DEF InWalk, Proposed
  <1>7. InSweep'
    BY <1>1, <1>2, <1>4 DEF InSweep
  <1>8. InBatch'
    BY <1>1 DEF InBatch, Witness
  <1>9. QED
    BY <1>3, <1>6, <1>7, <1>8, QuietKeeps DEF DeletionsInv

LEMMA OthersKeep ==
  ASSUME DeletionsInv, NEW k \in Keys,
         CreateElsewhere(k) \/ DeleteElsewhere(k) \/ DestroyElsewhere(k) \/ CertifyElsewhere(k)
  PROVE  DeletionsInv'
  <1>1. present \subseteq Keys
    BY DEF DeletionsInv, WalkType
  <1>2. CASE CreateElsewhere(k)
    BY <1>1, <1>2, ElsewhereKeeps DEF CreateElsewhere
  <1>3. CASE DeleteElsewhere(k)
    <2>1. k \notin Certificates
      BY <1>3 DEF DeleteElsewhere, Reserved, Certificates
    <2>2. QED
      BY <1>1, <1>3, <2>1, ElsewhereKeeps DEF DeleteElsewhere
  <1>4. CASE DestroyElsewhere(k)
    <2> DEFINE now == {j \in present : j # k} \cup
                      {j \in Keys : j.class \in {"tombstone", "incarnation"} /\ j.seq = k.seq}
    <2>1. k \notin Certificates /\ Elsewhere(now)
      BY <1>4 DEF DestroyElsewhere, Certificates
    <2>2. now \subseteq Keys /\ present \cap Certificates \subseteq now
      BY <1>1, <2>1
    <2> HIDE DEF now
    <2>3. QED
      BY <2>1, <2>2, ElsewhereKeeps
  <1>5. CASE CertifyElsewhere(k)
    BY <1>1, <1>5, ElsewhereKeeps DEF CertifyElsewhere
  <1>6. QED
    BY <1>2, <1>3, <1>4, <1>5

LEMMA DeletionsStep == DeletionsInv /\ [Next]_vars => DeletionsInv'
  <1> SUFFICES ASSUME DeletionsInv, [Next]_vars PROVE DeletionsInv'
    OBVIOUS
  <1>1. CASE TrimFloor
    BY <1>1, BeginKeeps DEF TrimFloor, Proposed, DeletionsInv, WalkType
  <1>2. ASSUME NEW c \in Certificates, ProposeTrim(c.seq)
        PROVE  DeletionsInv'
    <2>1. c.seq \in Nat
      BY RankOfKey DEF Certificates, KeyRecords
    <2>2. Proposed'
      BY <1>2 DEF Proposed, ProposeTrim
    <2>3. QED
      BY <1>2, <2>1, <2>2, BeginKeeps DEF ProposeTrim
  <1>3. ASSUME NEW c \in Certificates, DeleteBelow(c.seq)
        PROVE  DeletionsInv'
    <2>1. c.seq \in Nat
      BY RankOfKey DEF Certificates, KeyRecords
    <2>2. Proposed'
      BY <1>3 DEF Proposed, DeleteBelow
    <2>3. QED
      BY <1>3, <2>1, <2>2, BeginKeeps DEF DeleteBelow
  <1>4. CASE FloorPage
    BY <1>4, FloorPageKeeps
  <1>5. CASE Certify
    BY <1>5, CertifyKeeps
  <1>6. CASE SweepPage
    BY <1>6, SweepPageKeeps
  <1>7. CASE Sweep
    BY <1>7, SweepKeeps
  <1>8. CASE DeleteOne
    BY <1>8, DeleteOneKeeps
  <1>9. CASE DeleteChunk
    BY <1>9, DeleteChunkKeeps
  <1>10. ASSUME NEW n \in 0..MaxInput, NEW keys \in [1..n -> Asked],
                DeleteMany(keys) \/ DeleteObjects(keys)
         PROVE  DeletionsInv'
    <2>1. n \in Nat
      BY DeletionAssumption
    <2>2. QED
      BY <1>10, <2>1, AdmittedKeeps DEF DeleteMany, DeleteObjects
  <1>11. ASSUME NEW k \in Keys, CreateElsewhere(k) \/ DeleteElsewhere(k)
                                \/ DestroyElsewhere(k) \/ CertifyElsewhere(k)
         PROVE  DeletionsInv'
    BY <1>11, OthersKeep
  <1>12. CASE UNCHANGED vars
    <2> USE <1>12 DEF vars
    <2>1. WalkType' /\ InBatch'
      BY DEF DeletionsInv, WalkType, InBatch
    <2>2. InWalk' /\ InSweep'
      <3>1. Floor' = Floor
        BY FloorNow
      <3>2. QED
        BY <3>1 DEF DeletionsInv, InWalk, InSweep, Proposed, FloorAhead
    <2>3. FloorIsCurrent' /\ OutcomesAreTrue'
      BY DEF DeletionsInv, FloorIsCurrent, OutcomesAreTrue
    <2>4. QED
      BY <2>1, <2>2, <2>3 DEF DeletionsInv
  <1>13. QED
    BY <1>1, <1>2, <1>3, <1>4, <1>5, <1>6, <1>7, <1>8, <1>9, <1>10, <1>11, <1>12 DEF Next

LEMMA DeletionsInvariant == Spec => []DeletionsInv
  BY DeletionsInit, DeletionsStep, PTL DEF Spec

\* For any keys, in any byte order in which certificates are together, and any page
\* size: a floor that trim_floor, propose_trim or delete_below reads page by page is
\* no lower than the one certified when its walk began.
THEOREM FloorRead_IsCurrent == Spec => []FloorIsCurrent
  BY DeletionsInvariant, PTL DEF DeletionsInv

\* Whatever the store answers to a batched delete, request by request, an outcome
\* that says a key is deleted is about a key that was gone during the call.
THEOREM BatchOutcomes_AreTrue == Spec => []OutcomesAreTrue
  BY DeletionsInvariant, PTL DEF DeletionsInv

\* A certified sweep deletes data, tombstones and counters below the floor, and
\* nothing else, while certificates, data and destructions go on around it.
THEOREM Sweeps_DeleteOnlyExpired == Spec => SweepsOnlyExpired
  <1>1. ASSUME DeletionsInv, pc = "sweep", pending' # pending, [Next]_vars,
               NEW k \in present \ present'
        PROVE  k.class \in {"data", "tombstone", "incarnation"} /\ k.seq \in 1..Floor - 1
    <2>1. CASE Sweep
      <3>1. k = Head(pending) /\ pending # <<>>
        BY <1>1, <2>1 DEF Sweep
      <3>2. k.class \in Swept /\ k.seq \in 1..bound - 1
        BY <1>1, <3>1, SweepHead
      <3>3. bound <= Floor /\ bound \in Nat /\ Floor \in Nat
        BY <1>1, FloorNow, FloorIsLargest DEF DeletionsInv, InSweep, WalkType
      <3>4. QED
        BY <3>2, <3>3 DEF Swept
    <2>2. CASE ~ Sweep
      BY <1>1, <2>2
        DEF Next, vars, TrimFloor, FloorPage, Certify, SweepPage, DeleteOne, DeleteChunk,
            ProposeTrim, DeleteBelow, DeleteMany, DeleteObjects, CreateElsewhere,
            DeleteElsewhere, DestroyElsewhere, CertifyElsewhere, Elsewhere
    <2>3. QED
      BY <2>1, <2>2
  <1>2. DeletionsInv /\ [Next]_vars =>
          (pc = "sweep" /\ pending' # pending =>
             \A k \in present \ present' :
               k.class \in {"data", "tombstone", "incarnation"} /\ k.seq \in 1..Floor - 1)
    BY <1>1
  <1>3. QED
    BY <1>2, DeletionsInvariant, PTL DEF Spec, SweepsOnlyExpired

-----------------------------------------------------------------------------
(* RetryLoop.                                                              *)

\* Where each request of a call is in the count of its attempts.
RetryInv ==
  /\ call \in {"idle", "send", "wait", "done"}
  /\ attempt \in Nat
  /\ failures \in Seq(Transport \cup Statuses)
  /\ call = "idle" => failures = <<>> /\ ~ didRetry
  /\ call # "done" => outcome = None
  /\ call \in {"send", "wait"} =>
       /\ config \in Configs
       /\ \A i \in 1..Len(failures) : failures[i] \in config.predicate
  /\ call = "send" =>
       /\ attempt = Len(failures) + 1 /\ attempt <= config.strategy.retries + 1
       /\ didRetry <=> attempt > 1
  /\ call = "wait" =>
       attempt > 0 /\ attempt = Len(failures) /\ attempt <= config.strategy.retries
  /\ OutcomeIsTrue

LEMMA RetriesAreNumbers ==
  \A c \in Configs : c.strategy.retries \in Nat
  BY RetryAssumption DEF Configs

\* A strategy that waits once more has a retry left.
LEMMA WaitsWithin ==
  ASSUME NEW s, NEW n, NEW d \in DelayForAttempt(s, n), d # None
  PROVE  ~ (n > s.retries)
  BY Zenon DEF DelayForAttempt

LEMMA CallBegins ==
  ASSUME RetryInv, NEW k, Begin(k)
  PROVE  RetryInv'
  <1> USE DEF Begin, RetryInv
  <1>1. failures = <<>> /\ Len(failures) = 0 /\ ~ didRetry /\ outcome = None
    OBVIOUS
  <1>2. config' \in Configs /\ config'.strategy.retries \in Nat
    BY RetriesAreNumbers
  <1>3. OutcomeIsTrue'
    BY <1>1 DEF OutcomeIsTrue
  <1>4. QED
    BY <1>1, <1>2, <1>3

LEMMA CallSucceeds == RetryInv /\ Succeed => RetryInv'
  <1> SUFFICES ASSUME RetryInv, Succeed PROVE RetryInv'
    OBVIOUS
  <1> USE DEF Succeed, Finish
  <1>1. /\ attempt = Len(failures) + 1 /\ attempt <= config.strategy.retries + 1
        /\ \A i \in 1..Len(failures) : failures[i] \in config.predicate
        /\ failures \in Seq(Transport \cup Statuses) /\ attempt \in Nat
    BY DEF RetryInv
  <1>2. OutcomeIsTrue'
    BY <1>1 DEF OutcomeIsTrue
  <1>3. QED
    BY <1>1, <1>2 DEF RetryInv

LEMMA CallFails == \A f \in Failures : RetryInv /\ FailAttempt(f) => RetryInv'
  <1> SUFFICES ASSUME NEW f \in Failures, RetryInv, FailAttempt(f) PROVE RetryInv'
    OBVIOUS
  <1> DEFINE s == config.strategy
  <1>1. /\ call = "send" /\ attempt \in Nat
        /\ attempt = Len(failures) + 1 /\ attempt <= s.retries + 1
        /\ \A i \in 1..Len(failures) : failures[i] \in config.predicate
        /\ failures \in Seq(Transport \cup Statuses)
        /\ didRetry <=> attempt > 1
        /\ config \in Configs /\ outcome = None
    BY DEF RetryInv, FailAttempt
  <1>2. s.retries \in Nat
    BY <1>1, RetriesAreNumbers
  <1>3. f.kind \in Transport \cup Statuses
    BY DEF Failures
  <1>4. /\ failures' \in Seq(Transport \cup Statuses) /\ Len(failures') = attempt
        /\ \A i \in 1..Len(failures) : failures'[i] = failures[i]
        /\ failures'[attempt] = f.kind
    <2>1. failures' = Append(failures, f.kind)
      BY DEF FailAttempt
    <2>2. QED
      BY <1>1, <1>3, <2>1
  <1>5. ASSUME NEW o, Finish(o), o.is \in {"error", "exhausted"}, o.error = f.kind,
               o.is = "error" => attempt = 1 \/ f.kind \notin config.predicate,
               o.is = "exhausted" =>
                 attempt > 1 /\ o.attempts = attempt /\ f.kind \in config.predicate
        PROVE  RetryInv'
    <2>1. /\ call' = "done" /\ outcome' = o
          /\ UNCHANGED <<config, kind, attempt, didRetry, delay>>
      BY <1>5 DEF Finish
    <2>2. DOMAIN failures' = 1..attempt
      BY <1>4
    <2>3. \A i \in DOMAIN failures' : i < attempt => failures'[i] \in config.predicate
      BY <1>1, <1>4, <2>2
    <2>4. OutcomeIsTrue'
      BY <1>1, <1>4, <1>5, <2>1, <2>3 DEF OutcomeIsTrue, Last
    <2>5. QED
      BY <1>1, <1>4, <2>1, <2>4 DEF RetryInv
  <1>6. CASE f.kind \notin config.predicate
    <2> DEFINE o == [is |-> "error", error |-> f.kind]
    <2>1. Finish(o)
      BY <1>6 DEF FailAttempt
    <2>2. o.is = "error" /\ o.error = f.kind
      OBVIOUS
    <2> HIDE DEF o
    <2>3. QED
      BY <1>5, <1>6, <2>1, <2>2
  <1>7. CASE f.kind \in config.predicate
    <2>1. PICK d \in DelayForAttempt(s, attempt) :
            \/ d = None /\ ~ didRetry /\ Finish([is |-> "error", error |-> f.kind])
            \/ /\ d = None /\ didRetry
               /\ Finish([is |-> "exhausted", attempts |-> attempt, error |-> f.kind])
            \/ d # None /\ call' = "wait" /\ UNCHANGED <<config, kind, attempt, didRetry, outcome>>
      BY <1>7 DEF FailAttempt
    <2>2. CASE ~ didRetry /\ Finish([is |-> "error", error |-> f.kind])
      <3> DEFINE o == [is |-> "error", error |-> f.kind]
      <3>1. o.is = "error" /\ o.error = f.kind /\ Finish(o)
        BY <2>2
      <3> HIDE DEF o
      <3>2. attempt = 1
        BY <1>1, <2>2
      <3>3. QED
        BY <1>5, <3>1, <3>2
    <2>3. CASE didRetry /\ Finish([is |-> "exhausted", attempts |-> attempt, error |-> f.kind])
      <3> DEFINE o == [is |-> "exhausted", attempts |-> attempt, error |-> f.kind]
      <3>1. o.is = "exhausted" /\ o.error = f.kind /\ o.attempts = attempt /\ Finish(o)
        BY <2>3
      <3> HIDE DEF o
      <3>2. attempt > 1
        BY <1>1, <2>3
      <3>3. QED
        BY <1>5, <1>7, <3>1, <3>2
    <2>4. CASE d # None /\ call' = "wait" /\ UNCHANGED <<config, kind, attempt, didRetry, outcome>>
      <3>1. ~ (attempt > s.retries)
        BY <2>4, WaitsWithin
      <3>2. attempt <= s.retries
        BY <1>1, <1>2, <3>1
      <3>3. \A i \in 1..Len(failures') : failures'[i] \in config.predicate
        BY <1>1, <1>4, <1>7
      <3>4. OutcomeIsTrue'
        BY <1>1, <2>4 DEF OutcomeIsTrue
      <3>5. QED
        BY <1>1, <1>4, <2>4, <3>2, <3>3, <3>4 DEF RetryInv
    <2>5. QED
      BY <2>1, <2>2, <2>3, <2>4
  <1>8. QED
    BY <1>6, <1>7

LEMMA RetryStep == RetryInv /\ [CallNext]_callVars => RetryInv'
  <1> SUFFICES ASSUME RetryInv, [CallNext]_callVars PROVE RetryInv'
    OBVIOUS
  <1>1. CASE CallJson \/ CallBytes \/ ExecuteStarted
    BY <1>1, CallBegins DEF CallJson, CallBytes, ExecuteStarted
  <1>2. CASE Succeed
    BY <1>2, CallSucceeds
  <1>3. ASSUME NEW f \in Failures, FailAttempt(f)
        PROVE  RetryInv'
    BY <1>3, CallFails
  <1>4. CASE Wake
    <2> USE <1>4 DEF Wake
    <2>1. /\ attempt \in Nat /\ attempt = Len(failures) /\ attempt <= config.strategy.retries
          /\ failures \in Seq(Transport \cup Statuses)
          /\ config \in Configs /\ outcome = None
          /\ \A i \in 1..Len(failures) : failures[i] \in config.predicate
      BY DEF RetryInv
    <2>2. attempt >= 1 /\ config.strategy.retries \in Nat
      BY <2>1, RetriesAreNumbers DEF RetryInv
    <2>3. OutcomeIsTrue'
      BY <2>1 DEF OutcomeIsTrue
    <2>4. QED
      BY <2>1, <2>2, <2>3 DEF RetryInv
  <1>5. CASE Collect
    <2>1. OutcomeIsTrue'
      BY <1>5 DEF Collect, OutcomeIsTrue
    <2>2. QED
      BY <1>5, <2>1 DEF Collect, RetryInv
  <1>6. CASE UNCHANGED callVars
    BY <1>6 DEF callVars, RetryInv, OutcomeIsTrue
  <1>7. QED
    BY <1>1, <1>2, <1>3, <1>4, <1>5, <1>6 DEF CallNext, Attempt

\* For any strategies, predicates and headers: what a call of the SDK core's client
\* returns is the truth about its attempts, and it makes no more than the strategy
\* allows.
THEOREM CallOutcome_IsTrue == CallSpec => []OutcomeIsTrue
  <1>1. CallInit => RetryInv
    BY DEF CallInit, RetryInv, OutcomeIsTrue
  <1>2. RetryInv => OutcomeIsTrue
    BY DEF RetryInv
  <1>3. QED
    BY <1>1, <1>2, RetryStep, PTL DEF CallSpec

-----------------------------------------------------------------------------
(* Sequences of sequences: what FlattenSeq makes of them.                  *)

\* f[i] is the first i sequences of ps, one behind the other.
Joins(f, ps, n) == f = [i \in 1..n |-> IF i = 1 THEN ps[i] ELSE f[i - 1] \o ps[i]]

LEMMA JoinsAt ==
  ASSUME NEW f, NEW ps, NEW n, Joins(f, ps, n), NEW i \in 1..n
  PROVE  f[i] = IF i = 1 THEN ps[i] ELSE f[i - 1] \o ps[i]
  BY DEF Joins

LEMMA JoinsExists ==
  ASSUME NEW ps
  PROVE  \A n \in Nat : \E f : Joins(f, ps, n)
  <1> DEFINE Bad == {n \in Nat : ~ \E f : Joins(f, ps, n)}
  <1>1. SUFFICES ASSUME Bad # {} PROVE FALSE
    OBVIOUS
  <1>2. PICK n \in Bad : \A m \in Bad : n <= m
    BY <1>1, LeastNumber
  <1>3. n \in Nat /\ ~ \E f : Joins(f, ps, n)
    BY <1>2
  <1>4. CASE n = 0
    <2> DEFINE f == [i \in 1..0 |-> <<>>]
    <2>1. Joins(f, ps, 0)
      BY DEF Joins
    <2>2. QED
      BY <1>3, <1>4, <2>1
  <1>5. CASE n # 0
    <2>1. n - 1 \in Nat /\ n - 1 \notin Bad
      BY <1>2, <1>5
    <2>2. PICK g : Joins(g, ps, n - 1)
      BY <2>1
    <2> DEFINE f == [i \in 1..n |-> IF i < n THEN g[i]
                                    ELSE IF n = 1 THEN ps[n] ELSE g[n - 1] \o ps[n]]
    <2>3. \A i \in 1..n - 1 : g[i] = IF i = 1 THEN ps[i] ELSE g[i - 1] \o ps[i]
      BY <2>2 DEF Joins
    <2>4. \A i \in 1..n : f[i] = IF i = 1 THEN ps[i] ELSE f[i - 1] \o ps[i]
      <3>1. ASSUME NEW i \in 1..n
            PROVE  f[i] = IF i = 1 THEN ps[i] ELSE f[i - 1] \o ps[i]
        <4>1. CASE i < n
          <5>1. f[i] = g[i] /\ (i # 1 => f[i - 1] = g[i - 1])
            BY <1>3, <4>1
          <5>2. QED
            BY <1>3, <2>3, <4>1, <5>1
        <4>2. CASE i = n
          <5>1. f[i] = (IF n = 1 THEN ps[n] ELSE g[n - 1] \o ps[n]) /\ (i # 1 => f[i - 1] = g[n - 1])
            BY <1>3, <1>5, <4>2
          <5>2. QED
            BY <4>2, <5>1
        <4>3. QED
          BY <1>3, <4>1, <4>2
      <3>2. QED
        BY <3>1
    <2>5. Joins(f, ps, n)
      <3>1. f = [i \in 1..n |-> f[i]]
        OBVIOUS
      <3> HIDE DEF f
      <3>2. QED
        BY <2>4, <3>1 DEF Joins
    <2>6. QED
      BY <1>3, <2>5
  <1>6. QED
    BY <1>4, <1>5

\* Where two sequences of sequences agree, so do their joins.
LEMMA JoinsAgree ==
  ASSUME NEW ps, NEW qs, NEW n \in Nat, NEW m \in Nat, n <= m,
         NEW f, Joins(f, ps, n), NEW g, Joins(g, qs, m),
         \A i \in 1..n : ps[i] = qs[i]
  PROVE  \A i \in 1..n : f[i] = g[i]
  <1> DEFINE Bad == {i \in 1..n : f[i] # g[i]}
  <1>1. SUFFICES ASSUME Bad # {} PROVE FALSE
    OBVIOUS
  <1>2. Bad \subseteq Nat
    OBVIOUS
  <1>3. PICK i \in Bad : \A j \in Bad : i <= j
    BY <1>1, <1>2, LeastNumber
  <1>4. f[i] = (IF i = 1 THEN ps[i] ELSE f[i - 1] \o ps[i])
    BY <1>3, JoinsAt
  <1>5. g[i] = (IF i = 1 THEN qs[i] ELSE g[i - 1] \o qs[i])
    <2>1. i \in 1..m
      BY <1>3
    <2>2. QED
      BY <2>1, JoinsAt
  <1>6. i # 1 => f[i - 1] = g[i - 1]
    BY <1>3
  <1>7. QED
    BY <1>3, <1>4, <1>5, <1>6

\* FlattenSeq is the join of all of them.
LEMMA FlattenIsJoin ==
  ASSUME NEW ps, Len(ps) \in Nat \ {0}
  PROVE  \E f : Joins(f, ps, Len(ps)) /\ FlattenSeq(ps) = f[Len(ps)]
  <1>1. \E f : Joins(f, ps, Len(ps))
    BY JoinsExists
  <1>2. QED
    BY <1>1 DEF FlattenSeq, Joins

LEMMA FlattenEmpty == FlattenSeq(<<>>) = <<>>
  BY DEF FlattenSeq

\* One sequence more comes behind the others.
LEMMA FlattenAppend ==
  ASSUME NEW S, NEW ps \in Seq(Seq(S)), NEW p \in Seq(S)
  PROVE  FlattenSeq(Append(ps, p)) = FlattenSeq(ps) \o p
  <1> DEFINE n == Len(ps)
             qs == Append(ps, p)
  <1>1. n \in Nat /\ Len(qs) = n + 1 /\ qs[n + 1] = p /\ \A i \in 1..n : ps[i] = qs[i]
    BY AppendProperties
  <1> HIDE DEF qs
  <1>2. PICK g : Joins(g, qs, n + 1) /\ FlattenSeq(qs) = g[n + 1]
    BY <1>1, FlattenIsJoin
  <1>3. g[n + 1] = IF n + 1 = 1 THEN qs[n + 1] ELSE g[n] \o qs[n + 1]
    <2>1. n + 1 \in 1..n + 1 /\ n + 1 - 1 = n
      BY <1>1
    <2>2. g[n + 1] = IF n + 1 = 1 THEN qs[n + 1] ELSE g[n + 1 - 1] \o qs[n + 1]
      BY <1>2, <2>1, JoinsAt
    <2>3. QED
      BY <2>1, <2>2
  <1>4. CASE n = 0
    <2>1. ps = <<>>
      BY <1>4, EmptySeq
    <2>2. FlattenSeq(ps) = <<>> /\ <<>> \o p = p
      BY <2>1, FlattenEmpty, ConcatEmptySeq
    <2>3. QED
      BY <1>1, <1>2, <1>3, <1>4, <2>2 DEF qs
  <1>5. CASE n # 0
    <2>1. PICK f : Joins(f, ps, n) /\ FlattenSeq(ps) = f[n]
      BY <1>1, <1>5, FlattenIsJoin
    <2>2. f[n] = g[n]
      <3>1. \A i \in 1..n : f[i] = g[i]
        <4>1. n + 1 \in Nat /\ n <= n + 1
          BY <1>1
        <4>2. Joins(g, qs, n + 1) /\ Joins(f, ps, n) /\ \A i \in 1..n : ps[i] = qs[i]
          BY <1>1, <1>2, <2>1
        <4> HIDE DEF n
        <4>3. QED
          BY <1>1, <4>1, <4>2, JoinsAgree, SMTT(30)
      <3>2. QED
        BY <1>1, <1>5, <3>1
    <2>3. QED
      BY <1>1, <1>2, <1>3, <1>5, <2>1, <2>2 DEF qs
  <1>6. QED
    BY <1>4, <1>5

\* Sequences that are the pieces of one sequence, in order and without a gap, join to
\* what they are pieces of.
LEMMA FlattenPieces ==
  ASSUME NEW S, NEW s \in Seq(S), NEW n \in Nat, NEW cut \in [0..n -> 0..Len(s)],
         cut[0] = 0, \A i \in 1..n : cut[i - 1] <= cut[i],
         NEW ps, Len(ps) = n, n # 0,
         \A i \in 1..n : ps[i] = SubSeq(s, cut[i - 1] + 1, cut[i])
  PROVE  FlattenSeq(ps) = SubSeq(s, 1, cut[n])
  <1>1. PICK f : Joins(f, ps, n) /\ FlattenSeq(ps) = f[n]
    BY FlattenIsJoin
  <1> DEFINE Bad == {i \in 1..n : f[i] # SubSeq(s, 1, cut[i])}
  <1>2. SUFFICES ASSUME Bad # {} PROVE FALSE
    <2>1. n \in 1..n
      OBVIOUS
    <2>2. QED
      BY <1>1, <2>1
  <1>3. Bad \subseteq Nat
    OBVIOUS
  <1>4. PICK i \in Bad : \A j \in Bad : i <= j
    BY <1>2, <1>3, LeastNumber
  <1>5. /\ i \in 1..n /\ f[i] # SubSeq(s, 1, cut[i])
        /\ f[i] = (IF i = 1 THEN ps[i] ELSE f[i - 1] \o ps[i])
    <2>1. i \in 1..n
      BY <1>4
    <2>2. QED
      BY <1>1, <1>4, <2>1, JoinsAt
  <1>6. ps[i] = SubSeq(s, cut[i - 1] + 1, cut[i])
    BY <1>5
  <1>7. CASE i = 1
    <2>1. cut[i - 1] + 1 = 1
      BY <1>7
    <2>2. QED
      BY <1>5, <1>6, <1>7, <2>1
  <1>8. CASE i # 1
    <2>1. i - 1 \in 1..n /\ i - 1 \notin Bad
      <3>1. i - 1 \in 1..n /\ ~ (i <= i - 1)
        BY <1>5, <1>8
      <3>2. QED
        BY <1>4, <3>1
    <2>2. f[i - 1] = SubSeq(s, 1, cut[i - 1])
      BY <2>1
    <2>3. Len(s) \in Nat /\ cut[i - 1] \in 0..Len(s) /\ cut[i] \in cut[i - 1]..Len(s)
      <3>1. Len(s) \in Nat /\ i - 1 \in 0..n /\ i \in 0..n
        BY <1>5, <2>1
      <3>2. cut[i - 1] \in 0..Len(s) /\ cut[i] \in 0..Len(s) /\ cut[i - 1] <= cut[i]
        BY <1>5, <3>1
      <3>3. QED
        BY <3>1, <3>2
    <2>4. SubSeq(s, 1, cut[i - 1]) \o SubSeq(s, cut[i - 1] + 1, cut[i]) = SubSeq(s, 1, cut[i])
      <3> DEFINE k == cut[i - 1]
                 l == cut[i]
      <3>1. k \in 1 - 1..Len(s) /\ l \in k..Len(s) /\ 1 \in 1..Len(s) + 1
        BY <2>3
      <3> HIDE DEF k, l
      <3>2. SubSeq(s, 1, k) \o SubSeq(s, k + 1, l) = SubSeq(s, 1, l)
        BY <3>1, ConcatAdjacentSubSeq
      <3>3. QED
        BY <3>2 DEF k, l
    <2>5. QED
      BY <1>4, <1>5, <1>6, <1>8, <2>2, <2>4
  <1>9. QED
    BY <1>7, <1>8

\* ps are the pieces of s up to each cut in turn.
CutsInto(s, n, cut, ps) ==
  /\ cut \in [0..n -> 0..Len(s)]
  /\ cut[0] = 0
  /\ \A i \in 1..n : cut[i - 1] <= cut[i]
  /\ Len(ps) = n /\ n # 0
  /\ \A i \in 1..n : ps[i] = SubSeq(s, cut[i - 1] + 1, cut[i])

LEMMA PiecesJoined ==
  ASSUME NEW S, NEW s \in Seq(S), NEW n \in Nat, NEW cut, NEW ps, CutsInto(s, n, cut, ps)
  PROVE  FlattenSeq(ps) = SubSeq(s, 1, cut[n])
  <1>1. cut \in [0..n -> 0..Len(s)] /\ cut[0] = 0 /\ Len(ps) = n /\ n # 0
    BY DEF CutsInto
  <1>2. \A i \in 1..n : cut[i - 1] <= cut[i]
    BY DEF CutsInto
  <1>3. \A i \in 1..n : ps[i] = SubSeq(s, cut[i - 1] + 1, cut[i])
    BY DEF CutsInto
  <1>4. QED
    BY <1>1, <1>2, <1>3, FlattenPieces

-----------------------------------------------------------------------------
(* ObjectClient: where an upload is in its content.                        *)

Units == Uploaders \X Nat

LEMMA JoinAssociative ==
  \A r, s, t \in Seq(Units) : (r \o s) \o t = r \o (s \o t)
  <1> SUFFICES ASSUME NEW r \in Seq(Units), NEW s \in Seq(Units), NEW t \in Seq(Units)
               PROVE  (r \o s) \o t = r \o (s \o t)
    OBVIOUS
  <1>1. QED
    BY ConcatAssociative

LEMMA ContentIs ==
  ASSUME NEW u \in Uploaders
  PROVE  Content(u) \in Seq(Units) /\ Len(Content(u)) = Size[u] /\ Size[u] \in Nat
  <1>1. Size[u] \in Nat
    BY ClientAssumption
  <1>2. Content(u) \in [1..Size[u] -> Units]
    BY <1>1 DEF Content, Units
  <1>3. Content(u) \in Seq(Units)
    BY <1>1, <1>2, SeqDef
  <1>4. QED
    BY <1>1, <1>2, <1>3

\* What a streaming upload has sent and what it still holds are what it has read.
Streaming(u, ph, ps, b, n) ==
  /\ ps \in Seq(Seq(Units)) /\ FlattenSeq(ps) \in Seq(Units)
  /\ n <= Size[u]
  /\ FlattenSeq(ps) \o b = SubSeq(Content(u), 1, n)
  /\ ph = "part" => Len(b) >= PartSize
  /\ ph \in {"last", "complete"} => n = Size[u]
  /\ ph = "complete" => b = <<>>

\* A caller-driven upload has each of its parts at most once.
Presigned(u, ps) ==
  /\ ps \in Seq([number : Parts(u), data : Seq(Units)])
  /\ \A k \in 1..Len(ps) : ps[k].data = PartOf(u, ps[k].number)
  /\ \A k, l \in 1..Len(ps) : ps[k].number = ps[l].number => k = l

Uploading(u, ph, ps, b, n) ==
  /\ b \in Seq(Units) /\ n \in Nat
  /\ ph = "idle" => b = <<>> /\ n = 0
  /\ ph \in {"read", "part", "last", "complete"} => Streaming(u, ph, ps, b, n)
  /\ ph = "parts" /\ ps # Nothing => Presigned(u, ps)

\* b is what some uploader put there, P being those that left parts out.
Put(b, P) ==
  \E u \in Uploaders : b = Content(u) \/ (u \in P /\ b \in Assembled(u))

\* A download reads what one uploader put there.
Downloading(r, P) ==
  \E n \in Nat : \E b : Put(b, P) /\ r = [body |-> b, got |-> n]

ClientInv ==
  /\ DOMAIN phase = Uploaders /\ DOMAIN uploads = Uploaders
  /\ DOMAIN buf = Uploaders /\ DOMAIN taken = Uploaders
  /\ \A u \in Uploaders : Uploading(u, phase[u], uploads[u], buf[u], taken[u])
  /\ reading # Nothing => Downloading(reading, partial)
  /\ WholeOrNothing
  /\ NothingLeftOpen

LEMMA ClientInit == StoreInit => ClientInv
  <1> SUFFICES ASSUME StoreInit PROVE ClientInv
    OBVIOUS
  <1> USE DEF StoreInit
  <1>1. \A u \in Uploaders : Uploading(u, phase[u], uploads[u], buf[u], taken[u])
    BY DEF Uploading
  <1>2. WholeOrNothing /\ NothingLeftOpen
    BY DEF WholeOrNothing, NothingLeftOpen
  <1>3. QED
    BY <1>1, <1>2 DEF ClientInv

\* What the primed invariant says.
LEMMA ClientInvNext ==
  ASSUME DOMAIN phase' = Uploaders, DOMAIN uploads' = Uploaders,
         DOMAIN buf' = Uploaders, DOMAIN taken' = Uploaders,
         \A u \in Uploaders : Uploading(u, phase'[u], uploads'[u], buf'[u], taken'[u]),
         reading' # Nothing => Downloading(reading', partial'),
         object' # Nothing => Put(object', partial'),
         copy' # Nothing => Put(copy', partial'),
         NothingLeftOpen'
  PROVE  ClientInv'
  <1>1. WholeOrNothing'
    BY DEF WholeOrNothing, FromUploader, Put, Assembled, Content, Ascending, Parts, PartOf
  <1>2. (reading # Nothing => Downloading(reading, partial))'
    BY DEF Downloading, Put, Assembled, Content, Ascending, Parts, PartOf
  <1>3. (\A u \in Uploaders : Uploading(u, phase[u], uploads[u], buf[u], taken[u]))'
    BY DEF Uploading, Streaming, Presigned, Content, Parts, PartOf
  <1>4. QED
    BY <1>1, <1>2, <1>3 DEF ClientInv

LEMMA WholeIs ==
  ASSUME ClientInv
  PROVE  /\ object # Nothing => Put(object, partial)
         /\ copy # Nothing => Put(copy, partial)
         /\ reading # Nothing => Downloading(reading, partial)
  BY DEF ClientInv, WholeOrNothing, FromUploader, Put

\* What was put there stays what some uploader put.
LEMMA PutStays ==
  ASSUME NEW P, NEW Q, P \subseteq Q
  PROVE  /\ \A b : Put(b, P) => Put(b, Q)
         /\ \A r : Downloading(r, P) => Downloading(r, Q)
  BY DEF Put, Downloading

\* One uploader's step.
LEMMA UploaderSteps ==
  ASSUME ClientInv, NEW u \in Uploaders,
         DOMAIN phase' = Uploaders, DOMAIN uploads' = Uploaders,
         DOMAIN buf' = Uploaders, DOMAIN taken' = Uploaders,
         \A v \in Uploaders \ {u} : /\ phase'[v] = phase[v] /\ uploads'[v] = uploads[v]
                                    /\ buf'[v] = buf[v] /\ taken'[v] = taken[v],
         Uploading(u, phase'[u], uploads'[u], buf'[u], taken'[u]),
         abandoned \subseteq abandoned', unanswered \subseteq unanswered',
         partial \subseteq partial',
         phase'[u] = "idle" /\ uploads'[u] # Nothing =>
           u \in abandoned' \/ (u \in unanswered' /\ uploads'[u] = <<>>),
         object' # Nothing => object' = object \/ Put(object', partial'),
         UNCHANGED <<reading, copy>>
  PROVE  ClientInv'
  <1>1. \A v \in Uploaders : Uploading(v, phase'[v], uploads'[v], buf'[v], taken'[v])
    BY DEF ClientInv
  <1>2. /\ object' # Nothing => Put(object', partial')
        /\ copy' # Nothing => Put(copy', partial')
        /\ reading' # Nothing => Downloading(reading', partial')
    BY WholeIs, PutStays
  <1>3. NothingLeftOpen'
    BY DEF ClientInv, NothingLeftOpen
  <1>4. QED
    BY <1>1, <1>2, <1>3, ClientInvNext

\* A step that leaves the uploader in a phase that promises nothing.
LEMMA NothingPromised ==
  \A u \in Uploaders : \A ps : \A b \in Seq(Units) : \A n \in Nat : Uploading(u, "abort", ps, b, n)
  BY DEF Uploading

LEMMA IdleUploading ==
  \A u \in Uploaders : \A ps : Uploading(u, "idle", ps, <<>>, 0)
  BY EmptySeq DEF Uploading

LEMMA BeginsUpload ==
  ASSUME NEW u \in Uploaders, ClientInv, UploadStream(u) \/ InitiateMultipartUpload(u)
  PROVE  ClientInv'
  <1>0. PICK p \in {"read", "parts"} : Create(u, p)
    BY DEF UploadStream, InitiateMultipartUpload
  <1>1. DOMAIN phase = Uploaders /\ DOMAIN uploads = Uploaders
        /\ DOMAIN buf = Uploaders /\ DOMAIN taken = Uploaders
        /\ Uploading(u, "idle", uploads[u], buf[u], taken[u])
    BY <1>0 DEF ClientInv, Create
  <1>2. buf[u] = <<>> /\ taken[u] = 0
    BY <1>1 DEF Uploading
  <1>3. /\ <<>> \in Seq(Seq(Units)) /\ <<>> \in Seq(Units) /\ <<>> \o <<>> = <<>>
        /\ <<>> \in Seq([number : Parts(u), data : Seq(Units)]) /\ Len(<<>>) = 0
    BY EmptySeq, ConcatEmptySeq
  <1>4. SubSeq(Content(u), 1, 0) = <<>>
    BY SubSeqEmpty
  <1>5. Streaming(u, "read", <<>>, <<>>, 0)
    <2>1. FlattenSeq(<<>>) \in Seq(Units) /\ FlattenSeq(<<>>) \o <<>> = SubSeq(Content(u), 1, 0)
      BY <1>3, <1>4, FlattenEmpty
    <2>2. 0 <= Size[u]
      BY ContentIs
    <2>3. QED
      BY <1>3, <2>1, <2>2 DEF Streaming
  <1>6. Presigned(u, <<>>)
    BY <1>3 DEF Presigned
  <1>7. Uploading(u, "read", <<>>, <<>>, 0) /\ Uploading(u, "parts", <<>>, <<>>, 0)
    BY <1>3, <1>5, <1>6 DEF Uploading
  <1>8. /\ uploads'[u] = <<>> /\ buf'[u] = <<>> /\ taken'[u] = 0
        /\ DOMAIN phase' = Uploaders /\ DOMAIN uploads' = Uploaders
        /\ DOMAIN buf' = Uploaders /\ DOMAIN taken' = Uploaders
        /\ \A v \in Uploaders \ {u} : /\ phase'[v] = phase[v] /\ uploads'[v] = uploads[v]
                                      /\ buf'[v] = buf[v] /\ taken'[v] = taken[v]
        /\ UNCHANGED <<object, reading, copy, abandoned, partial>>
        /\ unanswered \subseteq unanswered'
        /\ phase'[u] = p \/ (phase'[u] = "idle" /\ u \in unanswered')
    BY <1>0, <1>1, <1>2 DEF Create, Go
  <1>9. Uploading(u, phase'[u], uploads'[u], buf'[u], taken'[u])
    BY <1>7, <1>8, IdleUploading
  <1>10. QED
    BY <1>8, <1>9, UploaderSteps

LEMMA ReadsChunk ==
  ASSUME NEW u \in Uploaders, ClientInv, NEW n \in 1..Size[u], ReadChunk(u, n)
  PROVE  ClientInv'
  <1> DEFINE more == SubSeq(Content(u), taken[u] + 1, taken[u] + n)
             b == buf[u] \o more
             ph == IF Len(b) >= PartSize THEN "part" ELSE "read"
             sent == FlattenSeq(uploads[u])
  <1>1. /\ DOMAIN phase = Uploaders /\ DOMAIN buf = Uploaders /\ DOMAIN taken = Uploaders
        /\ DOMAIN uploads = Uploaders
        /\ Uploading(u, phase[u], uploads[u], buf[u], taken[u])
    BY DEF ClientInv
  <1>2. /\ phase[u] = "read" /\ taken[u] + n <= Size[u]
        /\ buf' = [buf EXCEPT ![u] = b] /\ taken' = [taken EXCEPT ![u] = @ + n]
        /\ phase' = [phase EXCEPT ![u] = ph]
        /\ UNCHANGED <<object, uploads, reading, copy, abandoned, unanswered, partial>>
    BY DEF ReadChunk, Go, history
  <1>3. Streaming(u, "read", uploads[u], buf[u], taken[u]) /\ buf[u] \in Seq(Units) /\ taken[u] \in Nat
    BY <1>1, <1>2 DEF Uploading
  <1>4. Content(u) \in Seq(Units) /\ Len(Content(u)) = Size[u] /\ Size[u] \in Nat
    BY ContentIs
  <1>5. more \in Seq(Units)
    <2>1. \A i \in taken[u] + 1..taken[u] + n : Content(u)[i] \in Units
      <3>1. ASSUME NEW i \in taken[u] + 1..taken[u] + n
            PROVE  Content(u)[i] \in Units
        <4>1. i \in 1..Len(Content(u))
          <5>1. taken[u] \in Nat /\ n \in Nat /\ Size[u] \in Nat /\ taken[u] + n <= Size[u]
            BY <1>2, <1>3, <1>4
          <5>2. i \in 1..Size[u]
            BY <5>1
          <5>3. QED
            BY <1>4, <5>2
        <4>2. QED
          BY <1>4, <4>1, ElementOfSeq
      <3>2. QED
        BY <3>1
    <2>2. taken[u] + 1 \in Int /\ taken[u] + n \in Int
      BY <1>3, <1>4
    <2>3. QED
      BY <2>1, <2>2, SubSeqProperties
  <1> HIDE DEF more
  <1>6. b \in Seq(Units)
    BY <1>3, <1>5, ConcatProperties
  <1>7. sent \o b = SubSeq(Content(u), 1, taken[u] + n)
    <2>1. sent \in Seq(Units) /\ sent \o buf[u] = SubSeq(Content(u), 1, taken[u])
      BY <1>3 DEF Streaming
    <2> HIDE DEF sent
    <2>2. sent \o b = (sent \o buf[u]) \o more
      <3>1. (sent \o buf[u]) \o more = sent \o (buf[u] \o more)
        <4>1. sent \in Seq(Units) /\ buf[u] \in Seq(Units) /\ more \in Seq(Units)
          BY <1>3, <1>5, <2>1
        <4>2. QED
          BY <4>1, JoinAssociative, Zenon
      <3>2. QED
        BY <3>1, Zenon
    <2>3. SubSeq(Content(u), 1, taken[u]) \o more = SubSeq(Content(u), 1, taken[u] + n)
      <3>1. 1 \in 1..Len(Content(u)) + 1 /\ taken[u] \in 1 - 1..Len(Content(u))
            /\ taken[u] + n \in taken[u]..Len(Content(u))
        BY <1>2, <1>3, <1>4
      <3>2. QED
        BY <1>4, <3>1, ConcatAdjacentSubSeq DEF more
    <2>4. QED
      BY <2>1, <2>2, <2>3
  <1> HIDE DEF b
  <1>8. Streaming(u, ph, uploads[u], b, taken[u] + n)
    BY <1>2, <1>3, <1>7 DEF Streaming
  <1>9. Uploading(u, ph, uploads[u], b, taken[u] + n)
    BY <1>3, <1>4, <1>6, <1>8 DEF Uploading
  <1> HIDE DEF ph
  <1>10. ph # "idle"
    BY DEF ph
  <1>11. phase'[u] = ph /\ uploads'[u] = uploads[u] /\ buf'[u] = b /\ taken'[u] = taken[u] + n
    BY <1>1, <1>2
  <1>12. /\ \A v \in Uploaders \ {u} : /\ phase'[v] = phase[v] /\ uploads'[v] = uploads[v]
                                       /\ buf'[v] = buf[v] /\ taken'[v] = taken[v]
         /\ DOMAIN phase' = Uploaders /\ DOMAIN uploads' = Uploaders
         /\ DOMAIN buf' = Uploaders /\ DOMAIN taken' = Uploaders
    BY <1>1, <1>2
  <1>13. QED
    BY <1>2, <1>9, <1>10, <1>11, <1>12, UploaderSteps

LEMMA StreamEnds ==
  ASSUME NEW u \in Uploaders, ClientInv, StreamEnd(u)
  PROVE  ClientInv'
  <1>1. /\ DOMAIN phase = Uploaders /\ DOMAIN buf = Uploaders /\ DOMAIN taken = Uploaders
        /\ DOMAIN uploads = Uploaders
        /\ Uploading(u, phase[u], uploads[u], buf[u], taken[u])
    BY DEF ClientInv
  <1>2. /\ phase[u] = "read"
        /\ UNCHANGED <<object, uploads, buf, taken, reading, copy, abandoned, unanswered, partial>>
    BY DEF StreamEnd, history
  <1>3. Streaming(u, "read", uploads[u], buf[u], taken[u]) /\ buf[u] \in Seq(Units) /\ taken[u] \in Nat
    BY <1>1, <1>2 DEF Uploading
  <1>4. \E ph \in {"complete", "last", "abort"} :
          /\ phase' = [phase EXCEPT ![u] = ph]
          /\ ph # "abort" => taken[u] = Size[u]
          /\ ph = "complete" => buf[u] = <<>>
    BY DEF StreamEnd, Go
  <1>5. PICK ph \in {"complete", "last", "abort"} :
          /\ phase' = [phase EXCEPT ![u] = ph]
          /\ ph # "abort" => taken[u] = Size[u]
          /\ ph = "complete" => buf[u] = <<>>
    BY <1>4
  <1>6. ph # "abort" => Streaming(u, ph, uploads[u], buf[u], taken[u])
    BY <1>3, <1>5 DEF Streaming
  <1>7. Uploading(u, ph, uploads[u], buf[u], taken[u])
    BY <1>3, <1>6 DEF Uploading
  <1>8. /\ phase'[u] = ph /\ ph # "idle" /\ DOMAIN phase' = Uploaders
        /\ \A v \in Uploaders \ {u} : phase'[v] = phase[v]
    BY <1>1, <1>5
  <1>9. QED
    BY <1>1, <1>2, <1>7, <1>8, UploaderSteps

LEMMA PutsPart ==
  ASSUME NEW u \in Uploaders, ClientInv, PutPart(u)
  PROVE  ClientInv'
  <1> DEFINE b == buf[u]
             n == IF phase[u] = "part" THEN PartSize ELSE Len(b)
             part == SubSeq(b, 1, n)
             rest == SubSeq(b, n + 1, Len(b))
             sent == FlattenSeq(uploads[u])
             ph == IF phase[u] = "last" THEN "complete"
                   ELSE IF Len(rest) >= PartSize THEN "part" ELSE "read"
  <1>1. /\ DOMAIN phase = Uploaders /\ DOMAIN buf = Uploaders /\ DOMAIN taken = Uploaders
        /\ DOMAIN uploads = Uploaders
        /\ Uploading(u, phase[u], uploads[u], b, taken[u])
    BY DEF ClientInv
  <1>2. /\ phase[u] \in {"part", "last"}
        /\ UNCHANGED <<object, taken, reading, copy, abandoned, unanswered, partial>>
    BY DEF PutPart, history
  <1>3. Streaming(u, phase[u], uploads[u], b, taken[u]) /\ b \in Seq(Units) /\ taken[u] \in Nat
    BY <1>1, <1>2 DEF Uploading
  <1>4. CASE Go(u, "abort") /\ UNCHANGED <<uploads, buf>>
    <2>1. /\ phase'[u] = "abort" /\ DOMAIN phase' = Uploaders
          /\ \A v \in Uploaders \ {u} : phase'[v] = phase[v]
      BY <1>1, <1>4 DEF Go
    <2>2. Uploading(u, "abort", uploads[u], b, taken[u])
      BY <1>3, NothingPromised
    <2>3. QED
      BY <1>1, <1>2, <1>4, <2>1, <2>2, UploaderSteps
  <1>5. CASE /\ uploads' = [uploads EXCEPT ![u] = Append(@, part)]
             /\ buf' = [buf EXCEPT ![u] = rest]
             /\ phase' = [phase EXCEPT ![u] = ph]
    <2>1. Len(b) \in Nat /\ n \in 0..Len(b)
      <3>1. Len(b) \in Nat /\ (phase[u] = "part" => PartSize <= Len(b)) /\ PartSize \in Nat
        BY <1>3, ClientAssumption DEF Streaming
      <3>2. QED
        BY <3>1
    <2> HIDE DEF b
    <2>2. \A i \in 1..Len(b) : b[i] \in Units
      BY <1>3
    <2> HIDE DEF n
    <2>3. part \in Seq(Units) /\ rest \in Seq(Units)
      <3>1. n \in Int /\ n + 1 \in Int /\ Len(b) \in Int
        BY <2>1
      <3>2. (\A i \in 1..n : b[i] \in Units) /\ \A i \in n + 1..Len(b) : b[i] \in Units
        BY <2>1, <2>2
      <3>3. QED
        BY <3>1, <3>2, SubSeqProperties
    <2>4. part \o rest = b
      <3>1. 1 \in 1..Len(b) + 1 /\ n \in 1 - 1..Len(b) /\ Len(b) \in n..Len(b)
        BY <2>1
      <3>2. SubSeq(b, 1, n) \o SubSeq(b, n + 1, Len(b)) = SubSeq(b, 1, Len(b))
        BY <1>3, <3>1, ConcatAdjacentSubSeq
      <3>3. SubSeq(b, 1, Len(b)) = b
        BY <1>3, SubSeqFull
      <3>4. QED
        BY <3>2, <3>3
    <2>5. phase[u] = "last" => rest = <<>>
      <3>1. phase[u] = "last" => n + 1 > Len(b) /\ n + 1 \in Int /\ Len(b) \in Int
        BY <2>1 DEF n
      <3>2. QED
        BY <3>1, SubSeqEmpty
    <2> HIDE DEF part, rest
    <2> DEFINE ps == Append(uploads[u], part)
    <2>6. /\ uploads[u] \in Seq(Seq(Units)) /\ sent \in Seq(Units)
          /\ sent \o b = SubSeq(Content(u), 1, taken[u])
      BY <1>3 DEF Streaming
    <2>7. ps \in Seq(Seq(Units)) /\ FlattenSeq(ps) = sent \o part
      BY <2>3, <2>6, FlattenAppend, AppendProperties
    <2> HIDE DEF sent, ps
    <2>8. sent \o part \in Seq(Units)
      BY <2>3, <2>6, ConcatProperties
    <2>9. FlattenSeq(ps) \o rest = SubSeq(Content(u), 1, taken[u])
      <3>1. (sent \o part) \o rest = sent \o (part \o rest)
        BY <2>3, <2>6, JoinAssociative, Zenon
      <3>2. QED
        BY <2>4, <2>6, <2>7, <3>1
    <2>10. Streaming(u, ph, ps, rest, taken[u])
      BY <1>2, <1>3, <2>5, <2>7, <2>8, <2>9 DEF Streaming
    <2>11. ph \in {"complete", "part", "read"}
      OBVIOUS
    <2> HIDE DEF ph
    <2>12. Uploading(u, ph, ps, rest, taken[u])
      BY <1>3, <2>3, <2>10, <2>11 DEF Uploading
    <2>13. uploads' = [uploads EXCEPT ![u] = ps]
      BY <1>5 DEF ps
    <2>14. phase'[u] = ph /\ uploads'[u] = ps /\ buf'[u] = rest /\ taken'[u] = taken[u]
      BY <1>1, <1>2, <1>5, <2>13
    <2>15. /\ \A v \in Uploaders \ {u} : /\ phase'[v] = phase[v] /\ uploads'[v] = uploads[v]
                                         /\ buf'[v] = buf[v] /\ taken'[v] = taken[v]
           /\ DOMAIN phase' = Uploaders /\ DOMAIN uploads' = Uploaders
           /\ DOMAIN buf' = Uploaders /\ DOMAIN taken' = Uploaders
      BY <1>1, <1>2, <1>5, <2>13
    <2>16. ph # "idle"
      BY <2>11
    <2>17. QED
      BY <1>2, <2>12, <2>14, <2>15, <2>16, UploaderSteps
  <1>6. QED
    BY <1>4, <1>5 DEF PutPart, Go

\* All the parts of an upload that is complete are the content.
LEMMA StreamedWhole ==
  ASSUME NEW u \in Uploaders, ClientInv, phase[u] = "complete"
  PROVE  FlattenSeq(uploads[u]) = Content(u)
  <1>1. Uploading(u, "complete", uploads[u], buf[u], taken[u])
    BY DEF ClientInv
  <1>2. Streaming(u, "complete", uploads[u], buf[u], taken[u])
    BY <1>1 DEF Uploading
  <1>3. /\ FlattenSeq(uploads[u]) \in Seq(Units)
        /\ FlattenSeq(uploads[u]) \o <<>> = SubSeq(Content(u), 1, Size[u])
    BY <1>2 DEF Streaming
  <1>4. FlattenSeq(uploads[u]) \o <<>> = FlattenSeq(uploads[u])
    BY <1>3, ConcatEmptySeq
  <1>5. SubSeq(Content(u), 1, Size[u]) = Content(u)
    BY ContentIs, SubSeqFull
  <1>6. QED
    BY <1>3, <1>4, <1>5

\* A step that ends the call, or leaves it to the abort.
LEMMA LeavesOrAborts ==
  ASSUME NEW u \in Uploaders, ClientInv, NEW ups,
         Leave(u) \/ (Go(u, "abort") /\ UNCHANGED <<buf, taken>>),
         DOMAIN uploads' = Uploaders, uploads'[u] = ups,
         \A v \in Uploaders \ {u} : uploads'[v] = uploads[v],
         abandoned \subseteq abandoned', unanswered \subseteq unanswered',
         partial \subseteq partial',
         Leave(u) /\ ups # Nothing => u \in abandoned',
         object' # Nothing => object' = object \/ Put(object', partial'),
         UNCHANGED <<reading, copy>>
  PROVE  ClientInv'
  <1>1. /\ DOMAIN phase = Uploaders /\ DOMAIN buf = Uploaders /\ DOMAIN taken = Uploaders
        /\ DOMAIN uploads = Uploaders
        /\ Uploading(u, phase[u], uploads[u], buf[u], taken[u])
    BY DEF ClientInv
  <1>2. buf[u] \in Seq(Units) /\ taken[u] \in Nat
    BY <1>1 DEF Uploading
  <1>3. /\ \A v \in Uploaders \ {u} : /\ phase'[v] = phase[v] /\ uploads'[v] = uploads[v]
                                      /\ buf'[v] = buf[v] /\ taken'[v] = taken[v]
        /\ DOMAIN phase' = Uploaders /\ DOMAIN uploads' = Uploaders
        /\ DOMAIN buf' = Uploaders /\ DOMAIN taken' = Uploaders
        /\ uploads'[u] = ups
    BY <1>1 DEF Leave, Go
  <1>4. CASE Leave(u)
    <2>1. phase'[u] = "idle" /\ buf'[u] = <<>> /\ taken'[u] = 0
      BY <1>1, <1>4 DEF Leave, Go
    <2>2. Uploading(u, phase'[u], uploads'[u], buf'[u], taken'[u])
      BY <2>1, IdleUploading
    <2>3. QED
      BY <1>3, <1>4, <2>2, UploaderSteps
  <1>5. CASE Go(u, "abort") /\ UNCHANGED <<buf, taken>>
    <2>1. phase'[u] = "abort" /\ buf'[u] = buf[u] /\ taken'[u] = taken[u]
      BY <1>1, <1>5 DEF Go
    <2>2. Uploading(u, phase'[u], uploads'[u], buf'[u], taken'[u])
      BY <1>2, <2>1, NothingPromised
    <2>3. QED
      BY <1>3, <2>1, <2>2, UploaderSteps
  <1>6. QED
    BY <1>4, <1>5

LEMMA CompletesOrDies ==
  ASSUME NEW u \in Uploaders, ClientInv,
         Complete(u) \/ Abort(u) \/ Die(u) \/ AbortMultipartUpload(u)
  PROVE  ClientInv'
  <1>0. DOMAIN uploads = Uploaders
    BY DEF ClientInv
  <1>1. CASE Complete(u)
    <2>1. phase[u] = "complete" /\ UNCHANGED <<reading, copy, abandoned, unanswered, partial>>
      BY <1>1 DEF Complete, history
    <2>2. Put(FlattenSeq(uploads[u]), partial)
      BY <2>1, StreamedWhole DEF Put
    <2>3. CASE /\ object' = FlattenSeq(uploads[u])
               /\ uploads' = [uploads EXCEPT ![u] = Nothing]
               /\ Leave(u) \/ (Go(u, "abort") /\ UNCHANGED <<buf, taken>>)
      <3>1. /\ DOMAIN uploads' = Uploaders /\ uploads'[u] = Nothing
            /\ \A v \in Uploaders \ {u} : uploads'[v] = uploads[v]
        BY <1>0, <2>3
      <3>2. QED
        BY <2>1, <2>2, <2>3, <3>1, LeavesOrAborts
    <2>4. CASE Go(u, "abort") /\ UNCHANGED <<object, uploads, buf, taken>>
      <3>1. /\ DOMAIN uploads' = Uploaders
            /\ \A v \in Uploaders : uploads'[v] = uploads[v]
        BY <1>0, <2>4
      <3>2. ~ Leave(u)
        <4>1. DOMAIN phase = Uploaders
          BY DEF ClientInv
        <4>2. QED
          BY <2>4, <4>1 DEF Leave, Go
      <3>3. QED
        BY <2>1, <2>4, <3>1, <3>2, LeavesOrAborts
    <2>5. QED
      BY <1>1, <2>3, <2>4 DEF Complete
  <1>2. ASSUME Abandon(u), Leave(u), UNCHANGED <<object, reading, copy, unanswered, partial>>
        PROVE  ClientInv'
    <2>1. /\ DOMAIN uploads' = Uploaders
          /\ \A v \in Uploaders : uploads'[v] = uploads[v]
          /\ abandoned \subseteq abandoned'
          /\ uploads[u] # Nothing => u \in abandoned'
      BY <1>0, <1>2 DEF Abandon
    <2>2. QED
      BY <1>2, <2>1, LeavesOrAborts
  <1>3. ASSUME uploads' = [uploads EXCEPT ![u] = Nothing], Leave(u),
               UNCHANGED <<object, reading, copy, abandoned, unanswered, partial>>
        PROVE  ClientInv'
    <2>1. /\ DOMAIN uploads' = Uploaders /\ uploads'[u] = Nothing
          /\ \A v \in Uploaders \ {u} : uploads'[v] = uploads[v]
      BY <1>0, <1>3
    <2>2. QED
      BY <1>3, <2>1, LeavesOrAborts
  <1>4. CASE Abort(u) \/ AbortMultipartUpload(u) \/ Die(u)
    BY <1>2, <1>3, <1>4 DEF Abort, AbortMultipartUpload, Die
  <1>5. QED
    BY <1>1, <1>4

-----------------------------------------------------------------------------
(* The caller's own multipart upload.                                      *)

\* Parts(u) are numbered 1 to their count, and cover the content.
PartCount(u) == (Size[u] + PartSize - 1) \div PartSize

\* Where the i-th part ends.
PartEnd(u, i) == IF i * PartSize < Size[u] THEN i * PartSize ELSE Size[u]

LEMMA PartCountIs ==
  ASSUME NEW u \in Uploaders
  PROVE  /\ PartCount(u) \in Nat /\ Parts(u) = 1..PartCount(u)
         /\ PartCount(u) * PartSize >= Size[u]
         /\ PartCount(u) = 0 => Size[u] = 0
  <1>1. Size[u] \in Nat /\ PartSize \in Nat /\ PartSize >= 1
    BY ClientAssumption
  <1>2. Size[u] + PartSize - 1 \in Nat
    BY <1>1
  <1>3. \A a, b \in Nat : b >= 1 =>
          /\ a \div b \in Nat
          /\ (a \div b) * b <= a /\ a < (a \div b) * b + b
    OBVIOUS
  <1>4. /\ PartCount(u) \in Nat
        /\ Size[u] + PartSize - 1 < PartCount(u) * PartSize + PartSize
    BY <1>1, <1>2, <1>3 DEF PartCount
  <1>5. PartCount(u) * PartSize \in Nat
    BY <1>1, <1>4
  <1>6. PartCount(u) * PartSize >= Size[u]
    BY <1>1, <1>4, <1>5
  <1>7. PartCount(u) = 0 => Size[u] = 0
    BY <1>1, <1>6
  <1>8. QED
    BY <1>4, <1>6, <1>7 DEF Parts, PartCount

LEMMA PartEnds ==
  ASSUME NEW u \in Uploaders
  PROVE  /\ \A i \in Nat : PartEnd(u, i) \in 0..Size[u]
         /\ PartEnd(u, 0) = 0
         /\ PartEnd(u, PartCount(u)) = Size[u]
         /\ \A i \in Nat : PartEnd(u, i) <= PartEnd(u, i + 1)
         /\ \A i \in 1..PartCount(u) :
              PartOf(u, i) = SubSeq(Content(u), PartEnd(u, i - 1) + 1, PartEnd(u, i))
  <1>1. Size[u] \in Nat /\ PartSize \in Nat /\ PartSize >= 1
    BY ClientAssumption
  <1>2. \A i \in Nat : i * PartSize \in Nat /\ (i + 1) * PartSize = i * PartSize + PartSize
    BY <1>1
  <1>3. PartCount(u) \in Nat /\ PartCount(u) * PartSize >= Size[u]
    BY PartCountIs
  <1>4. \A i \in Nat : PartEnd(u, i) \in 0..Size[u] /\ PartEnd(u, i) <= PartEnd(u, i + 1)
    BY <1>1, <1>2 DEF PartEnd
  <1>5. PartEnd(u, 0) = 0
    BY <1>1 DEF PartEnd
  <1>6. PartEnd(u, PartCount(u)) = Size[u]
    BY <1>1, <1>2, <1>3 DEF PartEnd
  <1>7. ASSUME NEW i \in 1..PartCount(u)
        PROVE  PartOf(u, i) = SubSeq(Content(u), PartEnd(u, i - 1) + 1, PartEnd(u, i))
    <2>1. i - 1 \in Nat /\ i \in Nat /\ PartCount(u) \in Nat
      BY <1>3
    \* A part that starts is not past the end: (i - 1) * PartSize < Size.
    <2>2. (i - 1) * PartSize < Size[u]
      <3>1. Size[u] + PartSize - 1 \in Nat
        BY <1>1
      <3>2. PartCount(u) * PartSize <= Size[u] + PartSize - 1
        BY <1>1, <3>1 DEF PartCount
      <3>3. i * PartSize <= PartCount(u) * PartSize
        BY <1>1, <2>1
      <3>4. (i - 1) * PartSize + PartSize = i * PartSize
        BY <1>1, <2>1
      <3>5. (i - 1) * PartSize \in Nat /\ i * PartSize \in Nat /\ PartCount(u) * PartSize \in Nat
        BY <1>1, <2>1
      <3>6. QED
        BY <1>1, <3>2, <3>3, <3>4, <3>5
    <2>3. PartEnd(u, i - 1) = (i - 1) * PartSize
      BY <2>2 DEF PartEnd
    <2>4. QED
      BY <2>3 DEF PartOf, PartEnd
  <1>8. QED
    BY <1>4, <1>5, <1>6, <1>7

LEMMA PutsPresigned ==
  ASSUME NEW u \in Uploaders, ClientInv, NEW i \in Parts(u), PresignedPut(u, i)
  PROVE  ClientInv'
  <1> DEFINE put == [number |-> i, data |-> PartOf(u, i)]
             Rec == [number : Parts(u), data : Seq(Units)]
             qs == Append(uploads[u], put)
  <1>1. /\ DOMAIN phase = Uploaders /\ DOMAIN buf = Uploaders /\ DOMAIN taken = Uploaders
        /\ DOMAIN uploads = Uploaders
        /\ Uploading(u, phase[u], uploads[u], buf[u], taken[u])
    BY DEF ClientInv
  <1>2. /\ phase[u] = "parts"
        /\ \A k \in DOMAIN uploads[u] : uploads[u][k].number # i
        /\ uploads' = [uploads EXCEPT ![u] = qs]
        /\ uploads[u] # Nothing
        /\ UNCHANGED <<object, phase, buf, taken, reading, copy, abandoned, unanswered, partial>>
    BY DEF PresignedPut, history
  <1>3. Presigned(u, uploads[u]) /\ buf[u] \in Seq(Units) /\ taken[u] \in Nat
    BY <1>1, <1>2 DEF Uploading
  <1>4. PartOf(u, i) \in Seq(Units)
    <2>1. i \in 1..PartCount(u) /\ i - 1 \in Nat /\ i \in Nat
      BY PartCountIs
    <2>2. PartEnd(u, i - 1) \in 0..Size[u] /\ PartEnd(u, i) \in 0..Size[u]
      BY <2>1, PartEnds
    <2>3. Content(u) \in Seq(Units) /\ Len(Content(u)) = Size[u] /\ Size[u] \in Nat
      BY ContentIs
    <2>4. PartEnd(u, i - 1) + 1 \in Int /\ PartEnd(u, i) \in Int
      BY <2>2, <2>3
    <2>5. ASSUME NEW k \in PartEnd(u, i - 1) + 1..PartEnd(u, i)
          PROVE  Content(u)[k] \in Units
      <3>1. k \in 1..Len(Content(u))
        BY <2>2, <2>3
      <3>2. QED
        BY <2>3, <3>1, ElementOfSeq
    <2>6. SubSeq(Content(u), PartEnd(u, i - 1) + 1, PartEnd(u, i)) \in Seq(Units)
      BY <2>4, <2>5, SubSeqProperties
    <2>7. QED
      BY <2>1, <2>6, PartEnds
  <1>5. put \in Rec
    BY <1>4
  <1>6. uploads[u] \in Seq(Rec) /\ Len(uploads[u]) \in Nat
    BY <1>3 DEF Presigned
  <1> HIDE DEF put, Rec
  <1>7. /\ qs \in Seq(Rec) /\ Len(qs) = Len(uploads[u]) + 1
        /\ \A k \in 1..Len(uploads[u]) : qs[k] = uploads[u][k]
        /\ qs[Len(uploads[u]) + 1] = put
    BY <1>5, <1>6, AppendProperties
  <1> HIDE DEF qs
  <1>8. put.number = i /\ put.data = PartOf(u, i)
    BY DEF put
  <1>9. \A k \in 1..Len(qs) : qs[k].data = PartOf(u, qs[k].number)
    <2>1. ASSUME NEW k \in 1..Len(qs)
          PROVE  qs[k].data = PartOf(u, qs[k].number)
      <3>1. k \in 1..Len(uploads[u]) \/ k = Len(uploads[u]) + 1
        BY <1>6, <1>7
      <3>2. QED
        BY <1>3, <1>7, <1>8, <3>1 DEF Presigned
    <2>2. QED
      BY <2>1
  <1>10. \A k, l \in 1..Len(qs) : qs[k].number = qs[l].number => k = l
    <2>1. ASSUME NEW k \in 1..Len(qs), NEW l \in 1..Len(qs), qs[k].number = qs[l].number
          PROVE  k = l
      <3>1. /\ k \in 1..Len(uploads[u]) \/ k = Len(uploads[u]) + 1
            /\ l \in 1..Len(uploads[u]) \/ l = Len(uploads[u]) + 1
        BY <1>6, <1>7
      <3>2. \A m \in 1..Len(uploads[u]) : uploads[u][m].number # i
        BY <1>2, <1>6
      <3>3. QED
        BY <1>3, <1>7, <1>8, <2>1, <3>1, <3>2 DEF Presigned
    <2>2. QED
      BY <2>1
  <1>11. Presigned(u, qs)
    BY <1>7, <1>9, <1>10 DEF Presigned, Rec
  <1>12. Uploading(u, "parts", qs, buf[u], taken[u])
    BY <1>3, <1>11 DEF Uploading
  <1>13. /\ DOMAIN uploads' = Uploaders /\ uploads'[u] = qs
         /\ \A v \in Uploaders \ {u} : uploads'[v] = uploads[v]
    BY <1>1, <1>2
  <1>14. QED
    BY <1>1, <1>2, <1>12, <1>13, UploaderSteps

\* Numbers from 1 to m, m of them and going up, are 1, 2, ... m.
LEMMA IncreasingIsIdentity ==
  ASSUME NEW m \in Nat, NEW f \in [1..m -> 1..m],
         \A k, l \in 1..m : k < l => f[k] < f[l]
  PROVE  \A k \in 1..m : f[k] = k
  <1>1. \A k \in 1..m : f[k] \in Nat /\ f[k] >= 1 /\ f[k] <= m
    OBVIOUS
  <1>2. ASSUME NEW k \in 1..m, f[k] < k
        PROVE  FALSE
    <2> DEFINE Bad == {i \in 1..m : f[i] < i}
    <2>1. Bad # {} /\ Bad \subseteq Nat
      BY <1>2
    <2>2. PICK i \in Bad : \A l \in Bad : i <= l
      <3> HIDE DEF Bad
      <3>1. QED
        BY <2>1, LeastNumber
    <2>3. i \in 1..m /\ i - 1 \in 1..m /\ i - 1 < i /\ f[i] < i
      BY <1>1, <2>2
    <2>4. i - 1 <= f[i - 1] /\ f[i - 1] < f[i]
      BY <1>1, <2>2, <2>3
    <2>5. QED
      BY <1>1, <2>3, <2>4
  <1>3. ASSUME NEW k \in 1..m, f[k] > k
        PROVE  FALSE
    <2> DEFINE Bad == {i \in 1..m : f[i] > i}
    <2>1. Bad # {} /\ Bad \subseteq 0..m
      BY <1>3
    <2>2. PICK i \in Bad : \A l \in Bad : l <= i
      <3> HIDE DEF Bad
      <3>1. QED
        BY <2>1, LargestNumber
    <2>3. i \in 1..m /\ i + 1 \in 1..m /\ i < i + 1 /\ f[i] > i
      BY <1>1, <2>2
    <2>4. f[i + 1] <= i + 1 /\ f[i] < f[i + 1]
      BY <1>1, <2>2, <2>3
    <2>5. QED
      BY <1>1, <2>3, <2>4
  <1>4. QED
    BY <1>1, <1>2, <1>3

\* What a list of part numbers that go up is.
LEMMA AscendingIs ==
  ASSUME NEW S, NEW ns \in Ascending(S)
  PROVE  \E n \in Nat \ {0} : /\ ns \in [1..n -> S] /\ n <= Cardinality(S)
                              /\ \A i, j \in 1..n : i < j => ns[i] < ns[j]
  <1>1. PICK n \in 1..Cardinality(S) :
          ns \in {f \in [1..n -> S] : \A i, j \in 1..n : i < j => f[i] < f[j]}
    BY DEF Ascending
  <1>2. n \in Nat \ {0} /\ n <= Cardinality(S)
    OBVIOUS
  <1>3. QED
    BY <1>1, <1>2

\* The parts that are there are parts of the content.
LEMMA NumbersAre ==
  ASSUME NEW u \in Uploaders, NEW ps, Presigned(u, ps)
  PROVE  /\ Numbers(ps) \subseteq Parts(u)
         /\ \A i \in Numbers(ps) : PartNumbered(ps, i) = PartOf(u, i)
  <1>1. /\ ps \in Seq([number : Parts(u), data : Seq(Units)]) /\ DOMAIN ps = 1..Len(ps)
        /\ \A k \in 1..Len(ps) : ps[k].data = PartOf(u, ps[k].number)
    BY DEF Presigned
  <1>2. Numbers(ps) \subseteq Parts(u)
    <2>1. \A k \in 1..Len(ps) : ps[k] \in [number : Parts(u), data : Seq(Units)]
      BY <1>1, ElementOfSeq
    <2>2. \A k \in 1..Len(ps) : ps[k].number \in Parts(u)
      BY <2>1
    <2>3. QED
      BY <1>1, <2>2 DEF Numbers
  <1>3. ASSUME NEW i \in Numbers(ps) PROVE PartNumbered(ps, i) = PartOf(u, i)
    <2>1. PICK k \in DOMAIN ps : ps[k].number = i
      BY DEF Numbers
    <2>2. ToSet(ps) = {ps[j] : j \in DOMAIN ps}
      BY DEF ToSet
    <2>3. \E p \in ToSet(ps) : p.number = i
      BY <2>1, <2>2
    <2> DEFINE q == CHOOSE p \in ToSet(ps) : p.number = i
    <2>4. q \in ToSet(ps) /\ q.number = i
      BY <2>3
    <2> HIDE DEF q
    <2>5. PICK j \in DOMAIN ps : ps[j] = q
      BY <2>2, <2>4
    <2>6. q.data = PartOf(u, i)
      BY <1>1, <2>4, <2>5
    <2>7. QED
      BY <2>6 DEF PartNumbered, q
  <1>4. QED
    BY <1>2, <1>3

\* Every part is listed once, so in the order of their numbers they are parts 1, 2, ...
LEMMA PartsInOrder ==
  ASSUME NEW u \in Uploaders, NEW m \in Nat, NEW ns \in [1..m -> Parts(u)],
         \A k, l \in 1..m : k < l => ns[k] < ns[l],
         \A i \in Parts(u) : \E k \in 1..m : ns[k] = i
  PROVE  m = PartCount(u) /\ \A k \in 1..m : ns[k] = k
  <1> DEFINE last == PartCount(u)
  <1>1. last \in Nat /\ Parts(u) = 1..last
    BY PartCountIs
  <1> HIDE DEF last
  <1>2. ns \in [1..m -> 1..last]
    BY <1>1
  <1>3. \A k, l \in 1..m : ns[k] = ns[l] => k = l
    <2>1. ASSUME NEW k \in 1..m, NEW l \in 1..m, ns[k] = ns[l], k # l PROVE FALSE
      <3>1. k < l \/ l < k
        BY <2>1
      <3>2. ns[k] \in Int /\ ns[l] \in Int
        BY <1>2
      <3>3. QED
        BY <2>1, <3>1, <3>2
    <2>2. QED
      BY <2>1
  <1>4. m = last
    <2>1. \A i \in 1..last : \E k \in 1..m : ns[k] = i
      BY <1>1
    <2>2. ns \in Bijection(1..m, 1..last)
      BY <1>2, <1>3, <2>1 DEF Bijection, Injection, Surjection, IsInjective
    <2>3. ExistsBijection(1..m, 1..last)
      BY <2>2 DEF ExistsBijection
    <2>4. /\ IsFiniteSet(1..m) /\ Cardinality(1..m) = m
          /\ Cardinality(1..last) = last
      BY <1>1, FS_Interval
    <2>5. QED
      BY <2>3, <2>4, FS_Bijection
  <1>5. ns \in [1..m -> 1..m]
    BY <1>2, <1>4
  <1>6. \A k \in 1..m : ns[k] = k
    BY <1>5, IncreasingIsIdentity
  <1>7. QED
    BY <1>4, <1>6 DEF last

LEMMA PresignedWhole ==
  ASSUME NEW u \in Uploaders, NEW m \in Nat \ {0}, NEW ns \in [1..m -> Parts(u)],
         \A k, l \in 1..m : k < l => ns[k] < ns[l],
         \A i \in Parts(u) : \E k \in 1..m : ns[k] = i
  PROVE  FlattenSeq([k \in 1..m |-> PartOf(u, ns[k])]) = Content(u)
  <1> DEFINE last == PartCount(u)
             pieces == [k \in 1..m |-> PartOf(u, ns[k])]
             cut == [i \in 0..last |-> PartEnd(u, i)]
             s == Content(u)
  <1>1. m = last /\ \A k \in 1..last : ns[k] = k
    BY PartsInOrder
  <1>2. last \in Nat
    BY PartCountIs
  <1>3. last # 0
    BY <1>1
  <1>4. s \in Seq(Units) /\ Len(s) = Size[u] /\ Size[u] \in Nat
    BY ContentIs
  <1> HIDE DEF last, s
  <1>5. /\ \A i \in 0..last : cut[i] = PartEnd(u, i) /\ cut[i] \in 0..Len(s)
        /\ cut[0] = 0 /\ cut[last] = Len(s)
    <2>1. PartEnd(u, 0) = 0 /\ PartEnd(u, last) = Size[u]
      BY PartEnds DEF last
    <2>2. \A i \in 0..last : PartEnd(u, i) \in 0..Size[u]
      <3>1. \A i \in Nat : PartEnd(u, i) \in 0..Size[u]
        BY PartEnds
      <3>2. \A i \in 0..last : i \in Nat
        BY <1>2
      <3>3. QED
        BY <3>1, <3>2
    <2>3. \A i \in 0..last : cut[i] = PartEnd(u, i)
      OBVIOUS
    <2>4. 0 \in 0..last /\ last \in 0..last
      BY <1>2
    <2>5. QED
      BY <1>4, <2>1, <2>2, <2>3, <2>4
  <1>6. cut \in [0..last -> 0..Len(s)]
    BY <1>5
  <1>7. \A i \in 1..last : cut[i - 1] <= cut[i]
    <2>1. \A i \in Nat : PartEnd(u, i) <= PartEnd(u, i + 1)
      BY PartEnds
    <2>2. ASSUME NEW i \in 1..last
          PROVE  cut[i - 1] <= cut[i]
      <3>1. i - 1 \in 0..last /\ i \in 0..last /\ i - 1 \in Nat /\ (i - 1) + 1 = i
        BY <1>2
      <3>2. PartEnd(u, i - 1) <= PartEnd(u, (i - 1) + 1)
        BY <2>1, <3>1
      <3>3. QED
        BY <1>5, <3>1, <3>2
    <2>3. QED
      BY <2>2
  <1>9. Len(pieces) = last
    BY <1>1, <1>2
  <1>10. \A i \in 1..last : pieces[i] = SubSeq(s, cut[i - 1] + 1, cut[i])
    <2>1. ASSUME NEW i \in 1..last
          PROVE  pieces[i] = SubSeq(s, cut[i - 1] + 1, cut[i])
      <3>1. i - 1 \in 0..last /\ i \in 0..last
        BY <1>2
      <3>2. pieces[i] = PartOf(u, i)
        BY <1>1
      <3>3. PartOf(u, i) = SubSeq(s, PartEnd(u, i - 1) + 1, PartEnd(u, i))
        BY PartEnds DEF last, s
      <3>4. QED
        BY <1>5, <3>1, <3>2, <3>3
    <2>2. QED
      BY <2>1
  <1> HIDE DEF pieces, cut
  <1>11. FlattenSeq(pieces) = SubSeq(s, 1, cut[last])
    <2>1. cut[0] = 0 /\ s \in Seq(Units) /\ last \in Nat /\ last # 0
      BY <1>2, <1>3, <1>4, <1>5
    <2>2. CutsInto(s, last, cut, pieces)
      BY <1>6, <1>7, <1>9, <1>10, <2>1 DEF CutsInto
    <2>3. QED
      BY <2>1, <2>2, PiecesJoined
  <1>12. SubSeq(s, 1, Len(s)) = s
    BY <1>4, SubSeqFull
  <1>13. QED
    BY <1>5, <1>11, <1>12 DEF pieces, s

\* A completion makes the object of the parts it lists: the content, or some of it.
LEMMA CompletesPresigned ==
  ASSUME NEW u \in Uploaders, ClientInv, CompleteMultipartUpload(u)
  PROVE  ClientInv'
  <1>1. /\ DOMAIN uploads = Uploaders /\ DOMAIN phase = Uploaders
        /\ DOMAIN buf = Uploaders /\ DOMAIN taken = Uploaders
        /\ Uploading(u, phase[u], uploads[u], buf[u], taken[u])
    BY DEF ClientInv
  <1> DEFINE ps == uploads[u]
  <1>2. /\ phase[u] = "parts" /\ ps # Nothing
        /\ uploads' = [uploads EXCEPT ![u] = Nothing]
        /\ Leave(u) \/ UNCHANGED <<phase, buf, taken>>
        /\ UNCHANGED <<reading, copy, abandoned, unanswered>>
    BY DEF CompleteMultipartUpload
  <1>3. PICK ns \in Ascending(Numbers(ps)) :
          /\ object' = FlattenSeq([k \in DOMAIN ns |-> PartNumbered(ps, ns[k])])
          /\ partial' = IF \A i \in Parts(u) : \E k \in DOMAIN ns : ns[k] = i
                        THEN partial ELSE partial \cup {u}
    BY DEF CompleteMultipartUpload
  <1>4. Presigned(u, ps)
    BY <1>1, <1>2 DEF Uploading
  <1> HIDE DEF ps
  <1>5. PICK m \in Nat \ {0} :
          /\ ns \in [1..m -> Numbers(ps)] /\ m <= Cardinality(Numbers(ps))
          /\ \A i, j \in 1..m : i < j => ns[i] < ns[j]
    BY AscendingIs
  <1>6. /\ Numbers(ps) \subseteq Parts(u)
        /\ \A i \in Numbers(ps) : PartNumbered(ps, i) = PartOf(u, i)
    BY <1>4, NumbersAre
  <1>7. ns \in [1..m -> Parts(u)] /\ DOMAIN ns = 1..m
    BY <1>5, <1>6
  <1>8. object' = FlattenSeq([k \in 1..m |-> PartOf(u, ns[k])])
    <2>1. \A k \in 1..m : PartNumbered(ps, ns[k]) = PartOf(u, ns[k])
      BY <1>5, <1>6
    <2>2. [k \in DOMAIN ns |-> PartNumbered(ps, ns[k])] = [k \in 1..m |-> PartOf(u, ns[k])]
      BY <1>7, <2>1
    <2>3. QED
      BY <1>3, <2>2
  <1>9. Put(object', partial')
    <2>1. CASE \A i \in Parts(u) : \E k \in DOMAIN ns : ns[k] = i
      <3>1. object' = Content(u)
        BY <1>5, <1>7, <1>8, <2>1, PresignedWhole
      <3>2. QED
        BY <3>1 DEF Put
    <2>2. CASE ~ \A i \in Parts(u) : \E k \in DOMAIN ns : ns[k] = i
      <3>1. u \in partial'
        BY <1>3, <2>2
      <3>2. m \in 1..Cardinality(Parts(u))
        <4>1. IsFiniteSet(Parts(u)) /\ Cardinality(Parts(u)) \in Nat
          BY PartCountIs, FS_Interval, FS_CardinalityType
        <4>2. /\ Cardinality(Numbers(ps)) <= Cardinality(Parts(u))
              /\ Cardinality(Numbers(ps)) \in Nat
          BY <1>6, <4>1, FS_Subset, FS_CardinalityType
        <4>3. QED
          BY <1>5, <4>1, <4>2
      <3>3. ns \in Ascending(Parts(u))
        BY <1>5, <1>7, <3>2 DEF Ascending
      <3>4. object' = FlattenSeq([k \in DOMAIN ns |-> PartOf(u, ns[k])])
        BY <1>7, <1>8
      <3>5. object' \in Assembled(u)
        BY <3>3, <3>4 DEF Assembled
      <3>6. QED
        BY <3>1, <3>5 DEF Put
    <2>3. QED
      BY <2>1, <2>2
  <1>10. /\ DOMAIN uploads' = Uploaders /\ uploads'[u] = Nothing
         /\ \A v \in Uploaders \ {u} : uploads'[v] = uploads[v]
         /\ partial \subseteq partial'
    BY <1>1, <1>2, <1>3
  <1>11. CASE Leave(u)
    BY <1>2, <1>9, <1>10, <1>11, LeavesOrAborts
  <1>12. CASE UNCHANGED <<phase, buf, taken>>
    <2>1. Uploading(u, "parts", Nothing, buf[u], taken[u])
      BY <1>1, <1>2 DEF Uploading
    <2>2. QED
      BY <1>1, <1>2, <1>9, <1>10, <1>12, <2>1, UploaderSteps
  <1>13. QED
    BY <1>2, <1>11, <1>12

LEMMA WholeObjects ==
  ASSUME NEW u \in Uploaders, ClientInv, Upload(u) \/ Delete
  PROVE  ClientInv'
  <1>1. /\ object' = Content(u) \/ object' = Nothing
        /\ UNCHANGED <<uploads, phase, buf, taken, reading, copy, abandoned, unanswered, partial>>
    BY DEF Upload, Delete, history
  <1>2. /\ DOMAIN phase = Uploaders /\ DOMAIN buf = Uploaders /\ DOMAIN taken = Uploaders
        /\ DOMAIN uploads = Uploaders
        /\ Uploading(u, phase[u], uploads[u], buf[u], taken[u])
        /\ phase[u] = "idle" /\ uploads[u] # Nothing =>
             u \in abandoned \/ (u \in unanswered /\ uploads[u] = <<>>)
    BY DEF ClientInv, NothingLeftOpen
  <1>3. Put(Content(u), partial')
    BY DEF Put
  <1>4. QED
    BY <1>1, <1>2, <1>3, UploaderSteps

\* A reader's steps leave every upload alone.
LEMMA Downloads ==
  ASSUME ClientInv, Delete \/ Download \/ DownloadIfChanged \/ Receive
  PROVE  ClientInv'
  <1> USE DEF Delete, Download, DownloadIfChanged, Receive
  <1>1. UNCHANGED <<uploads, phase, buf, taken, abandoned, unanswered, partial>>
    BY DEF history
  <1>2. /\ \A v \in Uploaders : Uploading(v, phase'[v], uploads'[v], buf'[v], taken'[v])
        /\ DOMAIN phase' = Uploaders /\ DOMAIN uploads' = Uploaders
        /\ DOMAIN buf' = Uploaders /\ DOMAIN taken' = Uploaders
    BY <1>1 DEF ClientInv
  <1>3. reading' # Nothing => Downloading(reading', partial)
    <2>1. CASE Download \/ DownloadIfChanged
      <3>1. object # Nothing /\ reading' = [body |-> object, got |-> 0]
        BY <2>1
      <3>2. Put(object, partial)
        BY <3>1, WholeIs
      <3>3. QED
        BY <3>1, <3>2 DEF Downloading
    <2>2. CASE UNCHANGED reading
      BY <2>2, WholeIs
    <2>3. CASE Receive
      <3>1. CASE reading # Nothing /\ reading' = [reading EXCEPT !.got = @ + 1]
        <4>1. PICK n \in Nat : \E b : Put(b, partial) /\ reading = [body |-> b, got |-> n]
          BY <3>1, WholeIs DEF Downloading
        <4>2. PICK b : Put(b, partial) /\ reading = [body |-> b, got |-> n]
          BY <4>1
        <4>3. PICK k \in Nat : k = n + 1
          OBVIOUS
        <4>4. reading' = [body |-> b, got |-> k]
          BY <3>1, <4>2, <4>3
        <4>5. QED
          BY <4>2, <4>4 DEF Downloading
      <3>2. QED
        BY <2>3, <3>1
    <2>4. QED
      BY <2>1, <2>2, <2>3
  <1>4. object' # Nothing => Put(object', partial)
    BY WholeIs
  <1>5. copy' # Nothing => Put(copy', partial)
    <2>1. copy' = copy \/ (reading # Nothing /\ copy' = reading.body)
      OBVIOUS
    <2>2. reading # Nothing => Put(reading.body, partial)
      BY WholeIs DEF Downloading
    <2>3. QED
      BY <2>1, <2>2, WholeIs
  <1>6. NothingLeftOpen'
    BY <1>1 DEF ClientInv, NothingLeftOpen
  <1>7. QED
    BY <1>1, <1>2, <1>3, <1>4, <1>5, <1>6, ClientInvNext

LEMMA ClientStep == ClientInv /\ [StoreNext]_storeVars => ClientInv'
  <1> SUFFICES ASSUME ClientInv, [StoreNext]_storeVars PROVE ClientInv'
    OBVIOUS
  <1>1. ASSUME NEW u \in Uploaders, UploadNext(u)
        PROVE  ClientInv'
    <2>1. CASE UploadStream(u) \/ InitiateMultipartUpload(u)
      BY <2>1, BeginsUpload
    <2>2. CASE StreamEnd(u)
      BY <2>2, StreamEnds
    <2>3. CASE PutPart(u)
      BY <2>3, PutsPart
    <2>4. CASE Complete(u) \/ Abort(u) \/ Die(u) \/ AbortMultipartUpload(u)
      BY <2>4, CompletesOrDies
    <2>5. ASSUME NEW n \in 1..Size[u], ReadChunk(u, n) PROVE ClientInv'
      BY <2>5, ReadsChunk
    <2>6. ASSUME NEW i \in Parts(u), PresignedPut(u, i) PROVE ClientInv'
      BY <2>6, PutsPresigned
    <2>7. CASE CompleteMultipartUpload(u)
      BY <2>7, CompletesPresigned
    <2>8. CASE Upload(u)
      BY <2>8, WholeObjects
    <2>9. QED
      BY <1>1, <2>1, <2>2, <2>3, <2>4, <2>5, <2>6, <2>7, <2>8 DEF UploadNext
  <1>2. CASE Delete \/ Download \/ DownloadIfChanged \/ Receive
    BY <1>2, Downloads
  <1>3. CASE UNCHANGED storeVars
    <2>1. UNCHANGED <<object, uploads, phase, buf, taken, reading, copy, abandoned, unanswered, partial>>
      BY <1>3 DEF storeVars, history
    <2>2. /\ \A v \in Uploaders : Uploading(v, phase'[v], uploads'[v], buf'[v], taken'[v])
          /\ DOMAIN phase' = Uploaders /\ DOMAIN uploads' = Uploaders
          /\ DOMAIN buf' = Uploaders /\ DOMAIN taken' = Uploaders
      BY <2>1 DEF ClientInv
    <2>3. NothingLeftOpen'
      BY <2>1 DEF ClientInv, NothingLeftOpen
    <2>4. QED
      BY <2>1, <2>2, <2>3, WholeIs, ClientInvNext
  <1>4. QED
    BY <1>1, <1>2, <1>3 DEF StoreNext

\* The path, and every copy a reader completed, is one uploader's whole content, or
\* what a completion listed of it: upload_stream, complete_multipart_upload and the
\* downloads, whatever fails, dies or loses its answer.
THEOREM Object_WholeOrNothing == StoreSpec => []WholeOrNothing
  <1>1. ClientInv => WholeOrNothing
    BY DEF ClientInv
  <1>2. QED
    BY <1>1, ClientInit, ClientStep, PTL DEF StoreSpec

\* No multipart upload that nobody drives stays open, unless its caller died or the
\* abort itself failed; one whose create was not answered may, without a part.
THEOREM Uploads_NothingLeftOpen == StoreSpec => []NothingLeftOpen
  <1>1. ClientInv => NothingLeftOpen
    BY DEF ClientInv
  <1>2. QED
    BY <1>1, ClientInit, ClientStep, PTL DEF StoreSpec

-----------------------------------------------------------------------------
(* ChunkPipeline: what the writer seals is what its caller wrote, and what *)
(* the reader yields is its window.  Both are slices of Source, between    *)
(* offsets counted in bytes.                                               *)

Bytes == ToSet(Source)

Slice(a, b) == SubSeq(Source, a + 1, b)

\* The part of a sequence between two offsets.
Within(s, a, b) == SubSeq(s, a + 1, b)

LEMMA ChunkMultiples ==
  /\ ChunkBytes \in Nat /\ ChunkBytes >= 1
  /\ \A i \in Nat : i * ChunkBytes \in Nat /\ (i + 1) * ChunkBytes = i * ChunkBytes + ChunkBytes
  /\ \A i, j \in Nat : /\ (i + j) * ChunkBytes = i * ChunkBytes + j * ChunkBytes
                       /\ i <= j => i * ChunkBytes <= j * ChunkBytes
                       /\ i < j => i * ChunkBytes + ChunkBytes <= j * ChunkBytes
  <1>1. ChunkBytes \in Nat /\ ChunkBytes >= 1
    BY PipelineAssumption
  <1>2. \A i \in Nat : i * ChunkBytes \in Nat /\ (i + 1) * ChunkBytes = i * ChunkBytes + ChunkBytes
    BY <1>1
  <1>3. \A i, j \in Nat : (i + j) * ChunkBytes = i * ChunkBytes + j * ChunkBytes
    BY <1>1
  <1>4. \A i, j \in Nat : i <= j => i * ChunkBytes <= j * ChunkBytes
    <2>1. ASSUME NEW i \in Nat, NEW j \in Nat, i <= j
          PROVE  i * ChunkBytes <= j * ChunkBytes
      <3>1. PICK d \in Nat : j = i + d
        BY <2>1
      <3>2. j * ChunkBytes = i * ChunkBytes + d * ChunkBytes
        BY <1>3, <3>1
      <3>3. QED
        BY <1>2, <3>2
    <2>2. QED
      BY <2>1
  <1>5. \A i, j \in Nat : i < j => i * ChunkBytes + ChunkBytes <= j * ChunkBytes
    <2>1. ASSUME NEW i \in Nat, NEW j \in Nat, i < j
          PROVE  i * ChunkBytes + ChunkBytes <= j * ChunkBytes
      <3>1. i + 1 \in Nat /\ i + 1 <= j
        BY <2>1
      <3>2. (i + 1) * ChunkBytes <= j * ChunkBytes
        BY <1>4, <3>1
      <3>3. QED
        BY <1>2, <3>2
    <2>2. QED
      BY <2>1
  <1>6. QED
    BY <1>1, <1>2, <1>3, <1>4, <1>5

LEMMA SourceIs == Source \in Seq(Bytes) /\ Len(Source) \in Nat
  BY PipelineAssumption DEF Bytes

LEMMA SliceIs ==
  ASSUME NEW a \in Nat, NEW b \in Nat, a <= b, b <= Len(Source)
  PROVE  Slice(a, b) \in Seq(Bytes) /\ Len(Slice(a, b)) = b - a
  <1>1. a + 1 \in Int /\ b \in Int
    OBVIOUS
  <1>2. \A i \in a + 1..b : Source[i] \in Bytes
    <2>1. ASSUME NEW i \in a + 1..b
          PROVE  Source[i] \in Bytes
      <3>1. i \in 1..Len(Source)
        BY SourceIs
      <3>2. QED
        BY <3>1, SourceIs, ElementOfSeq
    <2>2. QED
      BY <2>1
  <1>3. /\ SubSeq(Source, a + 1, b) \in Seq(Bytes)
        /\ Len(SubSeq(Source, a + 1, b)) = IF a + 1 <= b THEN b - (a + 1) + 1 ELSE 0
    BY <1>1, <1>2, SubSeqProperties
  <1>4. (IF a + 1 <= b THEN b - (a + 1) + 1 ELSE 0) = b - a
    OBVIOUS
  <1>5. QED
    BY <1>3, <1>4 DEF Slice

LEMMA SliceNothing ==
  ASSUME NEW a \in Nat
  PROVE  Slice(a, a) = <<>>
  <1>1. a + 1 \in Int /\ a \in Int /\ a < a + 1
    OBVIOUS
  <1>2. QED
    BY <1>1, SubSeqEmpty DEF Slice

LEMMA SlicesJoin ==
  ASSUME NEW a \in Nat, NEW b \in Nat, NEW c \in Nat, a <= b, b <= c, c <= Len(Source)
  PROVE  Slice(a, b) \o Slice(b, c) = Slice(a, c)
  <1>1. a + 1 \in 1..Len(Source) + 1 /\ b \in (a + 1) - 1..Len(Source) /\ c \in b..Len(Source)
    BY SourceIs
  <1>2. QED
    BY <1>1, SourceIs, ConcatAdjacentSubSeq DEF Slice

LEMMA SliceOfSlice ==
  ASSUME NEW a \in Nat, NEW b \in Nat, NEW m \in Nat, NEW n \in Nat,
         a <= b, b <= Len(Source), m <= n, n <= b - a
  PROVE  Within(Slice(a, b), m, n) = Slice(a + m, a + n)
  <1>1. CASE m = n
    <2>1. SubSeq(Slice(a, b), m + 1, n) = <<>>
      <3>1. m + 1 \in Int /\ n \in Int /\ n < m + 1
        BY <1>1
      <3>2. QED
        BY <3>1, SubSeqEmpty
    <2>2. a + m \in Nat /\ a + m = a + n
      BY <1>1
    <2>3. QED
      BY <2>1, <2>2, SliceNothing DEF Within
  <1>2. CASE m < n
    <2>1. /\ a + 1 \in 1..Len(Source) /\ b \in 1..Len(Source)
          /\ m + 1 \in 1..b - (a + 1) + 1 /\ n \in 1..b - (a + 1) + 1
      BY <1>2, SourceIs
    <2>2. SubSeq(SubSeq(Source, a + 1, b), m + 1, n)
            = SubSeq(Source, (a + 1) + (m + 1) - 1, (a + 1) + n - 1)
      BY <2>1, SourceIs, SubSeqOfSubSeq
    <2>3. (a + 1) + (m + 1) - 1 = (a + m) + 1 /\ (a + 1) + n - 1 = a + n
      OBVIOUS
    <2>4. QED
      BY <2>2, <2>3 DEF Slice, Within
  <1>3. QED
    BY <1>1, <1>2

-----------------------------------------------------------------------------
(* The writer: whole chunks first, the rest in the buffer, and every chunk *)
(* whose upload is over and did not fail is in the store.                  *)

Uploaded(f) ==
  /\ DOMAIN f \subseteq 0..Len(entries) - 1
  /\ Cardinality(DOMAIN f) <= MaxInFlight
  /\ \A o \in DOMAIN f : f[o] \in {"sent", "ok", "err"}

Stored(f) ==
  \A o \in 0..Len(entries) - 1 :
    \/ o \in DOMAIN f /\ f[o] # "ok"
    \/ entries[o + 1] \in objects

Writing ==
  /\ total = Len(entries) * ChunkBytes + Len(buffer)
  /\ Len(buffer) < ChunkBytes
  /\ buffer = Slice(Len(entries) * ChunkBytes, total)
  /\ \A i \in 1..Len(entries) : entries[i] = Slice((i - 1) * ChunkBytes, i * ChunkBytes)
  /\ Uploaded(inFlight)
  /\ ~ error => Stored(inFlight)

\* Where the i-th chunk of n bytes ends.
ChunkEnd(i, n) == Lesser(i * ChunkBytes, n)

Sealed ==
  /\ manifest = [logicalLen |-> total, entries |-> entries, root |-> <<total, entries>>]
  /\ Len(entries) \in MinChunks..MaxChunks
  /\ (Len(entries) - 1) * ChunkBytes < total /\ total <= Len(entries) * ChunkBytes
  /\ \A i \in 1..Len(entries) : /\ entries[i] = Slice((i - 1) * ChunkBytes, ChunkEnd(i, total))
                                /\ entries[i] \in objects

WriterInv ==
  /\ total \in 0..Len(Source) /\ entries \in Seq(Seq(Bytes)) /\ buffer \in Seq(Bytes)
  /\ wpc \in {"open", "sealing", "sealed", "failed"}
  /\ wpc \in {"open", "sealing"} => Writing
  /\ wpc = "sealing" => ~ error
  /\ wpc = "sealed" => Sealed

LEMMA WriterInit == PipeInit => WriterInv
  <1> SUFFICES ASSUME PipeInit PROVE WriterInv
    OBVIOUS
  <1> USE DEF PipeInit
  <1>1. /\ entries = <<>> /\ buffer = <<>> /\ total = 0 /\ inFlight = Empty
        /\ wpc = "open" /\ error = FALSE
    OBVIOUS
  <1>2. /\ entries \in Seq(Seq(Bytes)) /\ buffer \in Seq(Bytes) /\ Len(entries) = 0 /\ Len(buffer) = 0
    BY <1>1, EmptySeq
  <1>3. total \in 0..Len(Source)
    BY <1>1, SourceIs
  <1>4. Uploaded(inFlight) /\ Stored(inFlight)
    <2>1. DOMAIN inFlight = {}
      BY <1>1 DEF Empty
    <2>2. Cardinality({}) = 0 /\ MaxInFlight \in Nat
      BY FS_EmptySet, PipelineAssumption
    <2>3. QED
      BY <1>2, <2>1, <2>2 DEF Uploaded, Stored
  <1>5. Writing
    <2>1. Slice(0, 0) = <<>>
      BY SliceNothing
    <2>2. 0 * ChunkBytes = 0 /\ 0 < ChunkBytes
      BY ChunkMultiples
    <2>3. QED
      BY <1>1, <1>2, <1>4, <2>1, <2>2 DEF Writing
  <1>6. QED
    BY <1>1, <1>2, <1>3, <1>5 DEF WriterInv

LEMMA TakenIs ==
  ASSUME NEW f, NEW o \in DOMAIN f, Uploaded(f), Len(entries) \in Nat
  PROVE  /\ Uploaded(Taken(f, o))
         /\ IsFiniteSet(DOMAIN f) /\ Cardinality(DOMAIN f) \in Nat
         /\ Cardinality(DOMAIN Taken(f, o)) = Cardinality(DOMAIN f) - 1
         /\ f[o] = "ok" /\ Stored(f) => Stored(Taken(f, o))
  <1>1. IsFiniteSet(DOMAIN f) /\ Cardinality(DOMAIN f) \in Nat
    <2>1. IsFiniteSet(0..Len(entries) - 1)
      BY FS_Interval
    <2>2. DOMAIN f \in SUBSET (0..Len(entries) - 1)
      BY DEF Uploaded
    <2>3. QED
      BY <2>1, <2>2, FS_Subset, FS_CardinalityType
  <1>2. DOMAIN Taken(f, o) = DOMAIN f \ {o} /\ \A p \in DOMAIN f \ {o} : Taken(f, o)[p] = f[p]
    BY DEF Taken
  <1>3. Cardinality(DOMAIN f \ {o}) = Cardinality(DOMAIN f) - 1
    BY <1>1, FS_RemoveElement
  <1>4. Uploaded(Taken(f, o))
    BY <1>1, <1>2, <1>3, PipelineAssumption DEF Uploaded
  <1>5. f[o] = "ok" /\ Stored(f) => Stored(Taken(f, o))
    BY <1>2 DEF Stored
  <1>6. QED
    BY <1>1, <1>2, <1>3, <1>4, <1>5

LEMMA IntervalCount ==
  ASSUME NEW a \in Nat, NEW n \in Nat
  PROVE  IsFiniteSet(a..a + n - 1) /\ Cardinality(a..a + n - 1) = n
  <1> DEFINE b == a + n - 1
  <1>1. b \in Int /\ (IF a > b THEN 0 ELSE b - a + 1) = n
    OBVIOUS
  <1> HIDE DEF b
  <1>2. IsFiniteSet(a..b) /\ Cardinality(a..b) = IF a > b THEN 0 ELSE b - a + 1
    BY <1>1, FS_Interval
  <1>3. QED
    BY <1>1, <1>2 DEF b

\* An interval of numbers, cut in two.
LEMMA IntervalsJoin ==
  ASSUME NEW a \in Nat, NEW b \in Nat, NEW m \in Nat, a <= b
  PROVE  /\ (a..b - 1) \cup (b..b + m - 1) = a..b + m - 1
         /\ (a..b - 1) \cap (b..b + m - 1) = {}
  <1>1. \A x : x \in a..b - 1 <=> x \in Int /\ a <= x /\ x < b
    OBVIOUS
  <1>2. \A x : x \in b..b + m - 1 <=> x \in Int /\ b <= x /\ x < b + m
    OBVIOUS
  <1>3. \A x : x \in a..b + m - 1 <=> x \in Int /\ a <= x /\ x < b + m
    OBVIOUS
  <1>4. \A x \in Int : /\ a <= x /\ x < b + m <=> (a <= x /\ x < b) \/ (b <= x /\ x < b + m)
                       /\ ~ (x < b /\ b <= x)
    OBVIOUS
  <1>5. QED
    BY <1>1, <1>2, <1>3, <1>4

\* Room for some uploads: what poll_write takes, and the chunks it makes of it.
LEMMA AcceptsBytes ==
  ASSUME WriterInv, Writing, NEW n \in Nat, total + n <= Len(Source), NEW out, Uploaded(out),
         Cardinality(DOMAIN out) < MaxInFlight, ~ error => Stored(out),
         Accept(n, out), UNCHANGED <<error, objects>>
  PROVE  /\ Writing'
         /\ total' \in 0..Len(Source) /\ entries' \in Seq(Seq(Bytes)) /\ buffer' \in Seq(Bytes)
  <1> DEFINE k == Len(entries)
             free == MaxInFlight - Cardinality(DOMAIN out)
             fits == Lesser(n, free * ChunkBytes - Len(buffer))
             bytes == buffer \o SubSeq(Source, total + 1, total + fits)
             full == Len(bytes) \div ChunkBytes
             cut == [i \in 1..full |-> SubSeq(bytes, (i - 1) * ChunkBytes + 1, i * ChunkBytes)]
             fresh == Len(entries)..Len(entries) + full - 1
             base == k * ChunkBytes
             cap == free * ChunkBytes
             whole == full * ChunkBytes
             cutoff == base + whole
             mark == total + fits
  <1>1. /\ buffer' = SubSeq(bytes, whole + 1, Len(bytes))
        /\ total' = mark
        /\ entries' = entries \o cut
        /\ inFlight' = [o \in DOMAIN out \cup fresh |-> IF o \in fresh THEN "sent" ELSE out[o]]
    BY Zenon DEF Accept
  <1>2. /\ k \in Nat /\ total \in Nat /\ total <= Len(Source) /\ Len(Source) \in Nat
        /\ entries \in Seq(Seq(Bytes)) /\ buffer \in Seq(Bytes) /\ Len(buffer) \in Nat
        /\ ChunkBytes \in Nat /\ ChunkBytes >= 1
    BY SourceIs, ChunkMultiples DEF WriterInv
  <1>3. /\ total = base + Len(buffer) /\ Len(buffer) < ChunkBytes
    BY DEF Writing
  <1>3a. /\ buffer = Slice(base, total)
         /\ \A i \in 1..k : entries[i] = Slice((i - 1) * ChunkBytes, i * ChunkBytes)
    BY DEF Writing
  <1>4. IsFiniteSet(DOMAIN out) /\ Cardinality(DOMAIN out) \in Nat
    <2>1. IsFiniteSet(0..Len(entries) - 1)
      BY <1>2, FS_Interval
    <2>2. DOMAIN out \in SUBSET (0..Len(entries) - 1)
      BY DEF Uploaded
    <2>3. QED
      BY <2>1, <2>2, FS_Subset, FS_CardinalityType
  <1>5. free \in Nat /\ free >= 1 /\ MaxInFlight \in Nat
    BY <1>4, PipelineAssumption
  <1> HIDE DEF k, free
  <1>6. cap \in Nat /\ cap >= ChunkBytes
    BY <1>5, ChunkMultiples
  <1>7. base \in Nat
    BY <1>2, ChunkMultiples
  <1> HIDE DEF cap, base
  <1>8. fits \in Nat /\ fits <= n /\ fits + Len(buffer) <= cap /\ fits = Lesser(n, cap - Len(buffer))
    <2> DEFINE gap == cap - Len(buffer)
    <2>1. fits = Lesser(n, gap)
      BY DEF cap
    <2>2. gap \in Nat /\ gap + Len(buffer) = cap
      BY <1>2, <1>3, <1>6
    <2> HIDE DEF fits, gap
    <2>3. fits \in Nat /\ fits <= n /\ fits <= gap
      BY <2>1, <2>2 DEF Lesser
    <2>4. fits + Len(buffer) <= cap
      BY <1>2, <1>6, <2>2, <2>3
    <2>5. QED
      BY <2>1, <2>3, <2>4 DEF gap
  <1> HIDE DEF fits
  <1>9. mark \in Nat /\ total <= mark /\ mark <= Len(Source) /\ base <= total /\ base <= mark
        /\ mark - base = Len(buffer) + fits
    BY <1>2, <1>3, <1>7, <1>8
  <1>10. bytes = Slice(base, mark)
    <2>1. bytes = Slice(base, total) \o Slice(total, mark)
      BY <1>3a DEF Slice
    <2> HIDE DEF bytes, mark
    <2>2. QED
      BY <1>2, <1>7, <1>9, <2>1, SlicesJoin
  <1> HIDE DEF bytes, mark
  <1>11. bytes \in Seq(Bytes) /\ Len(bytes) \in Nat /\ Len(bytes) = mark - base
    <2>1. bytes \in Seq(Bytes) /\ Len(bytes) = mark - base
      BY <1>7, <1>9, <1>10, SliceIs
    <2>2. QED
      BY <1>2, <1>7, <1>8, <1>9, <2>1
  <1>12. /\ full \in Nat /\ whole \in Nat
         /\ whole <= Len(bytes) /\ Len(bytes) < whole + ChunkBytes
    <2>1. \A a, b \in Nat : b >= 1 =>
            /\ a \div b \in Nat /\ (a \div b) * b \in Nat
            /\ (a \div b) * b <= a /\ a < (a \div b) * b + b
      OBVIOUS
    <2>2. QED
      BY <1>2, <1>11, <2>1
  <1> HIDE DEF full
  <1>13. full <= free
    <2>1. SUFFICES ASSUME free < full PROVE FALSE
      BY <1>5, <1>12
    <2>2. cap + ChunkBytes <= whole
      BY <1>5, <1>12, <2>1, ChunkMultiples DEF cap
    <2>3. Len(bytes) <= cap
      <3>1. Len(bytes) = fits + Len(buffer)
        BY <1>2, <1>8, <1>9, <1>11
      <3>2. QED
        BY <1>8, <3>1
    <2> HIDE DEF whole
    <2>4. QED
      BY <1>2, <1>6, <1>11, <1>12, <2>2, <2>3
  \* Every chunk cut from the bytes, and what is left, is a slice.
  <1>14. \A i \in 1..full :
           /\ SubSeq(bytes, (i - 1) * ChunkBytes + 1, i * ChunkBytes)
                = Slice((k + i - 1) * ChunkBytes, (k + i) * ChunkBytes)
           /\ SubSeq(bytes, (i - 1) * ChunkBytes + 1, i * ChunkBytes) \in Seq(Bytes)
    <2>1. ASSUME NEW i \in 1..full
          PROVE  /\ SubSeq(bytes, (i - 1) * ChunkBytes + 1, i * ChunkBytes)
                      = Slice((k + i - 1) * ChunkBytes, (k + i) * ChunkBytes)
                 /\ SubSeq(bytes, (i - 1) * ChunkBytes + 1, i * ChunkBytes) \in Seq(Bytes)
      <3> DEFINE lo == (i - 1) * ChunkBytes
                 hi == i * ChunkBytes
      <3>1. i - 1 \in Nat /\ i \in Nat /\ i <= full /\ i - 1 <= i /\ k + i - 1 = k + (i - 1)
        BY <1>2, <1>12
      <3>2. lo \in Nat /\ hi \in Nat /\ lo <= hi /\ hi <= whole
        BY <1>12, <3>1, ChunkMultiples
      <3>3. base + lo = (k + i - 1) * ChunkBytes /\ base + hi = (k + i) * ChunkBytes
        BY <1>2, <3>1, ChunkMultiples DEF base
      <3> HIDE DEF lo, hi, whole
      <3>4. hi <= mark - base /\ base + lo \in Nat /\ base + hi \in Nat
            /\ base + lo <= base + hi /\ base + hi <= Len(Source)
        BY <1>2, <1>7, <1>9, <1>11, <1>12, <3>2
      <3>5. Within(Slice(base, mark), lo, hi) = Slice(base + lo, base + hi)
        BY <1>7, <1>9, <3>2, <3>4, SliceOfSlice
      <3>6. Slice(base + lo, base + hi) \in Seq(Bytes)
        BY <3>4, SliceIs
      <3>7. QED
        BY <1>10, <3>3, <3>5, <3>6 DEF lo, hi, Within
    <2>2. QED
      BY <2>1
  <1>15. /\ k + full \in Nat /\ cutoff = (k + full) * ChunkBytes
         /\ cutoff \in Nat /\ cutoff <= mark /\ mark - cutoff < ChunkBytes
    <2>1. cutoff = (k + full) * ChunkBytes
      BY <1>2, <1>12, ChunkMultiples DEF base
    <2> HIDE DEF whole
    <2>2. cutoff \in Nat /\ cutoff <= mark /\ mark - cutoff < ChunkBytes
      BY <1>2, <1>7, <1>9, <1>11, <1>12
    <2>3. QED
      BY <1>2, <1>12, <2>1, <2>2
  <1> HIDE DEF whole
  <1>16. /\ buffer' = Slice(cutoff, mark)
         /\ buffer' \in Seq(Bytes) /\ Len(buffer') = mark - cutoff
    <2>1. base + Len(bytes) = mark /\ whole <= mark - base /\ Len(bytes) <= mark - base
      BY <1>7, <1>9, <1>11, <1>12
    <2>2. Within(Slice(base, mark), whole, Len(bytes)) = Slice(base + whole, base + Len(bytes))
      BY <1>7, <1>9, <1>11, <1>12, <2>1, SliceOfSlice
    <2>3. buffer' = Slice(cutoff, mark)
      BY <1>1, <1>10, <2>1, <2>2 DEF Within
    <2> HIDE DEF cutoff
    <2>4. QED
      BY <1>9, <1>15, <2>3, SliceIs
  <1> HIDE DEF cutoff
  <1>17. /\ cut \in Seq(Seq(Bytes)) /\ Len(cut) = full
         /\ \A i \in 1..full : cut[i] = Slice((k + i - 1) * ChunkBytes, (k + i) * ChunkBytes)
    <2>1. cut \in [1..full -> Seq(Bytes)]
      BY <1>14
    <2>2. \A i \in 1..full : cut[i] = SubSeq(bytes, (i - 1) * ChunkBytes + 1, i * ChunkBytes)
      OBVIOUS
    <2> HIDE DEF cut
    <2>3. cut \in Seq(Seq(Bytes)) /\ Len(cut) = full
      BY <1>12, <2>1, SeqDef
    <2>4. QED
      BY <1>14, <2>2, <2>3
  <1> HIDE DEF cut
  <1>18. /\ entries' \in Seq(Seq(Bytes)) /\ Len(entries') = k + full
         /\ \A i \in 1..k : entries'[i] = entries[i]
         /\ \A i \in k + 1..k + full : entries'[i] = cut[i - k]
    <2>1. /\ entries \o cut \in Seq(Seq(Bytes)) /\ Len(entries \o cut) = k + full
          /\ \A i \in 1..k + full :
               (entries \o cut)[i] = IF i <= k THEN entries[i] ELSE cut[i - k]
      BY <1>2, <1>17, ConcatProperties DEF k
    <2>2. entries' = entries \o cut
      BY <1>1
    <2>3. /\ entries' \in Seq(Seq(Bytes)) /\ Len(entries') = k + full
          /\ \A i \in 1..k + full : entries'[i] = IF i <= k THEN entries[i] ELSE cut[i - k]
      BY <2>1, <2>2
    <2>4. \A i \in 1..k : i \in 1..k + full /\ i <= k
      BY <1>2, <1>12
    <2>5. \A i \in k + 1..k + full : i \in 1..k + full /\ ~ (i <= k)
      BY <1>2, <1>12
    <2>6. \A i \in 1..k : entries'[i] = entries[i]
      BY <2>3, <2>4
    <2>7. \A i \in k + 1..k + full : entries'[i] = cut[i - k]
      BY <2>3, <2>5
    <2>8. QED
      BY <2>3, <2>6, <2>7
  <1>19. \A i \in 1..k + full : entries'[i] = Slice((i - 1) * ChunkBytes, i * ChunkBytes)
    <2>1. ASSUME NEW i \in 1..k + full
          PROVE  entries'[i] = Slice((i - 1) * ChunkBytes, i * ChunkBytes)
      <3>1. CASE i <= k
        <4>1. i \in 1..k
          BY <1>2, <3>1
        <4>2. QED
          BY <1>3a, <1>18, <4>1
      <3>2. CASE i > k
        <4>1. PICK d \in 1..full : d = i - k /\ k + d = i /\ k + d - 1 = i - 1 /\ i \in k + 1..k + full
          BY <1>2, <1>12, <3>2
        <4>2. cut[d] = Slice((k + d - 1) * ChunkBytes, (k + d) * ChunkBytes)
          BY <1>17
        <4>3. QED
          BY <1>18, <4>1, <4>2
      <3>3. QED
        BY <1>2, <1>12, <3>1, <3>2
    <2>2. QED
      BY <2>1
  <1> DEFINE made == k..k + full - 1
  <1>20. /\ IsFiniteSet(made) /\ Cardinality(made) = full
         /\ made \subseteq 0..k + full - 1 /\ 0..k - 1 \subseteq 0..k + full - 1
         /\ 0..k - 1 \cap made = {} /\ 0..k + full - 1 = (0..k - 1) \cup made
    <2>1. IsFiniteSet(made) /\ Cardinality(made) = full
      BY <1>2, <1>12, IntervalCount
    <2>2. (0..k - 1) \cup made = 0..k + full - 1 /\ (0..k - 1) \cap made = {}
      BY <1>2, <1>12, IntervalsJoin
    <2> HIDE DEF made
    <2>3. QED
      BY <2>1, <2>2
  <1>21. /\ DOMAIN inFlight' = DOMAIN out \cup made
         /\ \A o \in made : inFlight'[o] = "sent"
         /\ \A o \in DOMAIN out : o \in made \/ inFlight'[o] = out[o]
    BY <1>1 DEF k
  <1>22. DOMAIN out \subseteq 0..k - 1 /\ \A o \in DOMAIN out : out[o] \in {"sent", "ok", "err"}
    BY DEF Uploaded, k
  <1> HIDE DEF made
  <1>23. Len(entries') - 1 = k + full - 1
    BY <1>2, <1>12, <1>18
  <1>24. Uploaded(inFlight)'
    <2>1. DOMAIN inFlight' \subseteq 0..Len(entries') - 1
      BY <1>20, <1>21, <1>22, <1>23
    <2>2. Cardinality(DOMAIN inFlight') <= MaxInFlight
      <3>1. DOMAIN out \cap made = {}
        BY <1>20, <1>22
      <3>2. Cardinality(DOMAIN inFlight') = Cardinality(DOMAIN out) + full - Cardinality({})
        BY <1>4, <1>20, <1>21, <3>1, FS_Union
      <3>3. Cardinality({}) = 0
        BY FS_EmptySet
      <3>4. QED
        BY <1>4, <1>5, <1>12, <1>13, <3>2, <3>3 DEF free
    <2>3. \A o \in DOMAIN inFlight' : inFlight'[o] \in {"sent", "ok", "err"}
      BY <1>21, <1>22
    <2>4. QED
      BY <2>1, <2>2, <2>3 DEF Uploaded
  <1>25. ~ error => Stored(inFlight)'
    <2>1. ASSUME ~ error, NEW o \in 0..Len(entries') - 1
          PROVE  \/ o \in DOMAIN inFlight' /\ inFlight'[o] # "ok"
                 \/ entries'[o + 1] \in objects'
      <3>1. CASE o \in made
        BY <1>21, <3>1
      <3>2. CASE o \in 0..k - 1
        <4>1. o + 1 \in 1..k /\ o \notin made
          BY <1>2, <1>20, <3>2
        <4>2. \/ o \in DOMAIN out /\ out[o] # "ok"
              \/ entries[o + 1] \in objects
          BY <2>1, <3>2 DEF Stored, k
        <4>3. QED
          BY <1>18, <1>21, <4>1, <4>2
      <3>3. QED
        BY <1>20, <1>23, <3>1, <3>2
    <2>2. QED
      BY <2>1 DEF Stored
  <1>26. total' = Len(entries') * ChunkBytes + Len(buffer') /\ Len(buffer') < ChunkBytes
    <2>1. Len(entries') * ChunkBytes = cutoff
      BY <1>15, <1>18
    <2>2. QED
      BY <1>1, <1>9, <1>15, <1>16, <2>1
  <1>27. buffer' = Slice(Len(entries') * ChunkBytes, total')
    BY <1>1, <1>15, <1>16, <1>18
  <1>28. \A i \in 1..Len(entries') : entries'[i] = Slice((i - 1) * ChunkBytes, i * ChunkBytes)
    BY <1>18, <1>19
  <1>29. Writing'
    BY <1>24, <1>25, <1>26, <1>27, <1>28 DEF Writing, Slice
  <1>30. QED
    BY <1>1, <1>2, <1>9, <1>16, <1>18, <1>29

\* A step that leaves the bytes alone and takes no upload's place.
LEMMA WritingKept ==
  ASSUME Writing, UNCHANGED <<buffer, total, entries>>, Uploaded(inFlight'),
         ~ error' => Stored(inFlight)'
  PROVE  Writing'
  <1>1. Uploaded(inFlight)'
    BY DEF Uploaded
  <1>2. /\ (total = Len(entries) * ChunkBytes + Len(buffer))'
        /\ (Len(buffer) < ChunkBytes)'
        /\ (buffer = Slice(Len(entries) * ChunkBytes, total))'
        /\ (\A i \in 1..Len(entries) : entries[i] = Slice((i - 1) * ChunkBytes, i * ChunkBytes))'
    BY DEF Writing, Slice
  <1>3. QED
    BY <1>1, <1>2 DEF Writing

\* An upload that is over is taken out; a failed one is remembered.
LEMMA TakesUpload ==
  ASSUME WriterInv, Writing, NEW o \in DOMAIN inFlight, inFlight[o] # "sent",
         inFlight' = Taken(inFlight, o), UNCHANGED <<buffer, total, entries, objects>>,
         ~ error' => ~ error /\ inFlight[o] # "err"
  PROVE  Writing'
  <1>1. Len(entries) \in Nat
    BY DEF WriterInv
  <1>2. Uploaded(inFlight) /\ (~ error => Stored(inFlight)) /\ inFlight[o] \in {"sent", "ok", "err"}
    BY DEF Writing, Uploaded
  <1>3. Uploaded(inFlight')
    BY <1>1, <1>2, TakenIs
  <1>4. ~ error' => Stored(Taken(inFlight, o))
    BY <1>1, <1>2, TakenIs
  <1>5. ~ error' => Stored(inFlight)'
    BY <1>4 DEF Stored
  <1>6. QED
    BY <1>3, <1>5, WritingKept

LEMMA PollsWrite ==
  ASSUME WriterInv, NEW n \in Nat, PollWrite(n)
  PROVE  WriterInv'
  <1>1. /\ wpc = "open" /\ ~ error /\ total + n <= Len(Source)
        /\ UNCHANGED <<objects, wpc, manifest>>
    BY DEF PollWrite, reader
  <1>2. Writing /\ Uploaded(inFlight) /\ Stored(inFlight)
        /\ total \in 0..Len(Source) /\ entries \in Seq(Seq(Bytes)) /\ buffer \in Seq(Bytes)
    BY <1>1 DEF WriterInv, Writing
  <1>3. SUFFICES /\ Writing'
                 /\ total' \in 0..Len(Source) /\ entries' \in Seq(Seq(Bytes))
                 /\ buffer' \in Seq(Bytes)
    BY <1>1, SourceIs DEF WriterInv
  <1>4. Len(entries) \in Nat
    BY <1>2
  <1>5. CASE error' = TRUE /\ UNCHANGED <<buffer, total, entries, inFlight>>
    <2>1. Uploaded(inFlight')
      BY <1>2, <1>5
    <2>2. Writing'
      BY <1>2, <1>5, <2>1, WritingKept
    <2>3. QED
      BY <1>2, <1>5, <2>2, SourceIs
  <1>6. CASE Cardinality(DOMAIN inFlight) < MaxInFlight /\ Accept(n, inFlight) /\ UNCHANGED error
    BY <1>1, <1>2, <1>6, AcceptsBytes
  <1>7. ASSUME NEW o \in In(inFlight, "ok"), Accept(n, Taken(inFlight, o)), UNCHANGED error
        PROVE  /\ Writing'
               /\ total' \in 0..Len(Source) /\ entries' \in Seq(Seq(Bytes))
               /\ buffer' \in Seq(Bytes)
    <2>1. o \in DOMAIN inFlight /\ inFlight[o] = "ok"
      BY DEF In
    <2>2. /\ Uploaded(Taken(inFlight, o)) /\ Stored(Taken(inFlight, o))
          /\ Cardinality(DOMAIN inFlight) \in Nat
          /\ Cardinality(DOMAIN Taken(inFlight, o)) = Cardinality(DOMAIN inFlight) - 1
      BY <1>2, <1>4, <2>1, TakenIs
    <2>3. Cardinality(DOMAIN Taken(inFlight, o)) < MaxInFlight
      BY <1>2, <2>2, PipelineAssumption DEF Uploaded
    <2>4. QED
      BY <1>1, <1>2, <1>7, <2>2, <2>3, AcceptsBytes
  <1>8. ASSUME NEW o \in In(inFlight, "err"), inFlight' = Taken(inFlight, o), error' = TRUE,
               UNCHANGED <<buffer, total, entries>>
        PROVE  /\ Writing'
               /\ total' \in 0..Len(Source) /\ entries' \in Seq(Seq(Bytes))
               /\ buffer' \in Seq(Bytes)
    <2>1. o \in DOMAIN inFlight /\ inFlight[o] # "sent"
      BY DEF In
    <2>2. Writing'
      BY <1>1, <1>2, <1>8, <2>1, TakesUpload
    <2>3. QED
      BY <1>2, <1>8, <2>2, SourceIs
  <1>9. QED
    BY <1>5, <1>6, <1>7, <1>8 DEF PollWrite

LEMMA PollsFlushOrDrains ==
  ASSUME WriterInv, PollFlush \/ \E o \in DOMAIN inFlight : Drain(o)
  PROVE  WriterInv'
  <1>1. wpc \in {"open", "sealing"} /\ ~ error /\ UNCHANGED <<buffer, total, entries, objects, manifest>>
    BY DEF PollFlush, Drain, WriterInv, reader
  <1>2. PICK o \in DOMAIN inFlight :
          /\ inFlight[o] # "sent" /\ inFlight' = Taken(inFlight, o)
          /\ \/ wpc = "open" /\ wpc' = "open" /\ error' = (inFlight[o] = "err")
             \/ /\ wpc = "sealing" /\ UNCHANGED error
                /\ wpc' = IF inFlight[o] = "err" THEN "failed" ELSE "sealing"
    BY <1>1 DEF PollFlush, Drain, reader
  <1>3. Writing /\ total \in 0..Len(Source) /\ entries \in Seq(Seq(Bytes)) /\ buffer \in Seq(Bytes)
    BY <1>1 DEF WriterInv
  <1>4. CASE wpc' = "failed"
    BY <1>1, <1>3, <1>4, SourceIs DEF WriterInv
  <1>5. CASE wpc' # "failed"
    <2>1. ~ error' => ~ error /\ inFlight[o] # "err"
      <3>1. CASE wpc = "open" /\ error' = (inFlight[o] = "err")
        BY <1>1, <3>1, Zenon
      <3>2. CASE wpc = "sealing" /\ UNCHANGED error /\ wpc' = IF inFlight[o] = "err" THEN "failed" ELSE "sealing"
        BY <1>5, <3>2
      <3>3. QED
        BY <1>2, <3>1, <3>2
    <2>2. Writing'
      BY <1>1, <1>2, <1>3, <2>1, TakesUpload
    <2>3. wpc' \in {"open", "sealing"} /\ (wpc' = "sealing" => ~ error')
      BY <1>1, <1>2, <1>5
    <2>4. QED
      BY <1>1, <1>3, <2>2, <2>3, SourceIs DEF WriterInv
  <1>6. QED
    BY <1>4, <1>5

LEMMA UploadsEnd ==
  ASSUME WriterInv, NEW o \in DOMAIN inFlight, UploadEnds(o)
  PROVE  WriterInv'
  <1>1. /\ objects \subseteq objects' /\ UNCHANGED <<buffer, total, entries, error, wpc, manifest>>
        /\ \/ inFlight' = [inFlight EXCEPT ![o] = "ok"] /\ entries[o + 1] \in objects'
           \/ inFlight' = [inFlight EXCEPT ![o] = "err"]
    BY DEF UploadEnds, reader
  <1>2. CASE wpc \in {"open", "sealing"}
    <2>1. Writing /\ Uploaded(inFlight) /\ (~ error => Stored(inFlight))
      BY <1>2 DEF WriterInv, Writing
    <2>2. DOMAIN inFlight' = DOMAIN inFlight /\ \A p \in DOMAIN inFlight : p = o \/ inFlight'[p] = inFlight[p]
      BY <1>1
    <2>3. inFlight'[o] \in {"ok", "err"} /\ (inFlight'[o] = "ok" => entries[o + 1] \in objects')
      BY <1>1
    <2>4. Uploaded(inFlight')
      BY <2>1, <2>2, <2>3 DEF Uploaded
    <2>5. ~ error' => Stored(inFlight)'
      BY <1>1, <2>1, <2>2, <2>3 DEF Stored
    <2>6. Writing'
      BY <1>1, <2>1, <2>4, <2>5, WritingKept
    <2>7. QED
      BY <1>1, <1>2, <2>6, SourceIs DEF WriterInv
  <1>3. CASE wpc = "sealed"
    <2>1. Sealed'
      BY <1>1, <1>3 DEF WriterInv, Sealed, Slice, ChunkEnd
    <2>2. QED
      BY <1>1, <1>3, <2>1, SourceIs DEF WriterInv
  <1>4. CASE wpc = "failed"
    BY <1>1, <1>4, SourceIs DEF WriterInv
  <1>5. QED
    BY <1>2, <1>3, <1>4 DEF WriterInv

LEMMA Seals ==
  ASSUME WriterInv, Seal
  PROVE  WriterInv'
  <1>1. /\ wpc = "open" /\ wpc' = (IF error THEN "failed" ELSE "sealing")
        /\ UNCHANGED <<buffer, total, entries, inFlight, objects, error, manifest>>
    BY DEF Seal, reader
  <1>2. Writing'
    <2>1. Uploaded(inFlight) /\ (~ error => Stored(inFlight)) /\ Writing
      BY <1>1 DEF WriterInv, Writing
    <2>2. Uploaded(inFlight') /\ (~ error' => Stored(inFlight)')
      BY <1>1, <2>1 DEF Stored
    <2>3. QED
      BY <1>1, <2>1, <2>2, WritingKept
  <1>3. QED
    BY <1>1, <1>2, SourceIs DEF WriterInv

\* The tail is uploaded and the manifest made, or the writer has failed.
LEMMA SealsTail ==
  ASSUME WriterInv, SealTail
  PROVE  WriterInv'
  <1> DEFINE k == Len(entries)
             P == Len(entries')
             record == [logicalLen |-> total, entries |-> entries', root |-> <<total, entries'>>]
  <1>1. /\ wpc = "sealing" /\ DOMAIN inFlight = {}
        /\ entries' = IF buffer = <<>> THEN entries ELSE Append(entries, buffer)
        /\ buffer' = <<>> /\ UNCHANGED total
    BY DEF SealTail
  <1>2. /\ Writing /\ ~ error /\ Stored(inFlight)
        /\ total \in 0..Len(Source) /\ entries \in Seq(Seq(Bytes)) /\ buffer \in Seq(Bytes)
    BY <1>1 DEF WriterInv, Writing
  <1>3. /\ entries' \in Seq(Seq(Bytes)) /\ buffer' \in Seq(Bytes) /\ total' \in 0..Len(Source)
        /\ k \in Nat /\ Len(Source) \in Nat /\ total \in Nat /\ Len(buffer) \in Nat
    BY <1>1, <1>2, SourceIs, EmptySeq, AppendProperties
  <1>4. CASE wpc' = "failed"
    BY <1>3, <1>4 DEF WriterInv
  <1>5. CASE wpc' # "failed"
    <2>1. /\ objects' = IF buffer = <<>> THEN objects ELSE objects \cup {buffer}
          /\ wpc' = "sealed" /\ manifest' = record /\ P \in MinChunks..MaxChunks
      BY <1>5 DEF SealTail, SealEnds
    <2>2. /\ total = k * ChunkBytes + Len(buffer) /\ Len(buffer) < ChunkBytes
          /\ buffer = Slice(k * ChunkBytes, total)
          /\ \A i \in 1..k : entries[i] = Slice((i - 1) * ChunkBytes, i * ChunkBytes)
      BY <1>2 DEF Writing
    <2>3. \A i \in 1..k : entries[i] \in objects
      <3>1. ASSUME NEW i \in 1..k
            PROVE  entries[i] \in objects
        <4>1. i - 1 \in 0..k - 1 /\ (i - 1) + 1 = i
          BY <1>3
        <4>2. entries[(i - 1) + 1] \in objects
          BY <1>1, <1>2, <4>1 DEF Stored
        <4>3. QED
          BY <4>1, <4>2
      <3>2. QED
        BY <3>1
    <2>4. \A i \in 1..k : ChunkEnd(i, total) = i * ChunkBytes
      <3>1. ASSUME NEW i \in 1..k
            PROVE  ChunkEnd(i, total) = i * ChunkBytes
        <4>1. i * ChunkBytes <= k * ChunkBytes /\ i * ChunkBytes \in Nat /\ k * ChunkBytes \in Nat
          BY <1>3, ChunkMultiples
        <4>2. k * ChunkBytes <= total
          BY <1>3, <2>2, <4>1
        <4>3. i * ChunkBytes <= total
          BY <1>3, <4>1, <4>2
        <4>4. QED
          BY <4>3 DEF ChunkEnd, Lesser
      <3>2. QED
        BY <3>1
    <2>5. CASE buffer = <<>>
      <3>1. entries' = entries /\ objects' = objects /\ Len(buffer) = 0 /\ P = k
        BY <1>1, <2>1, <2>5
      <3>2. P >= 1 /\ P \in Nat
        BY <2>1, PipelineAssumption
      <3>3. (P - 1) * ChunkBytes < total /\ total <= P * ChunkBytes
        <4>1. P - 1 \in Nat /\ (P - 1) + 1 = P
          BY <3>2
        <4>2. P * ChunkBytes = (P - 1) * ChunkBytes + ChunkBytes /\ (P - 1) * ChunkBytes \in Nat
              /\ ChunkBytes >= 1 /\ ChunkBytes \in Nat
          BY <4>1, ChunkMultiples
        <4>3. total = P * ChunkBytes
          BY <1>3, <2>2, <3>1, ChunkMultiples
        <4>4. QED
          BY <4>2, <4>3
      <3>4. \A i \in 1..P : /\ entries'[i] = Slice((i - 1) * ChunkBytes, ChunkEnd(i, total))
                            /\ entries'[i] \in objects'
        BY <2>2, <2>3, <2>4, <3>1
      <3>5. Sealed'
        BY <1>1, <2>1, <3>3, <3>4 DEF Sealed, Slice, ChunkEnd
      <3>6. QED
        BY <1>3, <2>1, <3>5 DEF WriterInv
    <2>6. CASE buffer # <<>>
      <3>1. /\ entries' = Append(entries, buffer) /\ objects' = objects \cup {buffer}
            /\ P = k + 1 /\ entries'[k + 1] = buffer
            /\ \A i \in 1..k : entries'[i] = entries[i]
        BY <1>1, <1>2, <2>1, <2>6, AppendProperties
      <3>2. Len(buffer) >= 1
        BY <1>2, <1>3, <2>6, EmptySeq
      <3>3. (P - 1) * ChunkBytes < total /\ total <= P * ChunkBytes
        <4>1. P - 1 = k
          BY <1>3, <3>1
        <4>2. (k + 1) * ChunkBytes = k * ChunkBytes + ChunkBytes /\ k * ChunkBytes \in Nat
              /\ ChunkBytes \in Nat
          BY <1>3, ChunkMultiples
        <4>3. k * ChunkBytes < total /\ total <= k * ChunkBytes + ChunkBytes
          BY <1>3, <2>2, <3>2, <4>2
        <4>4. QED
          BY <3>1, <4>1, <4>2, <4>3
      <3>4. ChunkEnd(k + 1, total) = total
        <4>1. (k + 1) * ChunkBytes = P * ChunkBytes
          BY <3>1
        <4>2. (k + 1) * ChunkBytes \in Nat
          BY <1>3, ChunkMultiples
        <4>3. QED
          BY <1>3, <3>3, <4>1, <4>2 DEF ChunkEnd, Lesser
      <3>5. \A i \in 1..P : /\ entries'[i] = Slice((i - 1) * ChunkBytes, ChunkEnd(i, total))
                            /\ entries'[i] \in objects'
        <4>1. ASSUME NEW i \in 1..P
              PROVE  /\ entries'[i] = Slice((i - 1) * ChunkBytes, ChunkEnd(i, total))
                     /\ entries'[i] \in objects'
          <5>1. CASE i \in 1..k
            BY <2>2, <2>3, <2>4, <3>1, <5>1
          <5>2. CASE i = k + 1
            <6>1. i - 1 = k
              BY <1>3, <5>2
            <6>2. QED
              BY <2>2, <3>1, <3>4, <5>2, <6>1
          <5>3. QED
            BY <1>3, <3>1, <5>1, <5>2
        <4>2. QED
          BY <4>1
      <3>6. Sealed'
        BY <1>1, <2>1, <3>3, <3>5 DEF Sealed, Slice, ChunkEnd
      <3>7. QED
        BY <1>3, <2>1, <3>6 DEF WriterInv
    <2>7. QED
      BY <2>5, <2>6
  <1>6. QED
    BY <1>4, <1>5

\* Nothing that the reader does touches the writer.
LEMMA WriterUntouched == WriterInv /\ UNCHANGED writer => WriterInv'
  <1> SUFFICES ASSUME WriterInv, UNCHANGED writer PROVE WriterInv'
    OBVIOUS
  <1>1. UNCHANGED <<buffer, total, entries, inFlight, objects, error, wpc, manifest>>
    BY DEF writer
  <1>2. Writing => Writing'
    BY <1>1 DEF Writing, Uploaded, Stored, Slice
  <1>3. Sealed => Sealed'
    BY <1>1 DEF Sealed, Slice, ChunkEnd
  <1>4. QED
    BY <1>1, <1>2, <1>3 DEF WriterInv

LEMMA WriterStep == WriterInv /\ [PipeNext]_pipeVars => WriterInv'
  <1> SUFFICES ASSUME WriterInv, [PipeNext]_pipeVars PROVE WriterInv'
    OBVIOUS
  <1>1. ASSUME NEW n \in 1..MaxBuf, PollWrite(n) PROVE WriterInv'
    <2>1. n \in Nat
      BY PipelineAssumption
    <2>2. QED
      BY <1>1, <2>1, PollsWrite
  <1>2. CASE PollFlush \/ \E o \in DOMAIN inFlight : Drain(o)
    BY <1>2, PollsFlushOrDrains
  <1>3. CASE Seal
    BY <1>3, Seals
  <1>4. CASE SealTail
    BY <1>4, SealsTail
  <1>5. ASSUME NEW o \in DOMAIN inFlight, UploadEnds(o) PROVE WriterInv'
    BY <1>5, UploadsEnd
  <1>6. CASE \/ \E from, to \in 0..Len(Source) : OpenStream(from, to)
             \/ \E m \in 1..MaxBuf : PollRead(m)
             \/ PollLoop
             \/ \E o \in DOMAIN fetches : FetchEnds(o)
             \/ UNCHANGED pipeVars
    <2>1. UNCHANGED writer
      BY <1>6 DEF OpenStream, PollRead, PollLoop, FetchEnds, pipeVars
    <2>2. QED
      BY <2>1, WriterUntouched
  <1>7. QED
    BY <1>1, <1>2, <1>3, <1>4, <1>5, <1>6 DEF PipeNext

\* The chunks of a sealed value: where each starts and ends, and that they join.
LEMMA SealedChunks ==
  ASSUME WriterInv, wpc = "sealed"
  PROVE  LET P == Len(entries) IN
         /\ manifest.entries = entries /\ manifest.logicalLen = total
         /\ P \in Nat /\ P >= 1 /\ P \in MinChunks..MaxChunks
         /\ total \in Nat /\ total <= Len(Source)
         /\ (P - 1) * ChunkBytes < total /\ total <= P * ChunkBytes
         /\ \A i \in 1..P - 1 : ChunkEnd(i, total) = i * ChunkBytes
         /\ ChunkEnd(P, total) = total /\ ChunkEnd(0, total) = 0
         /\ \A i \in 1..P : /\ ChunkEnd(i - 1, total) = (i - 1) * ChunkBytes
                            /\ (i - 1) * ChunkBytes \in Nat
                            /\ ChunkEnd(i, total) \in (i - 1) * ChunkBytes + 1..total
                            /\ entries[i] = Slice((i - 1) * ChunkBytes, ChunkEnd(i, total))
  <1> DEFINE P == Len(entries)
             low == (P - 1) * ChunkBytes
             high == P * ChunkBytes
  <1>1. Sealed /\ total \in Nat /\ total <= Len(Source) /\ Len(Source) \in Nat
    BY SourceIs DEF WriterInv
  <1>2. /\ manifest.entries = entries /\ manifest.logicalLen = total
        /\ P \in Nat /\ P >= 1 /\ P \in MinChunks..MaxChunks
    BY <1>1, PipelineAssumption DEF Sealed
  <1>3. low < total /\ total <= high
    BY <1>1 DEF Sealed
  <1>4. \A i \in 1..P : entries[i] = Slice((i - 1) * ChunkBytes, ChunkEnd(i, total))
    BY <1>1 DEF Sealed
  <1>5. low \in Nat /\ high \in Nat /\ P - 1 \in Nat
    BY <1>2, ChunkMultiples
  <1> HIDE DEF P
  <1>6. \A i \in 0..P - 1 : i * ChunkBytes \in Nat /\ i * ChunkBytes <= low
    BY <1>2, <1>5, ChunkMultiples
  <1> HIDE DEF low
  <1>7. \A i \in 0..P - 1 : i * ChunkBytes < total /\ ChunkEnd(i, total) = i * ChunkBytes
    <2>1. ASSUME NEW i \in 0..P - 1
          PROVE  i * ChunkBytes < total /\ ChunkEnd(i, total) = i * ChunkBytes
      <3> DEFINE x == i * ChunkBytes
      <3>1. x \in Nat /\ x <= low
        BY <1>6
      <3> HIDE DEF x
      <3>2. x < total
        BY <1>1, <1>3, <1>5, <3>1
      <3>3. Lesser(x, total) = x
        BY <1>1, <3>1, <3>2 DEF Lesser
      <3>4. QED
        BY <3>2, <3>3 DEF x, ChunkEnd
    <2>2. QED
      BY <2>1
  <1>8. ChunkEnd(P, total) = total
    <2>1. Lesser(high, total) = total
      <3> HIDE DEF high
      <3>1. QED
        BY <1>1, <1>3, <1>5 DEF Lesser
    <2>2. QED
      BY <2>1 DEF ChunkEnd
  <1>9. ChunkEnd(0, total) = 0
    <2>1. 0 \in 0..P - 1 /\ 0 * ChunkBytes = 0
      BY <1>2, ChunkMultiples
    <2>2. QED
      BY <1>7, <2>1
  <1>10. \A i \in 1..P : /\ ChunkEnd(i - 1, total) = (i - 1) * ChunkBytes
                         /\ (i - 1) * ChunkBytes \in Nat
                         /\ ChunkEnd(i, total) \in (i - 1) * ChunkBytes + 1..total
    <2>1. ASSUME NEW i \in 1..P
          PROVE  /\ ChunkEnd(i - 1, total) = (i - 1) * ChunkBytes
                 /\ (i - 1) * ChunkBytes \in Nat
                 /\ ChunkEnd(i, total) \in (i - 1) * ChunkBytes + 1..total
      <3> DEFINE x == (i - 1) * ChunkBytes
                 y == i * ChunkBytes
      <3>1. i - 1 \in 0..P - 1 /\ i - 1 \in Nat /\ i \in Nat /\ (i - 1) + 1 = i
        BY <1>2
      <3>2. x \in Nat /\ x < total /\ ChunkEnd(i - 1, total) = x
        BY <1>6, <1>7, <3>1
      <3>3. y = x + ChunkBytes /\ ChunkBytes \in Nat /\ ChunkBytes >= 1
        BY <3>1, ChunkMultiples
      <3>4. ChunkEnd(i, total) = Lesser(y, total)
        BY DEF ChunkEnd
      <3> HIDE DEF x, y
      <3>5. Lesser(y, total) \in x + 1..total
        BY <1>1, <3>2, <3>3 DEF Lesser
      <3>6. QED
        BY <3>2, <3>4, <3>5 DEF x
    <2>2. QED
      BY <2>1
  <1>11. \A i \in 1..P - 1 : ChunkEnd(i, total) = i * ChunkBytes
    BY <1>7
  <1>12. QED
    BY <1>1, <1>2, <1>3, <1>4, <1>8, <1>9, <1>10, <1>11 DEF P, low, high

LEMMA SealedJoins ==
  ASSUME WriterInv, wpc = "sealed"
  PROVE  FlattenSeq(entries) = Slice(0, total)
  <1> DEFINE P == Len(entries)
             cut == [i \in 0..P |-> ChunkEnd(i, total)]
  <1>1. /\ P \in Nat /\ P >= 1 /\ total \in Nat /\ total <= Len(Source)
        /\ ChunkEnd(P, total) = total /\ ChunkEnd(0, total) = 0
    BY SealedChunks
  <1>2. \A i \in 1..P : /\ ChunkEnd(i - 1, total) = (i - 1) * ChunkBytes
                        /\ (i - 1) * ChunkBytes \in Nat
                        /\ ChunkEnd(i, total) \in (i - 1) * ChunkBytes + 1..total
                        /\ entries[i] = Slice((i - 1) * ChunkBytes, ChunkEnd(i, total))
    BY SealedChunks
  <1> HIDE DEF P
  <1>3. \A i \in 1..P : /\ ChunkEnd(i - 1, total) \in Nat /\ ChunkEnd(i, total) \in 0..Len(Source)
                        /\ ChunkEnd(i - 1, total) <= ChunkEnd(i, total)
                        /\ entries[i] = Slice(ChunkEnd(i - 1, total), ChunkEnd(i, total))
    <2>1. ASSUME NEW i \in 1..P
          PROVE  /\ ChunkEnd(i - 1, total) \in Nat /\ ChunkEnd(i, total) \in 0..Len(Source)
                 /\ ChunkEnd(i - 1, total) <= ChunkEnd(i, total)
                 /\ entries[i] = Slice(ChunkEnd(i - 1, total), ChunkEnd(i, total))
      <3>1. PICK x \in Nat : x = (i - 1) * ChunkBytes
        BY <1>2
      <3>2. /\ ChunkEnd(i - 1, total) = x /\ ChunkEnd(i, total) \in x + 1..total
            /\ entries[i] = Slice(x, ChunkEnd(i, total))
        BY <1>2, <3>1
      <3>3. QED
        BY <1>1, <3>2, SourceIs
    <2>2. QED
      BY <2>1
  <1>4. cut \in [0..P -> 0..Len(Source)]
    <2>1. ASSUME NEW i \in 0..P
          PROVE  ChunkEnd(i, total) \in 0..Len(Source)
      <3>1. i = 0 \/ i \in 1..P
        BY <1>1
      <3>2. QED
        BY <1>1, <1>3, <3>1, SourceIs
    <2>2. QED
      BY <2>1
  <1>5. \A i \in 0..P : cut[i] = ChunkEnd(i, total)
    OBVIOUS
  <1>6. \A i \in 1..P : i - 1 \in 0..P /\ i \in 0..P
    BY <1>1
  <1> HIDE DEF cut
  <1>7. cut[0] = 0 /\ cut[P] = total
    BY <1>1, <1>5
  <1>8. \A i \in 1..P : cut[i - 1] <= cut[i]
    BY <1>3, <1>5, <1>6
  <1>9. \A i \in 1..P : entries[i] = Slice(cut[i - 1], cut[i])
    BY <1>3, <1>5, <1>6
  <1>10. \A i \in 1..P : entries[i] = SubSeq(Source, cut[i - 1] + 1, cut[i])
    BY <1>9 DEF Slice
  <1>11. CutsInto(Source, P, cut, entries)
    BY <1>1, <1>4, <1>7, <1>8, <1>10 DEF CutsInto, P
  <1>12. FlattenSeq(entries) = SubSeq(Source, 1, cut[P])
    BY <1>1, <1>11, SourceIs, PiecesJoined
  <1>13. QED
    BY <1>7, <1>12 DEF Slice

LEMMA SealedHolds == WriterInv => SealedIsWritten
  <1> SUFFICES ASSUME WriterInv, wpc = "sealed"
               PROVE  /\ Canonical(manifest)
                      /\ FlattenSeq(manifest.entries) = SubSeq(Source, 1, total)
                      /\ \A i \in 1..Len(manifest.entries) : manifest.entries[i] \in objects
    BY DEF SealedIsWritten
  <1> DEFINE P == Len(entries)
  <1>1. Sealed
    BY DEF WriterInv
  <1>2. /\ manifest.entries = entries /\ manifest.logicalLen = total
        /\ manifest.root = <<total, entries>>
        /\ \A i \in 1..P : entries[i] \in objects
    BY <1>1 DEF Sealed
  <1>3. /\ P \in Nat /\ P >= 1 /\ P \in MinChunks..MaxChunks
        /\ total \in Nat /\ total <= Len(Source)
        /\ \A i \in 1..P - 1 : ChunkEnd(i, total) = i * ChunkBytes
        /\ \A i \in 1..P : /\ (i - 1) * ChunkBytes \in Nat
                           /\ ChunkEnd(i, total) \in (i - 1) * ChunkBytes + 1..total
                           /\ entries[i] = Slice((i - 1) * ChunkBytes, ChunkEnd(i, total))
    BY SealedChunks
  <1>4. FlattenSeq(entries) = Slice(0, total)
    BY SealedJoins
  <1>5. Len(FlattenSeq(entries)) = total
    <2>1. Len(Slice(0, total)) = total - 0
      BY <1>3, SliceIs
    <2>2. QED
      BY <1>3, <1>4, <2>1
  <1>6. FlattenSeq(entries) = SubSeq(Source, 1, total)
    BY <1>4 DEF Slice
  <1> HIDE DEF P
  <1>7. \A i \in 1..P : /\ Len(entries[i]) = ChunkEnd(i, total) - (i - 1) * ChunkBytes
                        /\ ChunkEnd(i, total) \in Nat
    <2>1. ASSUME NEW i \in 1..P
          PROVE  /\ Len(entries[i]) = ChunkEnd(i, total) - (i - 1) * ChunkBytes
                 /\ ChunkEnd(i, total) \in Nat
      <3> DEFINE x == (i - 1) * ChunkBytes
                 y == ChunkEnd(i, total)
      <3>1. x \in Nat /\ y \in x + 1..total /\ entries[i] = Slice(x, y)
        BY <1>3
      <3> HIDE DEF x, y
      <3>2. y \in Nat /\ x <= y /\ y <= Len(Source)
        BY <1>3, <3>1, SourceIs
      <3>3. Len(Slice(x, y)) = y - x
        BY <3>1, <3>2, SliceIs
      <3>4. QED
        BY <3>1, <3>2, <3>3 DEF x, y
    <2>2. QED
      BY <2>1
  <1>8. \A i \in 1..P - 1 : Len(entries[i]) = ChunkBytes
    <2>1. ASSUME NEW i \in 1..P - 1
          PROVE  Len(entries[i]) = ChunkBytes
      <3>1. i \in 1..P /\ i - 1 \in Nat /\ (i - 1) + 1 = i
        BY <1>3
      <3>2. i * ChunkBytes = (i - 1) * ChunkBytes + ChunkBytes /\ (i - 1) * ChunkBytes \in Nat
        BY <3>1, ChunkMultiples
      <3>3. Len(entries[i]) = i * ChunkBytes - (i - 1) * ChunkBytes
        BY <1>3, <1>7, <3>1
      <3>4. QED
        BY <3>2, <3>3, ChunkMultiples
    <2>2. QED
      BY <2>1
  <1>9. Len(entries[P]) \in 1..ChunkBytes
    <2> DEFINE x == (P - 1) * ChunkBytes
    <2>1. P \in 1..P /\ P - 1 \in Nat
      BY <1>3
    <2>2. /\ x \in Nat /\ ChunkEnd(P, total) \in x + 1..total
          /\ Len(entries[P]) = ChunkEnd(P, total) - x
      BY <1>3, <1>7, <2>1
    <2>3. P * ChunkBytes = x + ChunkBytes /\ ChunkBytes \in Nat
      <3>1. (P - 1) + 1 = P
        BY <1>3
      <3>2. QED
        BY <2>1, <3>1, ChunkMultiples
    <2>4. ChunkEnd(P, total) = total /\ total <= P * ChunkBytes
      BY SealedChunks DEF P
    <2> HIDE DEF x
    <2>5. QED
      BY <1>3, <2>2, <2>3, <2>4
  <1>10. Canonical(manifest)
    BY <1>2, <1>3, <1>5, <1>8, <1>9 DEF Canonical, P
  <1>11. QED
    BY <1>2, <1>6, <1>10 DEF P

\* What ValueWriter::seal returns is a manifest that decode accepts, its chunks are
\* what the caller wrote, and all of them are in the store.
THEOREM Pipeline_SealedIsWritten == PipeSpec => []SealedIsWritten
  BY WriterInit, WriterStep, SealedHolds, PTL DEF PipeSpec

-----------------------------------------------------------------------------
(* The reader: where it stands in its window and in its chunks, and which  *)
(* chunks it has asked for and not used.                                   *)

\* The first chunk whose bytes are still to come.
Unread == IF current = Absent THEN ordinal ELSE ordinal + 1

\* A position that is not at the end of the window is in the current chunk.
Standing(pos, ord, cur) ==
  /\ ord * ChunkBytes <= pos /\ pos < ord * ChunkBytes + ChunkBytes
  /\ cur \in {Absent, pos - ord * ChunkBytes}

\* Chunks asked for from the first unread one on, each of them once.
Asking(first, next, out, here) ==
  /\ first <= next
  /\ out \cup here \subseteq first..next - 1
  /\ out \cap here = {}

Reading ==
  /\ wpc = "sealed"
  /\ start \in Nat /\ end \in 0..total /\ position \in start..end
  /\ ordinal \in Nat /\ nextFetch \in Nat /\ lastFetch \in Nat /\ room \in Nat
  /\ end <= lastFetch * ChunkBytes
  /\ yielded = Slice(start, position)
  /\ position < end => Standing(position, ordinal, current)
  /\ rpc \in {"idle", "poll", "eof"}
  /\ rpc = "poll" => position < end /\ current = Absent /\ ordinal < nextFetch
  /\ Asking(Unread, nextFetch, DOMAIN fetches, ready)
  /\ ~ failed /\ rpc # "eof" => Unread..nextFetch - 1 \subseteq DOMAIN fetches \cup ready
  /\ rpc = "eof" /\ ~ failed => position = end

ReaderInv ==
  /\ rpc = "none" =>
       current = Absent /\ DOMAIN fetches = {} /\ ready = {} /\ yielded = <<>> /\ room = 0
  /\ rpc # "none" => Reading

LEMMA ReaderInit == PipeInit => ReaderInv
  BY DEF PipeInit, ReaderInv, Empty

\* The prefetch asks for the next few chunks, and for one at least if none is out.
LEMMA PrefetchIs ==
  ASSUME NEW first \in Nat, NEW here, Asking(first, nextFetch, DOMAIN fetches, here),
         nextFetch \in Nat, lastFetch \in Nat
  PROVE  \E m \in Nat :
           /\ nextFetch + Cardinality(DOMAIN Prefetched \ DOMAIN fetches) = nextFetch + m
           /\ DOMAIN Prefetched = DOMAIN fetches \cup (nextFetch..nextFetch + m - 1)
           /\ DOMAIN fetches = {} /\ nextFetch < lastFetch => m >= 1
  <1> DEFINE q == MaxInFlight - Cardinality(DOMAIN fetches)
             r == lastFetch - nextFetch
             wanted == {o \in nextFetch..lastFetch - 1 : o - nextFetch < q}
             m == IF Lesser(q, r) < 0 THEN 0 ELSE Lesser(q, r)
  <1>1. DOMAIN fetches \in SUBSET (0..nextFetch - 1)
    BY DEF Asking
  <1>2. IsFiniteSet(DOMAIN fetches) /\ Cardinality(DOMAIN fetches) \in Nat
    <2>1. IsFiniteSet(0..nextFetch - 1)
      BY FS_Interval
    <2>2. QED
      BY <1>1, <2>1, FS_Subset, FS_CardinalityType
  <1>3. q \in Int /\ r \in Int /\ MaxInFlight \in Nat /\ MaxInFlight >= 1
    BY <1>2, PipelineAssumption
  <1>4. DOMAIN Prefetched = DOMAIN fetches \cup wanted
    BY DEF Prefetched
  <1>5. DOMAIN fetches = {} /\ nextFetch < lastFetch => q >= 1 /\ r >= 1
    BY <1>3, FS_EmptySet
  <1>6. lastFetch = nextFetch + r
    OBVIOUS
  <1> HIDE DEF q, r
  <1>7. m \in Nat
    BY <1>3 DEF Lesser
  <1>8. wanted = nextFetch..nextFetch + m - 1
    <2>1. \A o \in Int : o \in wanted <=> nextFetch <= o /\ o < nextFetch + r /\ o - nextFetch < q
      BY <1>3, <1>6
    <2>2. \A o \in Int : o \in nextFetch..nextFetch + m - 1 <=> nextFetch <= o /\ o < nextFetch + m
      BY <1>7
    <2>3. \A o \in Int : nextFetch <= o =>
            (o < nextFetch + m <=> o < nextFetch + r /\ o - nextFetch < q)
      BY <1>3 DEF Lesser
    <2>4. wanted \subseteq Int /\ nextFetch..nextFetch + m - 1 \subseteq Int
      OBVIOUS
    <2> HIDE DEF wanted, m
    <2>5. \A o \in Int : o \in wanted <=> o \in nextFetch..nextFetch + m - 1
      BY <2>1, <2>2, <2>3
    <2>6. QED
      BY <2>4, <2>5
  <1>9. DOMAIN fetches = {} /\ nextFetch < lastFetch => m >= 1
    BY <1>3, <1>5 DEF Lesser
  <1> HIDE DEF wanted, m
  <1>10. DOMAIN Prefetched \ DOMAIN fetches = wanted
    <2>1. \A o \in wanted : o \notin DOMAIN fetches
      <3>1. \A o \in nextFetch..nextFetch + m - 1 : o \notin 0..nextFetch - 1
        BY <1>7
      <3>2. QED
        BY <1>1, <1>8, <3>1
    <2>2. QED
      BY <1>4, <2>1
  <1>11. Cardinality(wanted) = m
    BY <1>7, <1>8, IntervalCount
  <1>12. QED
    BY <1>4, <1>7, <1>8, <1>9, <1>10, <1>11

\* Prefetching keeps what is asked for in order.
LEMMA AsksMore ==
  ASSUME NEW first \in Nat, NEW here, Asking(first, nextFetch, DOMAIN fetches, here),
         nextFetch \in Nat, lastFetch \in Nat,
         fetches' = Prefetched,
         nextFetch' = nextFetch + Cardinality(DOMAIN Prefetched \ DOMAIN fetches)
  PROVE  /\ nextFetch' \in Nat /\ nextFetch <= nextFetch'
         /\ Asking(first, nextFetch', DOMAIN fetches', here)
         /\ first..nextFetch - 1 \subseteq DOMAIN fetches \cup here =>
              first..nextFetch' - 1 \subseteq DOMAIN fetches' \cup here
         /\ DOMAIN fetches = {} /\ nextFetch < lastFetch => nextFetch < nextFetch'
  <1>1. PICK m \in Nat :
           /\ nextFetch' = nextFetch + m
           /\ DOMAIN fetches' = DOMAIN fetches \cup (nextFetch..nextFetch + m - 1)
           /\ DOMAIN fetches = {} /\ nextFetch < lastFetch => m >= 1
    BY PrefetchIs
  <1>2. nextFetch' \in Nat /\ nextFetch <= nextFetch'
    BY <1>1
  <1>3. first <= nextFetch /\ DOMAIN fetches \subseteq first..nextFetch - 1
        /\ here \subseteq first..nextFetch - 1 /\ DOMAIN fetches \cap here = {}
    BY DEF Asking
  <1> DEFINE old == first..nextFetch - 1
             more == nextFetch..nextFetch + m - 1
             all == first..nextFetch' - 1
  <1>4. old \cup more = all /\ old \cap more = {}
    <2>1. all = first..nextFetch + m - 1
      BY <1>1
    <2>2. QED
      BY <1>3, <2>1, IntervalsJoin
  <1> HIDE DEF old, more, all
  <1>5. Asking(first, nextFetch', DOMAIN fetches', here)
    <2>1. first <= nextFetch'
      BY <1>2, <1>3
    <2>2. DOMAIN fetches' = DOMAIN fetches \cup more /\ DOMAIN fetches \subseteq old /\ here \subseteq old
      BY <1>1, <1>3 DEF old, more
    <2>3. DOMAIN fetches' \cup here \subseteq all /\ DOMAIN fetches' \cap here = {}
      BY <1>3, <1>4, <2>2
    <2>4. QED
      BY <2>1, <2>3 DEF Asking, all
  <1>6. old \subseteq DOMAIN fetches \cup here => all \subseteq DOMAIN fetches' \cup here
    <2>1. DOMAIN fetches' = DOMAIN fetches \cup more
      BY <1>1 DEF more
    <2>2. QED
      BY <1>4, <2>1
  <1>7. DOMAIN fetches = {} /\ nextFetch < lastFetch => nextFetch < nextFetch'
    BY <1>1
  <1>8. QED
    BY <1>2, <1>5, <1>6, <1>7 DEF old, all

\* Bytes of the current chunk: they are the next bytes of the window, and what is left
\* of the chunk is kept.
LEMMA YieldsNext ==
  ASSUME WriterInv, wpc = "sealed", NEW left \in Nat, NEW from \in Nat,
         start \in Nat, end \in 0..total, position \in start..end, position < end,
         ordinal \in Nat, yielded = Slice(start, position),
         Standing(position, ordinal, current), from = position - ordinal * ChunkBytes,
         Yield(from, left)
  PROVE  /\ position' \in position..end /\ ordinal' \in Nat
         /\ yielded' = Slice(start, position')
         /\ position' < end => Standing(position', ordinal', current')
         /\ (IF current' = Absent THEN ordinal' ELSE ordinal' + 1) = ordinal + 1
  <1> DEFINE base == ordinal * ChunkBytes
             next == (ordinal + 1) * ChunkBytes
             top == ChunkEnd(ordinal + 1, total)
             chunk == manifest.entries[ordinal + 1]
             n == Lesser(Lesser(Len(chunk) - from, left), end - position)
             P == Len(entries)
  <1>1. base \in Nat /\ next = base + ChunkBytes /\ ChunkBytes \in Nat /\ ChunkBytes >= 1
    BY ChunkMultiples
  <1>2. /\ manifest.entries = entries /\ P \in Nat
        /\ total \in Nat /\ total <= Len(Source) /\ total <= P * ChunkBytes
        /\ \A i \in 1..P : entries[i] = Slice((i - 1) * ChunkBytes, ChunkEnd(i, total))
    BY SealedChunks
  <1> HIDE DEF P
  <1>3. /\ base <= position /\ position < base + ChunkBytes
        /\ current \in {Absent, position - base} /\ from = position - base
    BY DEF Standing
  <1>4. position \in Nat /\ end \in Nat /\ start <= position /\ end <= total
    BY <1>2
  <1>5. ordinal + 1 \in 1..P /\ (ordinal + 1) - 1 = ordinal
    <2>1. SUFFICES ASSUME P <= ordinal PROVE FALSE
      BY <1>2
    <2>2. P * ChunkBytes <= base
      BY <1>2, <2>1, ChunkMultiples
    <2>3. P * ChunkBytes \in Nat
      BY <1>2, ChunkMultiples
    <2> HIDE DEF base
    <2>4. QED
      BY <1>1, <1>2, <1>3, <1>4, <2>2, <2>3
  <1>6. chunk = Slice(base, top)
    BY <1>2, <1>5
  <1>7. top = Lesser(next, total)
    BY DEF ChunkEnd
  <1>8. /\ yielded' = yielded \o SubSeq(chunk, from + 1, from + n)
        /\ position' = position + n
        /\ current' = IF from + n = Len(chunk) THEN Absent ELSE from + n
        /\ ordinal' = IF from + n = Len(chunk) THEN ordinal + 1 ELSE ordinal
    BY Zenon DEF Yield
  <1> HIDE DEF base, next, top, chunk
  <1>9. /\ top \in Nat /\ position < top /\ top <= total /\ top <= base + ChunkBytes
        /\ (top = total \/ top = next) /\ base <= top
    BY <1>1, <1>2, <1>3, <1>4, <1>7 DEF Lesser
  <1>10. Len(chunk) = top - base
    <2>1. total \in Nat /\ total <= Len(Source) /\ Len(Source) \in Nat
      BY <1>2, SourceIs
    <2>2. top <= Len(Source)
      BY <1>9, <2>1
    <2>3. QED
      BY <1>1, <1>6, <1>9, <2>2, SliceIs
  <1>11. Len(chunk) - from = top - position
    BY <1>1, <1>3, <1>4, <1>9, <1>10
  <1>12. n = Lesser(Lesser(top - position, left), end - position)
    BY <1>11
  <1> HIDE DEF n
  <1>13. n \in Nat /\ n <= top - position /\ n <= end - position
    BY <1>4, <1>9, <1>12 DEF Lesser
  <1>14. position' \in position..end /\ position' \in Nat /\ position' <= top
    BY <1>4, <1>8, <1>9, <1>13
  <1>15. yielded' = Slice(start, position')
    <2>1. Within(Slice(base, top), from, from + n) = Slice(base + from, base + (from + n))
      <3>1. from + n \in Nat /\ from <= from + n /\ from + n <= top - base /\ top <= Len(Source)
        BY <1>1, <1>2, <1>3, <1>4, <1>9, <1>13
      <3>2. QED
        BY <1>1, <1>9, <3>1, SliceOfSlice
    <2>2. base + from = position /\ base + (from + n) = position'
      BY <1>1, <1>3, <1>4, <1>8, <1>13
    <2>3. Slice(start, position) \o Slice(position, position') = Slice(start, position')
      <3>1. position <= position' /\ position' <= Len(Source)
        BY <1>2, <1>4, <1>14
      <3>2. QED
        BY <1>4, <1>14, <3>1, SlicesJoin
    <2>4. SubSeq(chunk, from + 1, from + n) = Slice(position, position')
      BY <1>6, <2>1, <2>2 DEF Within
    <2>5. QED
      BY <1>8, <2>3, <2>4
  <1>16. CASE from + n = Len(chunk)
    <2>1. current' = Absent /\ ordinal' = ordinal + 1 /\ position' = top
      BY <1>1, <1>3, <1>4, <1>8, <1>9, <1>10, <1>13, <1>16
    <2>2. position' < end => Standing(position', ordinal', current')
      <3>1. SUFFICES ASSUME position' < end PROVE Standing(position', ordinal', current')
        OBVIOUS
      <3>2. position' = next
        BY <1>2, <1>4, <1>9, <2>1, <3>1
      <3>3. ordinal' * ChunkBytes = next
        BY <2>1 DEF next
      <3>4. next \in Nat /\ next <= position' /\ position' < next + ChunkBytes
        BY <1>1, <3>2
      <3>5. QED
        BY <2>1, <3>3, <3>4 DEF Standing
    <2>3. QED
      BY <1>14, <1>15, <2>1, <2>2
  <1>17. CASE from + n # Len(chunk)
    <2>1. current' = from + n /\ ordinal' = ordinal
      BY <1>8, <1>17
    <2>2. from + n \in Nat /\ from + n = position' - base
      BY <1>1, <1>3, <1>4, <1>8, <1>13
    <2>3. position' < top
      BY <1>1, <1>9, <1>10, <1>14, <1>17, <2>2
    <2>4. base <= position' /\ position' < base + ChunkBytes
      BY <1>1, <1>3, <1>4, <1>9, <1>14, <2>3
    <2>5. current' # Absent
      BY <2>1, <2>2, PipelineAssumption
    <2>6. Standing(position', ordinal', current')
      BY <2>1, <2>2, <2>4 DEF Standing, base
    <2>7. QED
      BY <1>14, <1>15, <2>1, <2>5, <2>6
  <1>18. QED
    BY <1>16, <1>17

LEMMA Opens ==
  ASSUME WriterInv, ReaderInv, NEW from \in Nat, NEW to \in Nat, OpenStream(from, to)
  PROVE  ReaderInv'
  <1>1. /\ wpc = "sealed" /\ from <= to /\ to <= manifest.logicalLen
        /\ start' = from /\ end' = to /\ position' = from
        /\ nextFetch' = from \div ChunkBytes /\ ordinal' = from \div ChunkBytes
        /\ lastFetch' = IF to = 0 THEN 0
                        ELSE Lesser((to - 1) \div ChunkBytes + 1, Len(manifest.entries))
        /\ rpc = "none" /\ rpc' = "idle"
        /\ UNCHANGED <<writer, fetches, ready, current, room, yielded, failed>>
    BY DEF OpenStream
  <1>2. UNCHANGED <<total, wpc>>
    BY <1>1 DEF writer
  <1>3. current = Absent /\ DOMAIN fetches = {} /\ ready = {} /\ yielded = <<>> /\ room = 0
    BY <1>1 DEF ReaderInv
  <1>4. /\ manifest.entries = entries /\ manifest.logicalLen = total
        /\ Len(entries) \in Nat /\ total \in Nat /\ total <= Len(entries) * ChunkBytes
    BY <1>1, SealedChunks
  <1>5. \A a, b \in Nat : b >= 1 =>
          /\ a \div b \in Nat /\ (a \div b) * b \in Nat
          /\ (a \div b) * b <= a /\ a < (a \div b) * b + b
    OBVIOUS
  <1>6. ChunkBytes \in Nat /\ ChunkBytes >= 1
    BY ChunkMultiples
  <1> DEFINE first == from \div ChunkBytes
  <1>7. first \in Nat /\ first * ChunkBytes <= from /\ from < first * ChunkBytes + ChunkBytes
    BY <1>5, <1>6
  <1>8. lastFetch' \in Nat /\ to <= lastFetch' * ChunkBytes
    <2>1. CASE to = 0
      <3>1. lastFetch' = 0 /\ 0 * ChunkBytes = 0
        BY <1>1, <1>6, <2>1
      <3>2. QED
        BY <2>1, <3>1
    <2>2. CASE to # 0
      <3> DEFINE d == (to - 1) \div ChunkBytes
      <3>1. to - 1 \in Nat
        BY <2>2
      <3>2. d \in Nat /\ d * ChunkBytes \in Nat /\ to - 1 < d * ChunkBytes + ChunkBytes
        BY <1>5, <1>6, <3>1
      <3>3. lastFetch' = Lesser(d + 1, Len(entries))
        BY <1>1, <1>4, <2>2
      <3> HIDE DEF d
      <3>4. to <= (d + 1) * ChunkBytes
        <4>1. (d + 1) * ChunkBytes = d * ChunkBytes + ChunkBytes
          BY <3>2, ChunkMultiples
        <4>2. QED
          BY <1>6, <3>1, <3>2, <4>1
      <3>5. Len(entries) * ChunkBytes \in Nat
        BY <1>4, ChunkMultiples
      <3>6. to <= Len(entries) * ChunkBytes
        BY <1>1, <1>4, <3>5
      <3>7. lastFetch' = d + 1 \/ lastFetch' = Len(entries)
        BY <3>3 DEF Lesser
      <3>8. QED
        BY <1>4, <3>2, <3>4, <3>6, <3>7
    <2>3. QED
      BY <2>1, <2>2
  <1> HIDE DEF first
  <1>9. ordinal' = first /\ nextFetch' = first
    BY <1>1 DEF first
  <1>10. Standing(position', ordinal', current')
    BY <1>1, <1>3, <1>7, <1>9 DEF Standing
  <1>11. yielded' = Slice(start', position')
    BY <1>1, <1>3, SliceNothing
  <1>12. Unread' = first
    BY <1>1, <1>3, <1>9 DEF Unread
  <1>13. Asking(first, first, {}, {})
    BY <1>7 DEF Asking
  <1>14. Asking(Unread', nextFetch', DOMAIN fetches', ready')
    BY <1>1, <1>3, <1>9, <1>12, <1>13
  <1>15. Unread'..nextFetch' - 1 \subseteq DOMAIN fetches' \cup ready'
    <2>1. first..first - 1 = {}
      BY <1>7
    <2>2. QED
      BY <1>9, <1>12, <2>1
  <1>16. end' \in 0..total' /\ position' \in start'..end' /\ start' \in Nat
    BY <1>1, <1>2, <1>4
  <1>17. Reading'
    <2>1. wpc' = "sealed" /\ room' \in Nat /\ rpc' = "idle"
      BY <1>1, <1>2, <1>3
    <2>2. Asking(Unread, nextFetch, DOMAIN fetches, ready)'
      BY <1>14 DEF Asking
    <2>3. (position < end => Standing(position, ordinal, current))'
      BY <1>10 DEF Standing
    <2>4. (yielded = Slice(start, position))'
      BY <1>11 DEF Slice
    <2>5. (end <= lastFetch * ChunkBytes)' /\ lastFetch' \in Nat
      BY <1>1, <1>8
    <2>6. ordinal' \in Nat /\ nextFetch' \in Nat
      BY <1>7, <1>9
    <2>7. QED
      BY <1>15, <1>16, <2>1, <2>2, <2>3, <2>4, <2>5, <2>6 DEF Reading
  <1>18. QED
    BY <1>1, <1>17 DEF ReaderInv

\* What a poll does not touch.
LEMMA ReadingParts ==
  ASSUME Reading, UNCHANGED <<wpc, total, start, end, lastFetch>>,
         position' \in start..end, ordinal' \in Nat, nextFetch' \in Nat, room' \in Nat,
         yielded' = Slice(start, position'),
         position' < end => Standing(position', ordinal', current'),
         rpc' \in {"idle", "poll", "eof"},
         rpc' = "poll" => position' < end /\ current' = Absent /\ ordinal' < nextFetch',
         Asking(Unread', nextFetch', DOMAIN fetches', ready'),
         ~ failed' /\ rpc' # "eof" =>
           Unread'..nextFetch' - 1 \subseteq DOMAIN fetches' \cup ready',
         rpc' = "eof" /\ ~ failed' => position' = end
  PROVE  Reading'
  <1>1. /\ wpc' = "sealed" /\ start' \in Nat /\ end' \in 0..total' /\ position' \in start'..end'
        /\ lastFetch' \in Nat
    BY DEF Reading
  <1>2. (end <= lastFetch * ChunkBytes)'
    BY DEF Reading
  <1>3. (yielded = Slice(start, position))'
    BY DEF Slice
  <1>4. (position < end => Standing(position, ordinal, current))'
    BY DEF Standing
  <1>5. Asking(Unread, nextFetch, DOMAIN fetches, ready)'
    BY DEF Asking
  <1>6. QED
    BY <1>1, <1>2, <1>3, <1>4, <1>5 DEF Reading

LEMMA PollsRead ==
  ASSUME WriterInv, ReaderInv, NEW k \in Nat, PollRead(k)
  PROVE  ReaderInv'
  <1>1. rpc = "idle" /\ UNCHANGED <<writer, start, end, lastFetch, ready, failed>>
    BY DEF PollRead
  <1>2. Reading /\ UNCHANGED <<wpc, total>>
    BY <1>1 DEF ReaderInv, writer
  <1>3. /\ wpc = "sealed" /\ start \in Nat /\ end \in 0..total /\ position \in start..end
        /\ ordinal \in Nat /\ nextFetch \in Nat /\ lastFetch \in Nat /\ room \in Nat
        /\ yielded = Slice(start, position)
        /\ position < end => Standing(position, ordinal, current)
        /\ Asking(Unread, nextFetch, DOMAIN fetches, ready)
        /\ ~ failed => Unread..nextFetch - 1 \subseteq DOMAIN fetches \cup ready
    BY <1>1, <1>2 DEF Reading
  <1>4. SUFFICES Reading' /\ rpc' # "none"
    BY DEF ReaderInv
  <1>5. CASE /\ position >= end /\ rpc' = "eof"
             /\ UNCHANGED <<position, nextFetch, fetches, current, ordinal, room, yielded>>
    <2>1. position' = end /\ ~ (position' < end)
      <3>1. start \in Nat /\ end \in Int /\ position \in Int /\ position <= end
        BY <1>3
      <3>2. QED
        BY <1>5, <3>1
    <2>2. Unread' = Unread
      BY <1>5 DEF Unread
    <2>3. Asking(Unread', nextFetch', DOMAIN fetches', ready')
      BY <1>1, <1>3, <1>5, <2>2
    <2>4. QED
      BY <1>1, <1>2, <1>3, <1>5, <2>1, <2>3, ReadingParts
  <1>6. CASE /\ position < end /\ fetches' = Prefetched
             /\ nextFetch' = nextFetch + Cardinality(DOMAIN Prefetched \ DOMAIN fetches)
             /\ \/ current # Absent /\ Yield(current, k)
                \/ /\ current = Absent /\ rpc' = "poll" /\ room' = k
                   /\ UNCHANGED <<position, current, ordinal, yielded>>
    <2>1. Unread \in Nat
      BY <1>3 DEF Unread
    <2>2. /\ nextFetch' \in Nat /\ nextFetch <= nextFetch'
          /\ Asking(Unread, nextFetch', DOMAIN fetches', ready)
          /\ Unread..nextFetch - 1 \subseteq DOMAIN fetches \cup ready =>
               Unread..nextFetch' - 1 \subseteq DOMAIN fetches' \cup ready
          /\ DOMAIN fetches = {} /\ nextFetch < lastFetch => nextFetch < nextFetch'
      BY <1>3, <1>6, <2>1, AsksMore
    <2>3. CASE current # Absent /\ Yield(current, k)
      <3>1. Standing(position, ordinal, current) /\ current = position - ordinal * ChunkBytes
        BY <1>3, <1>6, <2>3 DEF Standing
      <3>2. current \in Nat
        <4>1. ordinal * ChunkBytes \in Nat /\ ordinal * ChunkBytes <= position
          BY <1>3, <3>1, ChunkMultiples DEF Standing
        <4>2. position \in Nat
          BY <1>3
        <4>3. QED
          BY <3>1, <4>1, <4>2
      <3>3. /\ position' \in position..end /\ ordinal' \in Nat
            /\ yielded' = Slice(start, position')
            /\ position' < end => Standing(position', ordinal', current')
            /\ Unread' = ordinal + 1
        BY <1>3, <1>6, <2>3, <3>1, <3>2, YieldsNext DEF Unread
      <3>4. rpc' = "idle" /\ room' = 0
        BY <2>3 DEF Yield
      <3>5. Unread' = Unread
        BY <2>3, <3>3 DEF Unread
      <3>6. position' \in start..end
        BY <1>3, <3>3
      <3>7. Asking(Unread', nextFetch', DOMAIN fetches', ready')
        BY <1>1, <2>2, <3>5
      <3>8. ~ failed' => Unread'..nextFetch' - 1 \subseteq DOMAIN fetches' \cup ready'
        BY <1>1, <1>3, <2>2, <3>5
      <3>9. QED
        BY <1>1, <1>2, <2>2, <3>3, <3>4, <3>6, <3>7, <3>8, ReadingParts
    <2>4. CASE /\ current = Absent /\ rpc' = "poll" /\ room' = k
               /\ UNCHANGED <<position, current, ordinal, yielded>>
      <3>1. Unread = ordinal /\ Unread' = ordinal
        BY <2>4 DEF Unread
      <3>2. ordinal < lastFetch
        <4>1. SUFFICES ASSUME lastFetch <= ordinal PROVE FALSE
          BY <1>3
        <4>2. PICK low, high \in Nat : low = lastFetch * ChunkBytes /\ high = ordinal * ChunkBytes
          BY <1>3, ChunkMultiples
        <4>3. low <= high
          BY <1>3, <4>1, <4>2, ChunkMultiples
        <4>4. end <= low /\ high <= position
          BY <1>2, <1>3, <1>6, <4>2 DEF Reading, Standing
        <4>5. position \in Int /\ end \in Int
          BY <1>3
        <4>6. QED
          BY <1>6, <4>2, <4>3, <4>4, <4>5
      <3>3. ordinal < nextFetch'
        <4>1. CASE ordinal < nextFetch
          BY <1>3, <2>2, <4>1
        <4>2. CASE ~ (ordinal < nextFetch)
          <5>1. ordinal <= nextFetch /\ DOMAIN fetches \subseteq ordinal..nextFetch - 1
            BY <1>3, <3>1 DEF Asking
          <5>2. ordinal = nextFetch /\ ordinal..nextFetch - 1 = {}
            BY <1>3, <4>2, <5>1
          <5>3. QED
            BY <2>2, <3>2, <5>1, <5>2
        <4>3. QED
          BY <4>1, <4>2
      <3>4. Asking(Unread', nextFetch', DOMAIN fetches', ready')
        BY <1>1, <2>2, <3>1
      <3>5. ~ failed' => Unread'..nextFetch' - 1 \subseteq DOMAIN fetches' \cup ready'
        BY <1>1, <1>3, <2>2, <3>1
      <3>6. /\ position' \in start..end /\ ordinal' \in Nat /\ yielded' = Slice(start, position')
            /\ position' < end => Standing(position', ordinal', current')
            /\ position' < end /\ current' = Absent /\ ordinal' < nextFetch'
        BY <1>3, <1>6, <2>4, <3>3
      <3>7. QED
        BY <1>1, <1>2, <2>2, <2>4, <3>4, <3>5, <3>6, ReadingParts
    <2>5. QED
      BY <1>6, <2>3, <2>4
  <1>7. QED
    BY <1>5, <1>6 DEF PollRead

\* A fetch that has ended is taken, and its chunk kept or lost.
LEMMA PollsLoop ==
  ASSUME WriterInv, ReaderInv, PollLoop
  PROVE  ReaderInv'
  <1>1. rpc = "poll" /\ UNCHANGED <<writer, start, end, nextFetch, lastFetch>>
    BY DEF PollLoop
  <1>2. Reading /\ UNCHANGED <<wpc, total>>
    BY <1>1 DEF ReaderInv, writer
  <1>3. /\ wpc = "sealed" /\ start \in Nat /\ end \in 0..total /\ position \in start..end
        /\ ordinal \in Nat /\ nextFetch \in Nat /\ lastFetch \in Nat /\ room \in Nat
        /\ yielded = Slice(start, position)
        /\ position < end /\ Standing(position, ordinal, current)
        /\ current = Absent /\ ordinal < nextFetch
        /\ Asking(Unread, nextFetch, DOMAIN fetches, ready)
        /\ ~ failed => Unread..nextFetch - 1 \subseteq DOMAIN fetches \cup ready
    BY <1>1, <1>2 DEF Reading
  <1>4. SUFFICES Reading' /\ rpc' # "none"
    BY DEF ReaderInv
  <1>5. Unread = ordinal
    BY <1>3 DEF Unread
  <1>6. ordinal \in ordinal..nextFetch - 1
    BY <1>3
  <1> DEFINE asked == ordinal..nextFetch - 1
  <1>7. DOMAIN fetches \subseteq asked /\ ready \subseteq asked /\ DOMAIN fetches \cap ready = {}
        /\ ordinal <= nextFetch
    BY <1>3, <1>5 DEF Asking
  <1>8. CASE /\ ordinal \in ready /\ ready' = ready \ {ordinal}
             /\ Yield(position - ordinal * ChunkBytes, room)
             /\ UNCHANGED <<fetches, failed>>
    <2>1. position - ordinal * ChunkBytes \in Nat
      <3>1. ordinal * ChunkBytes \in Nat /\ ordinal * ChunkBytes <= position
        BY <1>3, ChunkMultiples DEF Standing
      <3>2. position \in Nat
        BY <1>3
      <3>3. QED
        BY <3>1, <3>2
    <2>2. /\ position' \in position..end /\ ordinal' \in Nat
          /\ yielded' = Slice(start, position')
          /\ position' < end => Standing(position', ordinal', current')
          /\ Unread' = ordinal + 1
      BY <1>3, <1>8, <2>1, YieldsNext DEF Unread
    <2>3. rpc' = "idle" /\ room' = 0
      BY <1>8 DEF Yield
    <2>4. position' \in start..end
      BY <1>3, <2>2
    <2>5. ordinal + 1..nextFetch - 1 = asked \ {ordinal} /\ ordinal + 1 <= nextFetch
      BY <1>3
    <2>6. ordinal \notin DOMAIN fetches
      BY <1>7, <1>8
    <2>7. Asking(Unread', nextFetch', DOMAIN fetches', ready')
      BY <1>1, <1>7, <1>8, <2>2, <2>5, <2>6 DEF Asking
    <2>8. ~ failed' => Unread'..nextFetch' - 1 \subseteq DOMAIN fetches' \cup ready'
      BY <1>1, <1>3, <1>5, <1>8, <2>2, <2>5
    <2>9. QED
      BY <1>1, <1>2, <1>3, <2>2, <2>3, <2>4, <2>7, <2>8, ReadingParts
  <1>9. CASE ordinal \notin ready /\ UNCHANGED <<position, current, ordinal, yielded>>
    <2>1. Unread' = ordinal
      BY <1>3, <1>9 DEF Unread
    <2>2. /\ position' \in start..end /\ ordinal' \in Nat /\ nextFetch' \in Nat
          /\ yielded' = Slice(start, position')
          /\ position' < end /\ Standing(position', ordinal', current')
          /\ current' = Absent /\ ordinal' < nextFetch'
      BY <1>1, <1>3, <1>9
    <2>3. ASSUME NEW o \in DOMAIN fetches, fetches' = Taken(fetches, o),
                 ready' \in {ready, ready \cup {o}}
          PROVE  Asking(Unread', nextFetch', DOMAIN fetches', ready')
      <3>1. DOMAIN fetches' = DOMAIN fetches \ {o}
        BY <2>3 DEF Taken
      <3>2. QED
        BY <1>1, <1>7, <2>1, <2>3, <3>1 DEF Asking
    <2>4. ASSUME NEW o \in In(fetches, "ok"),
                 fetches' = Taken(fetches, o), ready' = ready \cup {o},
                 UNCHANGED <<rpc, room, failed>>
          PROVE  Reading'
      <3>1. o \in DOMAIN fetches
        BY DEF In
      <3>2. DOMAIN fetches' = DOMAIN fetches \ {o}
        BY <2>4 DEF Taken
      <3>3. ~ failed' => Unread'..nextFetch' - 1 \subseteq DOMAIN fetches' \cup ready'
        BY <1>1, <1>3, <1>5, <2>1, <2>4, <3>2
      <3>4. rpc' = "poll" /\ room' \in Nat
        BY <1>1, <1>3, <2>4
      <3>5. Asking(Unread', nextFetch', DOMAIN fetches', ready')
        BY <2>3, <2>4, <3>1
      <3>6. QED
        BY <1>1, <1>2, <2>2, <3>3, <3>4, <3>5, ReadingParts
    <2>5. ASSUME NEW o \in In(fetches, "err"),
                 fetches' = Taken(fetches, o), rpc' = "idle", room' = 0, failed',
                 UNCHANGED ready
          PROVE  Reading'
      <3>1. o \in DOMAIN fetches
        BY DEF In
      <3>2. Asking(Unread', nextFetch', DOMAIN fetches', ready')
        BY <2>3, <2>5, <3>1
      <3>3. QED
        BY <1>1, <1>2, <2>2, <2>5, <3>2, ReadingParts
    <2>6. CASE rpc' = "idle" /\ room' = 0 /\ UNCHANGED <<fetches, ready, failed>>
      <3>1. Asking(Unread', nextFetch', DOMAIN fetches', ready')
        BY <1>1, <1>3, <1>5, <2>1, <2>6
      <3>2. ~ failed' => Unread'..nextFetch' - 1 \subseteq DOMAIN fetches' \cup ready'
        BY <1>1, <1>3, <1>5, <2>1, <2>6
      <3>3. QED
        BY <1>1, <1>2, <2>2, <2>6, <3>1, <3>2, ReadingParts
    <2>7. CASE DOMAIN fetches = {} /\ rpc' = "eof" /\ room' = 0 /\ UNCHANGED <<fetches, ready, failed>>
      <3>1. ~ ~ failed
        BY <1>3, <1>5, <1>6, <1>9, <2>7
      <3>2. Asking(Unread', nextFetch', DOMAIN fetches', ready')
        BY <1>1, <1>3, <1>5, <2>1, <2>7
      <3>3. ~ ~ failed'
        BY <2>7, <3>1
      <3>4. QED
        BY <1>1, <1>2, <2>2, <2>7, <3>2, <3>3, ReadingParts
    <2>8. ASSUME NEW o \in In(fetches, "err"), failed' = TRUE
          PROVE  failed'
      BY <2>8, Zenon
    <2>9. ordinal \notin ready =>
            \/ \E o \in In(fetches, "ok") :
                 /\ fetches' = Taken(fetches, o) /\ ready' = ready \cup {o}
                 /\ UNCHANGED <<rpc, room, failed>>
            \/ \E o \in In(fetches, "err") :
                 /\ fetches' = Taken(fetches, o)
                 /\ rpc' = "idle" /\ room' = 0 /\ failed' = TRUE /\ UNCHANGED ready
            \/ rpc' = "idle" /\ room' = 0 /\ UNCHANGED <<fetches, ready, failed>>
            \/ DOMAIN fetches = {} /\ rpc' = "eof" /\ room' = 0 /\ UNCHANGED <<fetches, ready, failed>>
      BY Zenon DEF PollLoop
    <2>10. rpc' # "none"
      <3>1. rpc' \in {rpc, "idle", "eof"}
        BY <1>9, <2>9
      <3>2. QED
        BY <1>1, <3>1
    <2>11. Reading'
      BY <1>9, <2>4, <2>5, <2>6, <2>7, <2>8, <2>9
    <2>12. QED
      BY <2>10, <2>11
  <1>10. QED
    <2>1. \/ /\ ordinal \in ready /\ ready' = ready \ {ordinal}
             /\ Yield(position - ordinal * ChunkBytes, room)
             /\ UNCHANGED <<fetches, failed>>
          \/ ordinal \notin ready /\ UNCHANGED <<position, current, ordinal, yielded>>
      BY DEF PollLoop
    <2>2. QED
      BY <1>8, <1>9, <2>1

LEMMA FetchesEnd ==
  ASSUME WriterInv, ReaderInv, NEW o \in DOMAIN fetches, FetchEnds(o)
  PROVE  ReaderInv'
  <1>1. /\ UNCHANGED <<writer, start, end, position, nextFetch, lastFetch, ready, current, ordinal,
                       room, yielded, rpc, failed>>
        /\ DOMAIN fetches' = DOMAIN fetches
    BY DEF FetchEnds
  <1>2. Reading /\ UNCHANGED <<wpc, total>>
    BY <1>1 DEF ReaderInv, writer
  <1>3. Unread' = Unread
    BY <1>1 DEF Unread
  <1>4. Asking(Unread', nextFetch', DOMAIN fetches', ready')
    BY <1>1, <1>2, <1>3 DEF Reading
  <1>5. ~ failed' /\ rpc' # "eof" => Unread'..nextFetch' - 1 \subseteq DOMAIN fetches' \cup ready'
    BY <1>1, <1>2, <1>3 DEF Reading
  <1>6. Reading'
    BY <1>1, <1>2, <1>4, <1>5, ReadingParts DEF Reading
  <1>7. QED
    BY <1>6 DEF ReaderInv, Reading

\* Nothing the writer does once the value is sealed disturbs a reader.
LEMMA ReaderUntouched ==
  ASSUME ReaderInv, UNCHANGED reader, wpc = "sealed" => UNCHANGED <<wpc, total>>
  PROVE  ReaderInv'
  <1>1. UNCHANGED <<start, end, position, nextFetch, lastFetch, fetches, ready, current, ordinal,
                    room, yielded, rpc, failed>>
    BY DEF reader
  <1>2. CASE rpc = "none"
    BY <1>1, <1>2 DEF ReaderInv
  <1>3. CASE rpc # "none"
    <2>1. Reading /\ UNCHANGED <<wpc, total>>
      BY <1>3 DEF ReaderInv, Reading
    <2>2. Unread' = Unread
      BY <1>1 DEF Unread
    <2>3. Asking(Unread', nextFetch', DOMAIN fetches', ready')
      BY <1>1, <2>1, <2>2 DEF Reading
    <2>4. ~ failed' /\ rpc' # "eof" =>
            Unread'..nextFetch' - 1 \subseteq DOMAIN fetches' \cup ready'
      BY <1>1, <2>1, <2>2 DEF Reading
    <2>5. Reading'
      BY <1>1, <2>1, <2>3, <2>4, ReadingParts DEF Reading
    <2>6. QED
      BY <1>1, <1>3, <2>5 DEF ReaderInv
  <1>4. QED
    BY <1>2, <1>3

LEMMA ReaderStep == WriterInv /\ ReaderInv /\ [PipeNext]_pipeVars => ReaderInv'
  <1> SUFFICES ASSUME WriterInv, ReaderInv, [PipeNext]_pipeVars PROVE ReaderInv'
    OBVIOUS
  <1>1. CASE \/ \E n \in 1..MaxBuf : PollWrite(n)
             \/ PollFlush \/ Seal \/ SealTail
             \/ \E o \in DOMAIN inFlight : UploadEnds(o) \/ Drain(o)
    <2>1. UNCHANGED reader
      BY <1>1 DEF PollWrite, PollFlush, Seal, SealTail, UploadEnds, Drain
    <2>2. wpc = "sealed" => UNCHANGED <<wpc, total>>
      BY <1>1 DEF PollWrite, PollFlush, Seal, SealTail, UploadEnds, Drain
    <2>3. QED
      BY <2>1, <2>2, ReaderUntouched
  <1>2. ASSUME NEW from \in 0..Len(Source), NEW to \in 0..Len(Source), OpenStream(from, to)
        PROVE  ReaderInv'
    <2>1. from \in Nat /\ to \in Nat
      BY SourceIs
    <2>2. QED
      BY <1>2, <2>1, Opens
  <1>3. ASSUME NEW k \in 1..MaxBuf, PollRead(k) PROVE ReaderInv'
    <2>1. k \in Nat
      BY PipelineAssumption
    <2>2. QED
      BY <1>3, <2>1, PollsRead
  <1>4. CASE PollLoop
    BY <1>4, PollsLoop
  <1>5. ASSUME NEW o \in DOMAIN fetches, FetchEnds(o) PROVE ReaderInv'
    BY <1>5, FetchesEnd
  <1>6. CASE UNCHANGED pipeVars
    BY <1>6, ReaderUntouched DEF pipeVars, writer
  <1>7. QED
    BY <1>1, <1>2, <1>3, <1>4, <1>5, <1>6 DEF PipeNext

LEMMA ReadingHolds == ReaderInv => YieldsTheWindow
  <1>1. Reading => position <= end
    <2> SUFFICES ASSUME Reading PROVE position <= end
      OBVIOUS
    <2>1. position \in start..end
      BY DEF Reading
    <2>2. QED
      BY <2>1
  <1>2. QED
    BY <1>1 DEF ReaderInv, Reading, YieldsTheWindow, Slice

\* Whatever order the fetches end in and however the polls are sized, ValueReader
\* yields the bytes of its window in order, and if no poll failed it ends only at the
\* end of the window.
THEOREM Pipeline_YieldsTheWindow == PipeSpec => []YieldsTheWindow
  <1>1. PipeInit => WriterInv /\ ReaderInv
    BY WriterInit, ReaderInit
  <1>2. WriterInv /\ ReaderInv /\ [PipeNext]_pipeVars => (WriterInv /\ ReaderInv)'
    BY WriterStep, ReaderStep
  <1>3. WriterInv /\ ReaderInv => YieldsTheWindow
    BY ReadingHolds
  <1>4. QED
    BY <1>1, <1>2, <1>3, PTL DEF PipeSpec

=============================================================================
