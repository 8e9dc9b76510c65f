------------------------- MODULE JitterBufferProofs -------------------------
(***************************************************************************)
(* Theorems about JitterBuffer for every size of the sequence space, every *)
(* set of profiles and any number of frames.                               *)
(*                                                                         *)
(* The argument: everything the receiver may be confronted with lies in a  *)
(* window of less than half of the sequence space below the newest frame.  *)
(* There the comparisons of wire sequences are those of frame numbers, the *)
(* first key is the oldest frame, and the expected sequence stands for a   *)
(* frame that no buffered frame precedes and that follows the last one     *)
(* played.                                                                 *)
(***************************************************************************)
EXTENDS JitterBuffer, FiniteSetTheorems, WellFoundedInduction, TLAPS

-----------------------------------------------------------------------------
(* Remainders.                                                             *)

LEMMA Quotient ==
    ASSUME NEW x \in Int, NEW m \in Int, m > 0
    PROVE  /\ x % m \in Int /\ 0 <= x % m /\ x % m < m
           /\ \E q \in Int : x = m * q + (x % m)
<1>1. x % m \in Int /\ 0 <= x % m /\ x % m < m
  OBVIOUS
<1>2. \E q \in Int : x = m * q + (x % m)
  OBVIOUS
<1> QED BY <1>1, <1>2

LEMMA RemainderUnique ==
    ASSUME NEW q \in Int, NEW r \in Int, NEW m \in Int, m > 0, 0 <= r, r < m
    PROVE  (m * q + r) % m = r
OBVIOUS

\* A difference of remainders is, modulo m, the difference of the numbers.
LEMMA DifferenceMod ==
    ASSUME NEW x \in Int, NEW y \in Int, NEW m \in Int, m > 0
    PROVE  ((x % m) - (y % m)) % m = (x - y) % m
<1>1. PICK q1 \in Int : x = m * q1 + (x % m)
  BY Quotient
<1>2. PICK q2 \in Int : y = m * q2 + (y % m)
  BY Quotient
<1>3. PICK q3 \in Int : (x - y) = m * q3 + ((x - y) % m)
  BY Quotient
<1> DEFINE a == x % m
           b == y % m
           r == (x - y) % m
           q == q3 - q1 + q2
<1>4. r \in Int /\ 0 <= r /\ r < m /\ q \in Int /\ a \in Int /\ b \in Int
  BY Quotient
<1>5. a - b = m * q + r
  <2>1. a = x - m * q1 /\ b = y - m * q2 /\ r = x - y - m * q3
    BY <1>1, <1>2, <1>3, <1>4
  <2>2. m * q = m * q3 - m * q1 + m * q2
    OBVIOUS
  <2> HIDE DEF q, r, a, b
  <2>3. a - b = x - y - m * q1 + m * q2
    BY <1>4, <2>1
  <2> QED BY <1>4, <2>1, <2>2, <2>3
<1> HIDE DEF q, r, a, b
<1>6. (m * q + r) % m = r
  BY <1>4, RemainderUnique
<1> QED BY <1>5, <1>6 DEF a, b, r

LEMMA SuccessorMod ==
    ASSUME NEW x \in Int, NEW m \in Int, m > 0
    PROVE  ((x % m) + 1) % m = (x + 1) % m
<1>1. PICK q1 \in Int : x = m * q1 + (x % m)
  BY Quotient
<1>2. PICK q2 \in Int : (x + 1) = m * q2 + ((x + 1) % m)
  BY Quotient
<1> DEFINE a == x % m
           r == (x + 1) % m
           q == q2 - q1
<1>3. r \in Int /\ 0 <= r /\ r < m /\ q \in Int /\ a \in Int
  BY Quotient
<1>4. a + 1 = m * q + r
  <2>1. a = x - m * q1 /\ r = x + 1 - m * q2
    BY <1>1, <1>2, <1>3
  <2>2. m * q = m * q2 - m * q1
    OBVIOUS
  <2> HIDE DEF q, r, a
  <2> QED BY <1>3, <2>1, <2>2
<1> HIDE DEF q, r, a
<1>5. (m * q + r) % m = r
  BY <1>3, RemainderUnique
<1> QED BY <1>4, <1>5 DEF a, r

\* Remainders of small numbers of either sign.
LEMMA SmallMod ==
    ASSUME NEW d \in Int, NEW m \in Int, m > 0, -m <= d, d < m
    PROVE  d % m = IF d >= 0 THEN d ELSE d + m
OBVIOUS

-----------------------------------------------------------------------------
(* Serial numbers.                                                         *)

LEMMA SpaceFacts == MOD \in Int /\ HALF \in Int /\ HALF >= 2 /\ MOD = HALF + HALF /\ MOD > 0
BY SpaceEven DEF HALF

\* Wire sequences of frames less than half of the space apart compare, and
\* differ, as the frames do.
LEMMA SerialOrder ==
    ASSUME NEW x \in Int, NEW y \in Int, x - y < HALF, y - x < HALF
    PROVE  /\ x % MOD \in Seqs
           /\ IsOlder(x % MOD, y % MOD) <=> x < y
           /\ Before(x % MOD, y % MOD) <=> x < y
           /\ x % MOD = y % MOD <=> x = y
<1>1. ((x % MOD) - (y % MOD)) % MOD = (x - y) % MOD
  BY DifferenceMod, SpaceFacts
<1>2. x % MOD \in Int /\ 0 <= x % MOD /\ x % MOD < MOD /\ y % MOD \in Int
  BY Quotient, SpaceFacts
<1>3. (x - y) % MOD = IF x - y >= 0 THEN x - y ELSE x - y + MOD
  BY SmallMod, SpaceFacts
<1>4. x % MOD = y % MOD => x = y
  <2> SUFFICES ASSUME x % MOD = y % MOD PROVE x = y
    OBVIOUS
  <2>1. (x % MOD) - (y % MOD) = 0
    BY <1>2
  <2>2. 0 % MOD = 0
    BY SmallMod, SpaceFacts
  <2> QED BY <1>1, <1>3, <2>1, <2>2, SpaceFacts
<1> DEFINE d == (x - y) % MOD
<1>5. d = IF x - y >= 0 THEN x - y ELSE x - y + MOD
  BY <1>3
<1> HIDE DEF d
<1>6. d > HALF <=> x < y
  BY <1>5, SpaceFacts
<1>7. d >= HALF <=> x < y
  BY <1>5, SpaceFacts
<1> QED BY <1>1, <1>2, <1>4, <1>6, <1>7, SpaceFacts DEF IsOlder, Before, Seqs, d

LEMMA NextSerial ==
    ASSUME NEW x \in Int
    PROVE  NextSeq(x % MOD) = (x + 1) % MOD /\ NextSeq(x % MOD) \in Seqs
BY SuccessorMod, Quotient, SpaceFacts DEF NextSeq, Seqs

\* A set of natural numbers has a least element.
LEMMA LeastNatural ==
    ASSUME NEW T, T \subseteq Nat, T # {}
    PROVE  \E n \in T : \A k \in T : n <= k
<1>1. \E n \in T : \A k \in T : ~(<<k, n>> \in OpToRel(<, Nat))
  BY NatLessThanWellFounded, WFMin
<1>2. \A k, n \in Nat : k < n => <<k, n>> \in OpToRel(<, Nat)
  BY DEF OpToRel
<1>3. PICK n \in T : \A k \in T : ~(<<k, n>> \in OpToRel(<, Nat))
  BY <1>1
<1>4. ASSUME NEW k \in T PROVE n <= k
  <2>1. k \in Nat /\ n \in Nat
    BY <1>3
  <2>2. ~(k < n)
    BY <1>2, <1>3, <2>1
  <2> QED BY <2>1, <2>2
<1> QED BY <1>3, <1>4

-----------------------------------------------------------------------------
(* The buffer, when the newest frame produced is p.                        *)

\* The TreeMap holds each frame under its own sequence, and only frames of the
\* window below p.
GoodFrames(f, p) ==
    /\ f \in [DOMAIN f -> Nat]
    /\ \A k \in DOMAIN f : f[k] % MOD = k /\ f[k] <= p /\ p + 1 - f[k] < HALF

LEMMA KeyOrder ==
    ASSUME NEW p \in Nat, NEW f, GoodFrames(f, p), NEW k \in DOMAIN f, NEW j \in DOMAIN f
    PROVE  /\ k \in Seqs /\ f[k] \in Nat
           /\ Before(k, j) <=> f[k] < f[j]
           /\ f[k] = f[j] => k = j
<1>1. /\ f[k] \in Nat /\ f[k] % MOD = k /\ f[k] <= p /\ p + 1 - f[k] < HALF
      /\ f[j] \in Nat /\ f[j] % MOD = j /\ f[j] <= p /\ p + 1 - f[j] < HALF
  BY DEF GoodFrames
<1> DEFINE x == f[k]
           y == f[j]
<1>2. x \in Int /\ y \in Int /\ x - y < HALF /\ y - x < HALF /\ x % MOD = k /\ y % MOD = j
  <2> HIDE DEF x, y
  <2>1. /\ x \in Nat /\ x % MOD = k /\ x <= p /\ p + 1 - x < HALF
        /\ y \in Nat /\ y % MOD = j /\ y <= p /\ p + 1 - y < HALF
    BY <1>1 DEF x, y
  <2> QED BY <2>1, SpaceFacts
<1> HIDE DEF x, y
<1>3. k \in Seqs /\ (Before(k, j) <=> x < y)
  BY <1>2, SerialOrder
<1> QED BY <1>1, <1>3 DEF x, y

LEMMA GoodFinite ==
    ASSUME NEW p \in Nat, NEW f, GoodFrames(f, p)
    PROVE  IsFiniteSet(DOMAIN f) /\ Size(f) \in Nat
<1>1. DOMAIN f \subseteq Seqs
  BY KeyOrder
<1>2. IsFiniteSet(Seqs)
  BY FS_Interval, SpaceFacts DEF Seqs
<1> QED BY <1>1, <1>2, FS_Subset, FS_CardinalityType DEF Size

\* firstKey is the key of the oldest frame.
LEMMA FirstKeyOldest ==
    ASSUME NEW p \in Nat, NEW f, GoodFrames(f, p), DOMAIN f # {}
    PROVE  /\ FirstKey(f) \in DOMAIN f
           /\ \A k \in DOMAIN f \ {FirstKey(f)} : f[FirstKey(f)] < f[k]
<1> DEFINE T == {f[k] : k \in DOMAIN f}
<1>1. T \subseteq Nat /\ T # {}
  BY DEF GoodFrames
<1>2. PICK n \in T : \A m \in T : n <= m
  <2> HIDE DEF T
  <2> QED BY <1>1, LeastNatural
<1>3. PICK k \in DOMAIN f : f[k] = n
  BY <1>2
<1>4. ASSUME NEW j \in DOMAIN f \ {k} PROVE Before(k, j)
  <2>1. f[k] <= f[j]
    BY <1>2, <1>3
  <2>2. f[k] # f[j] /\ f[k] \in Nat /\ f[j] \in Nat
    BY KeyOrder
  <2>3. f[k] < f[j]
    BY <2>1, <2>2
  <2> QED BY <2>3, KeyOrder
<1>5. FirstKey(f) \in DOMAIN f /\ \A j \in DOMAIN f \ {FirstKey(f)} : Before(FirstKey(f), j)
  BY <1>3, <1>4 DEF FirstKey
<1> QED BY <1>5, KeyOrder

\* There is a newest frame, too.
LEMMA LastKeyNewest ==
    ASSUME NEW p \in Nat, NEW f, GoodFrames(f, p), DOMAIN f # {}
    PROVE  \E k \in DOMAIN f : \A j \in DOMAIN f : ~Before(k, j)
<1> DEFINE T == {p - f[k] : k \in DOMAIN f}
<1>1. T \subseteq Nat /\ T # {}
  <2>1. \A k \in DOMAIN f : p - f[k] \in Nat
    BY DEF GoodFrames
  <2> QED BY <2>1
<1>2. PICK n \in T : \A m \in T : n <= m
  <2> HIDE DEF T
  <2> QED BY <1>1, LeastNatural
<1>3. PICK k \in DOMAIN f : p - f[k] = n
  BY <1>2
<1>4. ASSUME NEW j \in DOMAIN f PROVE ~Before(k, j)
  <2>1. p - f[k] <= p - f[j]
    BY <1>2, <1>3
  <2>2. f[k] \in Nat /\ f[j] \in Nat
    BY KeyOrder
  <2>3. ~(f[k] < f[j])
    BY <2>1, <2>2
  <2> QED BY <2>3, KeyOrder
<1> QED BY <1>4

\* Any part of a good buffer is one.
LEMMA PartGood ==
    ASSUME NEW p \in Nat, NEW f, GoodFrames(f, p), NEW S \in SUBSET DOMAIN f
    PROVE  /\ DOMAIN Restrict(f, S) = S
           /\ \A k \in S : Restrict(f, S)[k] = f[k]
           /\ GoodFrames(Restrict(f, S), p)
           /\ Size(Restrict(f, S)) <= Size(f)
<1>1. DOMAIN Restrict(f, S) = S /\ \A k \in S : Restrict(f, S)[k] = f[k]
  BY DEF Restrict
<1>2. Restrict(f, S) \in [S -> Nat]
  BY DEF Restrict, GoodFrames
<1>3. GoodFrames(Restrict(f, S), p)
  BY <1>1, <1>2 DEF GoodFrames
<1>4. Size(Restrict(f, S)) <= Size(f)
  BY <1>1, GoodFinite, FS_Subset DEF Size
<1> QED BY <1>1, <1>3, <1>4

\* How many frames are newer than the one under k.
Newer(f, k) == {j \in DOMAIN f : Before(k, j)}

\* Of two frames the older one has more newer ones.
LEMMA NewerStrict ==
    ASSUME NEW p \in Nat, NEW f, GoodFrames(f, p), NEW k \in DOMAIN f, NEW j \in DOMAIN f,
           f[k] < f[j]
    PROVE  Cardinality(Newer(f, j)) < Cardinality(Newer(f, k))
<1>1. Newer(f, j) \subseteq Newer(f, k)
  <2>1. ASSUME NEW i \in Newer(f, j) PROVE i \in Newer(f, k)
    <3>1. i \in DOMAIN f /\ f[j] < f[i]
      BY KeyOrder DEF Newer
    <3>2. f[k] \in Nat /\ f[j] \in Nat /\ f[i] \in Nat
      BY <3>1, KeyOrder
    <3>3. f[k] < f[i]
      BY <3>1, <3>2
    <3> QED BY <3>1, <3>3, KeyOrder DEF Newer
  <2> QED BY <2>1
<1>2. j \in Newer(f, k)
  BY KeyOrder DEF Newer
<1>3. j \notin Newer(f, j)
  BY DEF Newer, Before
<1>4. IsFiniteSet(Newer(f, k)) /\ IsFiniteSet(Newer(f, j))
  BY GoodFinite, FS_Subset DEF Newer
<1>5. Cardinality(Newer(f, k)) \in Nat /\ Cardinality(Newer(f, j)) \in Nat
  BY <1>4, FS_CardinalityType
<1>6. /\ Cardinality(Newer(f, j)) <= Cardinality(Newer(f, k))
      /\ Cardinality(Newer(f, k)) = Cardinality(Newer(f, j)) => Newer(f, k) = Newer(f, j)
  BY <1>1, <1>4, FS_Subset
<1> QED BY <1>2, <1>3, <1>5, <1>6

\* pollFirstEntry until n are left: at most n are left, and some if n is not 0.
LEMMA NewestKept ==
    ASSUME NEW p \in Nat, NEW f, GoodFrames(f, p), NEW n \in Int
    PROVE  /\ DOMAIN Newest(f, n) \subseteq DOMAIN f
           /\ \A k \in DOMAIN Newest(f, n) : Newest(f, n)[k] = f[k]
           /\ GoodFrames(Newest(f, n), p)
           /\ Size(Newest(f, n)) <= Size(f)
           /\ n >= 0 => Size(Newest(f, n)) <= n
           /\ n >= 1 /\ DOMAIN f # {} => DOMAIN Newest(f, n) # {}
<1> DEFINE S == {k \in DOMAIN f : Cardinality(Newer(f, k)) < n}
<1>1. Newest(f, n) = Restrict(f, S) /\ S \in SUBSET DOMAIN f
  BY DEF Newest, Newer
<1>2. /\ DOMAIN Newest(f, n) = S
      /\ \A k \in S : Newest(f, n)[k] = f[k]
      /\ GoodFrames(Newest(f, n), p)
      /\ Size(Newest(f, n)) <= Size(f)
  BY <1>1, PartGood
<1>3. \A k \in DOMAIN f : Cardinality(Newer(f, k)) \in Nat
  <2>1. \A k \in DOMAIN f : IsFiniteSet(Newer(f, k))
    BY GoodFinite, FS_Subset DEF Newer
  <2> QED BY <2>1, FS_CardinalityType
<1>4. ASSUME n >= 0 PROVE Cardinality(S) <= n
  <2> DEFINE rank == [k \in S |-> Cardinality(Newer(f, k))]
  <2>1. rank \in [S -> 0..(n - 1)]
    BY <1>3, <1>4
  <2>2. ASSUME NEW k \in S, NEW j \in S, rank[k] = rank[j] PROVE k = j
    <3>1. f[k] \in Nat /\ f[j] \in Nat /\ (f[k] = f[j] => k = j)
      BY KeyOrder
    <3>2. ~(f[k] < f[j])
      BY <1>3, <2>2, NewerStrict
    <3>3. ~(f[j] < f[k])
      BY <1>3, <2>2, NewerStrict
    <3> QED BY <3>1, <3>2, <3>3
  <2>3. rank \in Injection(S, 0..(n - 1))
    BY <2>1, <2>2 DEF Injection, IsInjective
  <2>4. IsFiniteSet(0..(n - 1)) /\ Cardinality(0..(n - 1)) = n
    BY <1>4, FS_Interval
  <2> HIDE DEF rank, S
  <2> QED BY <2>3, <2>4, FS_Injection
<1>5. ASSUME n >= 1, DOMAIN f # {} PROVE S # {}
  <2>1. PICK k \in DOMAIN f : \A j \in DOMAIN f : ~Before(k, j)
    BY <1>5, LastKeyNewest
  <2>2. Newer(f, k) = {}
    BY <2>1 DEF Newer
  <2>3. Cardinality(Newer(f, k)) < n
    BY <1>5, <2>2, FS_EmptySet
  <2> QED BY <2>3
<1> QED BY <1>2, <1>4, <1>5 DEF Size

-----------------------------------------------------------------------------
(* The inductive invariant.                                                *)

InWindow(n, p) == n <= p /\ p + 1 - n < HALF

\* E is the frame that the sequence e stands for: no frame of the buffer f is
\* older, and it follows the last one played.
Anchor(E, f, e, p, l) ==
    /\ E % MOD = e
    /\ E <= p + 1 /\ p + 1 - E < HALF
    /\ \A k \in DOMAIN f : E <= f[k]
    /\ l # None => l < E

Anchored(f, e, p, l) == e # None => \E E \in Int : Anchor(E, f, e, p, l)

JitterInv ==
    /\ TypeOK
    /\ GoodFrames(frames, produced)
    /\ \A n \in net : InWindow(n, produced)
    /\ receiving # None => InWindow(receiving, produced)
    /\ Anchored(frames, expectedSequence, produced, last)
    /\ last # None => playoutStarted
    /\ PlayoutNeverStuck
    /\ LatencyBounded

\* The empty buffer.
LEMMA EmptyGood ==
    ASSUME NEW p \in Nat
    PROVE  GoodFrames(NoFrames, p) /\ DOMAIN NoFrames = {} /\ Size(NoFrames) = 0
BY FS_EmptySet DEF GoodFrames, NoFrames, Size

LEMMA EmptyIsNoFrames ==
    ASSUME NEW p \in Nat, NEW f, GoodFrames(f, p), f # NoFrames
    PROVE  DOMAIN f # {}
BY DEF GoodFrames, NoFrames

\* What makes up the type invariant in a good state.
LEMMA GoodTypes ==
    ASSUME NEW p \in Nat, NEW f, GoodFrames(f, p)
    PROVE  DOMAIN f \subseteq Seqs /\ f \in [DOMAIN f -> Nat]
BY KeyOrder DEF GoodFrames

LEMMA NoneApart == None \notin Seqs /\ None \notin Nat /\ Seqs \subseteq Nat
BY NoneIsNoSequence, SpaceFacts DEF Seqs

LEMMA ProfileFacts ==
    ASSUME NEW p \in Profiles
    PROVE  /\ p.max \in Nat /\ p.threshold \in Nat /\ p.start \in Nat
           /\ p.max >= 1 /\ p.threshold >= 1
BY ProfilesCoerced DEF Profile

\* An anchor of the buffer is one of each part of it.
LEMMA AnchoredPart ==
    ASSUME NEW f, NEW g, NEW e, NEW p, NEW l, Anchored(f, e, p, l),
           DOMAIN g \subseteq DOMAIN f, \A k \in DOMAIN g : g[k] = f[k]
    PROVE  Anchored(g, e, p, l)
BY DEF Anchored, Anchor

\* The oldest frame is an anchor, if it follows what was played.
LEMMA OldestAnchors ==
    ASSUME NEW p \in Nat, NEW f, GoodFrames(f, p), DOMAIN f # {}, NEW l,
           l # None => l < f[FirstKey(f)]
    PROVE  Anchored(f, FirstKey(f), p, l) /\ FirstKey(f) \in Seqs
<1> DEFINE k == FirstKey(f)
           E == f[k]
<1>1. k \in DOMAIN f /\ \A j \in DOMAIN f \ {k} : f[k] < f[j]
  BY FirstKeyOldest
<1>2. E \in Nat /\ E % MOD = k /\ E <= p /\ p + 1 - E < HALF /\ k \in Seqs
  BY <1>1, KeyOrder DEF GoodFrames
<1>3. \A j \in DOMAIN f : f[j] \in Nat
  BY DEF GoodFrames
<1> HIDE DEF k
<1>4. \A j \in DOMAIN f : E <= f[j]
  BY <1>1, <1>2, <1>3
<1> HIDE DEF E
<1>5. Anchor(E, f, k, p, l)
  BY <1>2, <1>4 DEF Anchor, k, E
<1> QED BY <1>2, <1>5 DEF Anchored, k

\* trimIfNeeded and trimLatencyTailIfNeeded, on a good buffer.
LEMMA TrimPreserves ==
    ASSUME JitterInv, NEW f, GoodFrames(f, produced), NEW p \in Profiles, NEW elapsed \in BOOLEAN,
           Anchored(f, expectedSequence, produced, last), Trim(f, p, elapsed)
    PROVE  /\ GoodFrames(frames', produced)
           /\ overflow' \in BOOLEAN
           /\ expectedSequence' \in Seqs \cup {None}
           /\ expectedSequence # None => expectedSequence' # None
           /\ Anchored(frames', expectedSequence', produced, last)
           /\ Size(frames') <= p.max
           /\ Size(frames') > p.threshold => overflow'
<1> DEFINE g == Newest(f, p.max)
           h == Newest(g, p.threshold)
<1>0. /\ produced \in Nat /\ expectedSequence \in Seqs \cup {None}
      /\ last # None => expectedSequence # None
  BY DEF JitterInv, TypeOK, PlayoutNeverStuck
<1>1. /\ DOMAIN g \subseteq DOMAIN f /\ \A k \in DOMAIN g : g[k] = f[k]
      /\ GoodFrames(g, produced) /\ Size(g) <= p.max
  BY <1>0, ProfileFacts, NewestKept
<1>2. /\ DOMAIN h \subseteq DOMAIN g /\ \A k \in DOMAIN h : h[k] = g[k]
      /\ GoodFrames(h, produced) /\ Size(h) <= Size(g) /\ Size(h) <= p.threshold
      /\ DOMAIN g # {} => DOMAIN h # {}
  <2> HIDE DEF g
  <2>1. p.threshold \in Int /\ p.threshold >= 0 /\ p.threshold >= 1
    BY ProfileFacts
  <2>2. /\ DOMAIN h \subseteq DOMAIN g
        /\ \A k \in DOMAIN h : h[k] = g[k]
        /\ GoodFrames(h, produced)
        /\ Size(h) <= Size(g)
        /\ p.threshold >= 0 => Size(h) <= p.threshold
        /\ p.threshold >= 1 /\ DOMAIN g # {} => DOMAIN h # {}
    <3> SUFFICES ASSUME NEW b, b = g
                 PROVE  /\ DOMAIN Newest(b, p.threshold) \subseteq DOMAIN b
                        /\ \A k \in DOMAIN Newest(b, p.threshold) : Newest(b, p.threshold)[k] = b[k]
                        /\ GoodFrames(Newest(b, p.threshold), produced)
                        /\ Size(Newest(b, p.threshold)) <= Size(b)
                        /\ p.threshold >= 0 => Size(Newest(b, p.threshold)) <= p.threshold
                        /\ p.threshold >= 1 /\ DOMAIN b # {} => DOMAIN Newest(b, p.threshold) # {}
      OBVIOUS
    <3>1. GoodFrames(b, produced)
      BY <1>1
    <3>2. produced \in Nat /\ p.threshold \in Int
      BY <1>0, <2>1
    <3> QED BY <3>1, <3>2, NewestKept, SMTT(30)
  <2> QED BY <2>1, <2>2
<1>3. Anchored(g, expectedSequence, produced, last) /\ Anchored(h, expectedSequence, produced, last)
  <2> HIDE DEF g, h
  <2> QED BY <1>1, <1>2, AnchoredPart
<1>4. Size(g) \in Nat /\ Size(h) \in Nat
  BY <1>0, <1>1, <1>2, GoodFinite
<1>5. CASE Size(g) <= p.threshold
  <2>1. frames' = g /\ overflow' = FALSE /\ expectedSequence' = expectedSequence
    BY <1>5 DEF Trim
  <2> HIDE DEF g, h
  <2>2. ~(Size(g) > p.threshold)
    BY <1>4, <1>5, ProfileFacts
  <2> QED BY <1>0, <1>1, <1>3, <2>1, <2>2
<1>6. CASE ~(Size(g) <= p.threshold) /\ (~overflow \/ ~elapsed)
  <2>1. frames' = g /\ overflow' = TRUE /\ expectedSequence' = expectedSequence
    BY <1>6 DEF Trim
  <2> HIDE DEF g, h
  <2> QED BY <1>0, <1>1, <1>3, <2>1
<1>7. CASE ~(Size(g) <= p.threshold) /\ ~(~overflow \/ ~elapsed)
  <2>1. /\ frames' = h /\ overflow' = FALSE
        /\ expectedSequence' = IF expectedSequence = None \/ IsOlder(expectedSequence, FirstKey(h))
                               THEN FirstKey(h) ELSE expectedSequence
    BY <1>7 DEF Trim
  <2>2. DOMAIN g # {}
    BY <1>4, <1>7, ProfileFacts, FS_EmptySet DEF Size
  <2> HIDE DEF g, h
  <2>3. FirstKey(h) \in DOMAIN h /\ FirstKey(h) \in Seqs /\ h[FirstKey(h)] \in Nat
    BY <1>0, <1>2, <2>2, FirstKeyOldest, KeyOrder
  <2>4. last # None => last < h[FirstKey(h)]
    <3> SUFFICES ASSUME last # None PROVE last < h[FirstKey(h)]
      OBVIOUS
    <3>1. PICK E \in Int : Anchor(E, h, expectedSequence, produced, last)
      BY <1>0, <1>3 DEF Anchored
    <3>2. last < E /\ E <= h[FirstKey(h)] /\ last \in Nat
      BY <2>3, <3>1 DEF Anchor, JitterInv, TypeOK
    <3> QED BY <2>3, <3>2
  <2>5. Anchored(h, FirstKey(h), produced, last)
    BY <1>0, <1>2, <2>2, <2>4, OldestAnchors
  <2>6. Size(h) <= p.max
    BY <1>1, <1>2, <1>4, ProfileFacts
  <2>7. ~(Size(h) > p.threshold)
    BY <1>2, <1>4, ProfileFacts
  <2>8. /\ expectedSequence' \in Seqs \cup {None}
        /\ expectedSequence # None => expectedSequence' # None
        /\ Anchored(h, expectedSequence', produced, last)
    BY <1>0, <1>3, <2>1, <2>3, <2>5, NoneApart
  <2> QED BY <1>2, <2>1, <2>6, <2>7, <2>8
<1> QED BY <1>5, <1>6, <1>7

\* What push and reconfigure leave behind for the profile q.
BufferKept(q) ==
    /\ GoodFrames(frames', produced)
    /\ overflow' \in BOOLEAN
    /\ expectedSequence' \in Seqs \cup {None}
    /\ expectedSequence # None => expectedSequence' # None
    /\ Anchored(frames', expectedSequence', produced, last)
    /\ Size(frames') <= q.max
    /\ Size(frames') > q.threshold => overflow'

LEMMA PushPreserves ==
    ASSUME JitterInv, NEW n \in Nat, InWindow(n, produced), NEW elapsed \in BOOLEAN,
           Push(n, elapsed)
    PROVE  BufferKept(profile)
<1> DEFINE seq == n % MOD
           late == expectedSequence # None /\ IsOlder(seq, expectedSequence)
           f == [k \in DOMAIN frames \cup {seq} |-> IF k = seq THEN n ELSE frames[k]]
<1>0. /\ produced \in Nat /\ GoodFrames(frames, produced) /\ profile \in Profiles
      /\ Anchored(frames, expectedSequence, produced, last)
  BY DEF JitterInv, TypeOK
<1>1. CASE seq \in DOMAIN frames \/ late
  <2>1. UNCHANGED <<frames, expectedSequence, overflow>>
    BY <1>1 DEF Push
  <2> QED BY <1>0, <2>1 DEF BufferKept, JitterInv, TypeOK, LatencyBounded
<1>2. CASE ~(seq \in DOMAIN frames \/ late)
  <2>1. Trim(f, profile, elapsed)
    BY <1>2 DEF Push
  <2>2. GoodFrames(f, produced)
    <3>1. n <= produced /\ produced + 1 - n < HALF
      BY DEF InWindow
    <3>2. DOMAIN f = DOMAIN frames \cup {seq} /\ f \in [DOMAIN f -> Nat]
      BY <1>0 DEF GoodFrames
    <3>3. \A k \in DOMAIN f : f[k] = IF k = seq THEN n ELSE frames[k]
      OBVIOUS
    <3> HIDE DEF f
    <3> QED BY <1>0, <3>1, <3>2, <3>3 DEF GoodFrames
  <2>3. Anchored(f, expectedSequence, produced, last)
    <3> SUFFICES ASSUME expectedSequence # None
                 PROVE  \E E \in Int : Anchor(E, f, expectedSequence, produced, last)
      BY DEF Anchored
    <3>1. PICK E \in Int : Anchor(E, frames, expectedSequence, produced, last)
      BY <1>0 DEF Anchored
    <3>2. E <= n
      <4>1. n - E < HALF /\ E - n < HALF
        BY <1>0, <3>1, SpaceFacts DEF Anchor, InWindow
      <4>2. ~IsOlder(n % MOD, E % MOD)
        BY <1>2, <3>1 DEF Anchor
      <4> QED BY <4>1, <4>2, SerialOrder
    <3>3. Anchor(E, f, expectedSequence, produced, last)
      BY <3>1, <3>2 DEF Anchor
    <3> QED BY <3>3
  <2> HIDE DEF f
  <2> QED BY <1>0, <2>1, <2>2, <2>3, TrimPreserves DEF BufferKept
<1> QED BY <1>1, <1>2

\* A buffer that BufferKept describes keeps the invariant.
LEMMA BufferKeptInv ==
    ASSUME JitterInv, NEW q \in Profiles, BufferKept(q), profile' = q,
           UNCHANGED <<produced, marked, net, playoutStarted, batch, last>>,
           receiving' \in {receiving, None}
    PROVE  JitterInv'
<1>1. produced \in Nat /\ TypeOK
  BY DEF JitterInv, TypeOK
<1>2. DOMAIN frames' \subseteq Seqs /\ frames' \in [DOMAIN frames' -> Nat]
  BY <1>1, GoodTypes DEF BufferKept
<1>3. TypeOK'
  BY <1>1, <1>2 DEF TypeOK, BufferKept
<1>4. PlayoutNeverStuck' /\ LatencyBounded'
  BY DEF BufferKept, PlayoutNeverStuck, LatencyBounded, JitterInv
<1>5. GoodFrames(frames, produced)' /\ Anchored(frames, expectedSequence, produced, last)'
  BY DEF BufferKept
<1> QED BY <1>3, <1>4, <1>5 DEF JitterInv

\* clear
LEMMA ClearPreserves ==
    ASSUME JitterInv, ClearBuffer, UNCHANGED <<produced, marked, profile, batch>>,
           net' \subseteq net, receiving' \in net \cup {receiving, None}
    PROVE  JitterInv'
<1>1. produced \in Nat /\ profile \in Profiles
  BY DEF JitterInv, TypeOK
<1>2. GoodFrames(frames', produced) /\ DOMAIN frames' = {} /\ Size(frames') = 0
  BY <1>1, EmptyGood DEF ClearBuffer
<1>3. TypeOK'
  <2>1. DOMAIN frames' \subseteq Seqs /\ frames' \in [DOMAIN frames' -> Nat]
    BY <1>1, <1>2, GoodTypes
  <2>2. net' \subseteq Nat /\ receiving' \in Nat \cup {None}
    BY DEF JitterInv, TypeOK
  <2> QED BY <2>1, <2>2 DEF JitterInv, TypeOK, ClearBuffer
<1>4. PlayoutNeverStuck'
  BY DEF PlayoutNeverStuck, ClearBuffer
<1>5. LatencyBounded'
  BY <1>1, <1>2, ProfileFacts DEF LatencyBounded
<1>6. /\ \A n \in net' : InWindow(n, produced)
      /\ receiving' # None => InWindow(receiving', produced)
  BY DEF JitterInv
<1>7. Anchored(frames', expectedSequence', produced, last')
  BY DEF Anchored, ClearBuffer
<1>8. last' = None
  BY DEF ClearBuffer
<1> QED BY <1>2, <1>3, <1>4, <1>5, <1>6, <1>7, <1>8 DEF JitterInv

\* Numbers with the same remainder that are less than m apart are equal.
LEMMA SameRemainder ==
    ASSUME NEW x \in Int, NEW y \in Int, NEW m \in Int, m > 0, x - y < m, y - x < m, x % m = y % m
    PROVE  x = y
<1>1. (x % m) - (y % m) = 0
  BY Quotient
<1>2. (x - y) % m = 0 % m
  BY <1>1, DifferenceMod
<1>3. 0 % m = 0
  BY SmallMod
<1>4. (x - y) % m = IF x - y >= 0 THEN x - y ELSE x - y + m
  BY SmallMod
<1> QED BY <1>2, <1>3, <1>4

\* The anchor is the frame that the guard of Produce speaks of.
LEMMA ExpectedFrameIs ==
    ASSUME produced \in Nat, NEW E \in Int, E % MOD = expectedSequence,
           E <= produced + 1, produced + 1 - E < HALF
    PROVE  ExpectedFrame = E
<1>1. E \in (produced + 2 - MOD)..(produced + 1)
  BY SpaceFacts
<1>2. /\ ExpectedFrame \in (produced + 2 - MOD)..(produced + 1)
      /\ ExpectedFrame % MOD = expectedSequence
  BY <1>1 DEF ExpectedFrame
<1>3. /\ ExpectedFrame \in Int /\ ExpectedFrame - E < MOD /\ E - ExpectedFrame < MOD
  BY <1>1, <1>2, SpaceFacts
<1> QED BY <1>2, <1>3, SameRemainder, SpaceFacts

-----------------------------------------------------------------------------
(* The steps, each with what it does to the promise.                       *)

LEMMA NetworkStep ==
    ASSUME JitterInv, Network
    PROVE  JitterInv' /\ (Promise!Produce \/ UNCHANGED <<produced, last>>)
<1>0. produced \in Nat
  BY DEF JitterInv, TypeOK
<1>1. ASSUME NEW mark \in BOOLEAN, Produce(mark)
      PROVE  JitterInv' /\ Promise!Produce
  <2> USE <1>1 DEF Produce
  <2>1. TypeOK'
    BY DEF JitterInv, TypeOK
  <2>2. \A n \in InPlay : produced + 2 - n < HALF
    OBVIOUS
  <2>3. \A n \in Int : n <= produced /\ produced + 2 - n < HALF => InWindow(n, produced')
    BY <1>0, SpaceFacts DEF InWindow
  <2>4. InWindow(produced + 1, produced')
    BY <1>0, SpaceFacts DEF InWindow
  <2>5. \A n \in net' : InWindow(n, produced')
    <3>1. \A n \in net : n \in Int /\ n <= produced /\ n \in InPlay
      BY DEF JitterInv, TypeOK, InWindow, InPlay
    <3> QED BY <2>2, <2>3, <2>4, <3>1
  <2>6. receiving' # None => InWindow(receiving', produced')
    <3>1. receiving # None => receiving \in Int /\ receiving <= produced /\ receiving \in InPlay
      BY DEF JitterInv, TypeOK, InWindow, InPlay
    <3> QED BY <2>2, <2>3, <3>1
  <2>7. GoodFrames(frames', produced')
    <3>1. \A k \in DOMAIN frames : frames[k] \in Nat /\ frames[k] <= produced /\ frames[k] % MOD = k
      BY DEF JitterInv, GoodFrames
    <3>2. \A k \in DOMAIN frames : frames[k] \in InPlay
      BY DEF InPlay, Range
    <3>3. \A k \in DOMAIN frames : InWindow(frames[k], produced')
      BY <2>2, <2>3, <3>1, <3>2
    <3> QED BY <3>1, <3>3 DEF JitterInv, GoodFrames, InWindow
  <2>8. Anchored(frames', expectedSequence', produced', last')
    <3> SUFFICES ASSUME expectedSequence # None
                 PROVE  \E E \in Int : Anchor(E, frames, expectedSequence, produced', last)
      BY DEF Anchored
    <3>1. PICK E \in Int : Anchor(E, frames, expectedSequence, produced, last)
      BY DEF JitterInv, Anchored
    <3>2. ExpectedFrame = E
      BY <1>0, <3>1, ExpectedFrameIs DEF Anchor
    <3>3. produced + 2 - E < HALF
      BY <2>2, <3>2 DEF InPlay
    <3>4. Anchor(E, frames, expectedSequence, produced', last)
      BY <1>0, <3>1, <3>3, SpaceFacts DEF Anchor
    <3> QED BY <3>4
  <2>9. PlayoutNeverStuck' /\ LatencyBounded' /\ (last' # None => playoutStarted')
    BY DEF JitterInv, PlayoutNeverStuck, LatencyBounded
  <2>10. Promise!Produce
    BY DEF Promise!Produce
  <2> QED BY <2>1, <2>5, <2>6, <2>7, <2>8, <2>9, <2>10 DEF JitterInv
<1>2. ASSUME NEW n \in net, Lose(n)
      PROVE  JitterInv' /\ UNCHANGED <<produced, last>>
  <2>1. TypeOK'
    BY <1>2 DEF Lose, JitterInv, TypeOK
  <2>2. PlayoutNeverStuck' /\ LatencyBounded'
    BY <1>2 DEF Lose, JitterInv, PlayoutNeverStuck, LatencyBounded
  <2> QED BY <1>2, <2>1, <2>2 DEF Lose, JitterInv
<1> QED BY <1>1, <1>2 DEF Network

LEMMA ReceivingStep ==
    ASSUME JitterInv, Receiving
    PROVE  JitterInv' /\ (Promise!EndRun \/ UNCHANGED <<produced, last>>)
<1>1. ASSUME NEW n \in net, NEW again \in BOOLEAN, Receive(n, again)
      PROVE  JitterInv' /\ (Promise!EndRun \/ UNCHANGED <<produced, last>>)
  <2>0. net' \subseteq net /\ receiving' = n /\ UNCHANGED <<produced, marked, profile, batch>>
    BY <1>1 DEF Receive
  <2>1. CASE n \in marked
    <3>1. ClearBuffer
      BY <1>1, <2>1 DEF Receive
    <3>2. JitterInv'
      BY <2>0, <3>1, ClearPreserves
    <3> QED BY <2>0, <3>1, <3>2 DEF ClearBuffer, Promise!EndRun
  <2>2. CASE n \notin marked
    <3>1. UNCHANGED <<frames, playoutStarted, expectedSequence, overflow, last>>
      BY <1>1, <2>2 DEF Receive
    <3>2. TypeOK'
      BY <2>0, <3>1 DEF JitterInv, TypeOK
    <3>3. PlayoutNeverStuck' /\ LatencyBounded'
      BY <2>0, <3>1 DEF JitterInv, PlayoutNeverStuck, LatencyBounded
    <3> QED BY <2>0, <3>1, <3>2, <3>3 DEF JitterInv
  <2> QED BY <2>1, <2>2
<1>2. ASSUME NEW elapsed \in BOOLEAN, PushDecoded(elapsed)
      PROVE  JitterInv' /\ UNCHANGED <<produced, last>>
  <2>1. receiving \in Nat /\ InWindow(receiving, produced) /\ profile \in Profiles
    BY <1>2 DEF PushDecoded, JitterInv, TypeOK
  <2>2. BufferKept(profile)
    BY <1>2, <2>1, PushPreserves DEF PushDecoded
  <2> QED BY <1>2, <2>1, <2>2, BufferKeptInv DEF PushDecoded
<1>3. ASSUME DecodeFails PROVE JitterInv' /\ UNCHANGED <<produced, last>>
  <2>1. TypeOK'
    BY <1>3 DEF DecodeFails, JitterInv, TypeOK
  <2>2. PlayoutNeverStuck' /\ LatencyBounded'
    BY <1>3 DEF DecodeFails, JitterInv, PlayoutNeverStuck, LatencyBounded
  <2> QED BY <1>3, <2>1, <2>2 DEF DecodeFails, JitterInv
<1> QED BY <1>1, <1>2, <1>3 DEF Receiving

\* Taking the frame under k, which no buffered frame precedes, and expecting
\* the next one.
LEMMA TakePreserves ==
    ASSUME JitterInv, NEW k \in DOMAIN frames,
           \A j \in DOMAIN frames \ {k} : frames[k] < frames[j],
           last # None => last < frames[k],
           frames' = Without(frames, k), expectedSequence' = NextSeq(k), last' = frames[k],
           playoutStarted' = TRUE, batch' \in 0..BATCH, UNCHANGED <<netVars, overflow, profile>>
    PROVE  JitterInv' /\ Promise!Play
<1> DEFINE n == frames[k]
           rest == DOMAIN frames \ {k}
<1>0. produced \in Nat /\ GoodFrames(frames, produced) /\ profile \in Profiles
  BY DEF JitterInv, TypeOK
<1>1. n \in Nat /\ n % MOD = k /\ n <= produced /\ produced + 1 - n < HALF
  BY <1>0 DEF GoodFrames
<1>2. /\ DOMAIN frames' = rest /\ \A j \in rest : frames'[j] = frames[j]
      /\ GoodFrames(frames', produced) /\ Size(frames') <= Size(frames)
  BY <1>0, PartGood DEF Without
<1>3. expectedSequence' = (n + 1) % MOD /\ expectedSequence' \in Seqs
  <2> HIDE DEF n
  <2> QED BY <1>1, NextSerial
<1>4. Anchor(n + 1, frames', expectedSequence', produced, last')
  <2>1. \A j \in rest : n < frames[j] /\ frames[j] \in Nat
    BY <1>0 DEF GoodFrames
  <2>2. last' = n
    OBVIOUS
  <2> HIDE DEF n, rest
  <2> QED BY <1>0, <1>1, <1>2, <1>3, <2>1, <2>2, SpaceFacts DEF Anchor
<1>5. Anchored(frames', expectedSequence', produced, last')
  <2> HIDE DEF n
  <2> QED BY <1>1, <1>4 DEF Anchored
<1>6. TypeOK'
  <2>1. DOMAIN frames' \subseteq Seqs /\ frames' \in [DOMAIN frames' -> Nat]
    BY <1>0, <1>2, GoodTypes
  <2>2. last' \in Nat
    BY <1>1
  <2> QED BY <1>3, <2>1, <2>2 DEF JitterInv, TypeOK, netVars
<1>7. PlayoutNeverStuck'
  BY <1>3, NoneApart DEF PlayoutNeverStuck
<1>8. LatencyBounded'
  <2>1. Size(frames') \in Nat /\ Size(frames) \in Nat
    BY <1>0, <1>2, GoodFinite
  <2> QED BY <1>0, <1>2, <2>1, ProfileFacts DEF JitterInv, LatencyBounded
<1>9. Promise!Play
  BY <1>0, <1>1 DEF Promise!Play, netVars, JitterInv, TypeOK
<1> QED BY <1>2, <1>5, <1>6, <1>7, <1>8, <1>9 DEF JitterInv, netVars

\* The frame under the expected sequence is the one it stands for, the first of
\* the buffer.
LEMMA ExpectedIsFirst ==
    ASSUME JitterInv, expectedSequence \in DOMAIN frames
    PROVE  /\ \A j \in DOMAIN frames \ {expectedSequence} : frames[expectedSequence] < frames[j]
           /\ last # None => last < frames[expectedSequence]
<1> DEFINE k == expectedSequence
           n == frames[k]
<1>0. produced \in Nat /\ GoodFrames(frames, produced)
  BY DEF JitterInv, TypeOK
<1>1. k \in Seqs /\ n \in Nat /\ n % MOD = k /\ n <= produced /\ produced + 1 - n < HALF
  BY <1>0, KeyOrder DEF GoodFrames
<1>2. PICK E \in Int : Anchor(E, frames, k, produced, last)
  BY <1>1, NoneApart DEF JitterInv, Anchored
<1>3. E = n
  <2>1. E % MOD = k /\ E <= produced + 1 /\ produced + 1 - E < HALF
    BY <1>2 DEF Anchor
  <2> HIDE DEF n, k
  <2>2. n - E < HALF /\ E - n < HALF /\ n % MOD = E % MOD /\ n \in Int
    BY <1>0, <1>1, <2>1, SpaceFacts
  <2> QED BY <2>2, SerialOrder
<1>4. ASSUME NEW j \in DOMAIN frames \ {k} PROVE n < frames[j]
  <2>1. n <= frames[j] /\ n # frames[j] /\ frames[j] \in Nat
    BY <1>0, <1>2, <1>3, KeyOrder DEF Anchor
  <2> HIDE DEF n
  <2> QED BY <1>1, <2>1
<1> QED BY <1>2, <1>3, <1>4 DEF Anchor

LEMMA PopStep ==
    ASSUME JitterInv, PopFrame
    PROVE  JitterInv' /\ Promise!Play
<1> DEFINE k == IF PopKey \in DOMAIN frames THEN PopKey ELSE FirstKey(frames)
<1>0. produced \in Nat /\ GoodFrames(frames, produced)
  BY DEF JitterInv, TypeOK
<1>1. DOMAIN frames # {}
  BY <1>0, EmptyIsNoFrames DEF PopFrame
<1>2. /\ FirstKey(frames) \in DOMAIN frames
      /\ \A j \in DOMAIN frames \ {FirstKey(frames)} : frames[FirstKey(frames)] < frames[j]
  BY <1>0, <1>1, FirstKeyOldest
<1>3. last # None => last < frames[FirstKey(frames)]
  <2> SUFFICES ASSUME last # None PROVE last < frames[FirstKey(frames)]
    OBVIOUS
  <2>1. PICK E \in Int : Anchor(E, frames, expectedSequence, produced, last)
    BY DEF JitterInv, PlayoutNeverStuck, Anchored
  <2>2. last \in Nat /\ last < E /\ E <= frames[FirstKey(frames)] /\ frames[FirstKey(frames)] \in Nat
    BY <1>0, <1>2, <2>1 DEF JitterInv, TypeOK, Anchor, GoodFrames
  <2> QED BY <2>2
<1>4. k = FirstKey(frames) \/ (k = expectedSequence /\ k \in DOMAIN frames)
  BY DEF PopKey
<1>5. /\ k \in DOMAIN frames
      /\ \A j \in DOMAIN frames \ {k} : frames[k] < frames[j]
      /\ last # None => last < frames[k]
  <2> HIDE DEF k
  <2> QED BY <1>2, <1>3, <1>4, ExpectedIsFirst
<1>6. /\ frames' = Without(frames, k) /\ expectedSequence' = NextSeq(k) /\ last' = frames[k]
      /\ playoutStarted' = TRUE /\ batch' = 1 /\ UNCHANGED <<netVars, overflow, profile>>
  BY DEF PopFrame
<1>7. batch' \in 0..BATCH
  BY <1>6, BoundsNat
<1> HIDE DEF k
<1> QED BY <1>5, <1>6, <1>7, TakePreserves

LEMMA PopContiguousStep ==
    ASSUME JitterInv, PopContiguousForBatch
    PROVE  JitterInv' /\ Promise!Play
<1>1. /\ expectedSequence \in DOMAIN frames
      /\ frames' = Without(frames, expectedSequence)
      /\ expectedSequence' = NextSeq(expectedSequence)
      /\ last' = frames[expectedSequence]
      /\ playoutStarted /\ UNCHANGED <<playoutStarted, netVars, overflow, profile>>
  BY DEF PopContiguousForBatch
<1>2. batch' \in 0..BATCH
  BY BoundsNat DEF PopContiguousForBatch
<1>3. playoutStarted' = TRUE
  BY <1>1 DEF JitterInv, TypeOK
<1> QED BY <1>1, <1>2, <1>3, ExpectedIsFirst, TakePreserves

\* A run ends, or a part of the buffer goes and the expected frame with it.
LEMMA DropStep ==
    ASSUME JitterInv, NEW d \in 1..MAX_DROP, DropOldest(d)
    PROVE  JitterInv' /\ (Promise!EndRun \/ UNCHANGED <<produced, last>>)
<1> DEFINE left == Newest(frames, Size(frames) - d)
<1>0. /\ produced \in Nat /\ GoodFrames(frames, produced) /\ profile \in Profiles
      /\ Anchored(frames, expectedSequence, produced, last) /\ TypeOK
  BY DEF JitterInv, TypeOK
<1>1. Size(frames) \in Nat /\ Size(frames) - d \in Int
  BY <1>0, GoodFinite
<1>2. /\ DOMAIN left \subseteq DOMAIN frames /\ \A k \in DOMAIN left : left[k] = frames[k]
      /\ GoodFrames(left, produced) /\ Size(left) <= Size(frames)
  BY <1>0, <1>1, NewestKept
<1>3. /\ frames' = left /\ batch' = 0 /\ UNCHANGED <<netVars, overflow, profile>>
      /\ IF expectedSequence = None \/ left # NoFrames
         THEN /\ expectedSequence' =
                     IF expectedSequence # None /\ IsOlder(expectedSequence, FirstKey(left))
                     THEN FirstKey(left) ELSE expectedSequence
              /\ UNCHANGED <<playoutStarted, last>>
         ELSE expectedSequence' = None /\ playoutStarted' = FALSE /\ last' = None
  BY DEF DropOldest
<1> HIDE DEF left
<1>4. DOMAIN left \subseteq Seqs /\ left \in [DOMAIN left -> Nat]
  BY <1>0, <1>2, GoodTypes
<1>5. LatencyBounded'
  <2>1. Size(left) \in Nat
    BY <1>0, <1>2, GoodFinite
  <2> QED BY <1>0, <1>1, <1>2, <1>3, <2>1, ProfileFacts DEF JitterInv, LatencyBounded
<1>6. Anchored(left, expectedSequence, produced, last)
  BY <1>0, <1>2, AnchoredPart
<1>7. \A n \in net' : InWindow(n, produced')
  BY <1>3 DEF JitterInv, netVars
<1>8. receiving' # None => InWindow(receiving', produced')
  BY <1>3 DEF JitterInv, netVars
<1>9. CASE ~(expectedSequence = None \/ left # NoFrames)
  <2>1. expectedSequence' = None /\ playoutStarted' = FALSE /\ last' = None
    BY <1>3, <1>9
  <2>2. TypeOK'
    <3>1. batch' \in 0..BATCH
      BY <1>3, BoundsNat
    <3>2. /\ playoutStarted' \in BOOLEAN /\ expectedSequence' \in Seqs \cup {None}
          /\ last' \in Nat \cup {None}
      BY <2>1
    <3> QED BY <1>0, <1>3, <1>4, <3>1, <3>2 DEF TypeOK, netVars
  <2>3. PlayoutNeverStuck' /\ Anchored(frames', expectedSequence', produced', last')
    BY <2>1 DEF PlayoutNeverStuck, Anchored
  <2>4. Promise!EndRun
    BY <1>3, <2>1 DEF Promise!EndRun, netVars
  <2> QED BY <1>2, <1>3, <1>5, <1>7, <1>8, <2>1, <2>2, <2>3, <2>4 DEF JitterInv, netVars
<1>10. CASE expectedSequence = None \/ left # NoFrames
  <2>1. UNCHANGED <<playoutStarted, last>>
    BY <1>3, <1>10
  <2>2. /\ expectedSequence' \in Seqs \cup {None}
        /\ expectedSequence # None => expectedSequence' # None
        /\ Anchored(left, expectedSequence', produced, last)
    <3>1. CASE expectedSequence' = expectedSequence
      BY <1>0, <1>6, <3>1 DEF TypeOK
    <3>2. CASE expectedSequence' # expectedSequence
      <4>1. expectedSequence # None /\ left # NoFrames /\ expectedSequence' = FirstKey(left)
        BY <1>3, <1>10, <3>2
      <4>2. DOMAIN left # {}
        BY <1>0, <1>2, <4>1, EmptyIsNoFrames
      <4>3. FirstKey(left) \in DOMAIN left /\ left[FirstKey(left)] \in Nat
        BY <1>0, <1>2, <1>4, <4>2, FirstKeyOldest
      <4>4. last # None => last < left[FirstKey(left)]
        <5> SUFFICES ASSUME last # None PROVE last < left[FirstKey(left)]
          OBVIOUS
        <5>1. PICK E \in Int : Anchor(E, left, expectedSequence, produced, last)
          BY <1>6, <4>1 DEF Anchored
        <5>2. last < E /\ E <= left[FirstKey(left)] /\ last \in Nat
          BY <1>0, <4>3, <5>1 DEF Anchor, TypeOK
        <5> QED BY <4>3, <5>2
      <4>5. Anchored(left, FirstKey(left), produced, last) /\ FirstKey(left) \in Seqs
        BY <1>0, <1>2, <4>2, <4>4, OldestAnchors
      <4> QED BY <4>1, <4>5, NoneApart
    <3> QED BY <3>1, <3>2
  <2>3. TypeOK'
    BY <1>0, <1>3, <1>4, <2>1, <2>2, BoundsNat DEF TypeOK, netVars
  <2>4. PlayoutNeverStuck' /\ (last' # None => playoutStarted')
    BY <2>1, <2>2 DEF JitterInv, PlayoutNeverStuck
  <2>5. Anchored(frames', expectedSequence', produced', last') /\ GoodFrames(frames', produced')
    BY <1>2, <1>3, <2>1, <2>2 DEF netVars
  <2> QED BY <1>3, <1>5, <1>7, <1>8, <2>1, <2>3, <2>4, <2>5 DEF JitterInv, netVars
<1> QED BY <1>9, <1>10

LEMMA PlayingStep ==
    ASSUME JitterInv, Playing
    PROVE  JitterInv' /\ (Promise!Play \/ Promise!EndRun \/ UNCHANGED <<produced, last>>)
<1>1. CASE PopUnderrun
  <2>1. TypeOK'
    BY <1>1 DEF PopUnderrun, JitterInv, TypeOK, netVars
  <2>2. PlayoutNeverStuck' /\ LatencyBounded' /\ Anchored(frames, expectedSequence, produced, last)'
    BY <1>1 DEF PopUnderrun, JitterInv, PlayoutNeverStuck, LatencyBounded, Anchored
  <2>3. Promise!EndRun
    BY <1>1 DEF PopUnderrun, Promise!EndRun, netVars
  <2> QED BY <1>1, <2>1, <2>2, <2>3 DEF PopUnderrun, JitterInv, netVars
<1>2. CASE EndTick
  <2>1. TypeOK'
    BY <1>2, BoundsNat DEF EndTick, JitterInv, TypeOK, netVars
  <2>2. PlayoutNeverStuck' /\ LatencyBounded'
    BY <1>2 DEF EndTick, JitterInv, PlayoutNeverStuck, LatencyBounded
  <2> QED BY <1>2, <2>1, <2>2 DEF EndTick, JitterInv, netVars
<1> QED BY <1>1, <1>2, PopStep, PopContiguousStep, DropStep DEF Playing

LEMMA ControllingStep ==
    ASSUME JitterInv, Controlling
    PROVE  JitterInv' /\ (Promise!EndRun \/ UNCHANGED <<produced, last>>)
<1>1. ASSUME NEW p \in Profiles, NEW elapsed \in BOOLEAN, Reconfigure(p, elapsed)
      PROVE  JitterInv' /\ UNCHANGED <<produced, last>>
  <2>1. BufferKept(p)
    BY <1>1, TrimPreserves DEF Reconfigure, BufferKept, JitterInv
  <2> QED BY <1>1, <2>1, BufferKeptInv DEF Reconfigure, netVars
<1>2. CASE Clear
  <2>1. JitterInv'
    BY <1>2, ClearPreserves DEF Clear, netVars
  <2> QED BY <1>2, <2>1 DEF Clear, ClearBuffer, netVars, Promise!EndRun
<1> QED BY <1>1, <1>2 DEF Controlling

-----------------------------------------------------------------------------
(* The theorems.                                                           *)

LEMMA JitterInit == Init => JitterInv
<1> SUFFICES ASSUME Init PROVE JitterInv
  OBVIOUS
<1>1. produced \in Nat /\ produced = FIRST /\ frames = NoFrames /\ profile \in Profiles
  BY BoundsNat DEF Init
<1>2. GoodFrames(frames, produced) /\ DOMAIN frames = {} /\ Size(frames) = 0
  BY <1>1, EmptyGood
<1>3. DOMAIN frames \subseteq Seqs /\ frames \in [DOMAIN frames -> Nat]
  BY <1>1, <1>2, GoodTypes
<1>4. TypeOK
  <2>1. batch \in 0..BATCH /\ marked \subseteq Nat /\ net \subseteq Nat
    BY <1>1, BoundsNat DEF Init
  <2>2. playoutStarted \in BOOLEAN /\ overflow \in BOOLEAN
    BY DEF Init
  <2> QED BY <1>1, <1>3, <2>1, <2>2 DEF Init, TypeOK
<1>5. \A n \in net : InWindow(n, produced)
  BY <1>1, SpaceFacts DEF Init, InWindow
<1>6. PlayoutNeverStuck /\ Anchored(frames, expectedSequence, produced, last)
  BY DEF Init, PlayoutNeverStuck, Anchored
<1>7. LatencyBounded
  BY <1>1, <1>2, ProfileFacts DEF LatencyBounded
<1> QED BY <1>2, <1>4, <1>5, <1>6, <1>7 DEF Init, JitterInv

LEMMA JitterStep ==
    ASSUME JitterInv, [Next]_vars
    PROVE  JitterInv' /\ [Promise!Next]_(Promise!vars)
<1>1. CASE Next
  <2>1. JitterInv' /\ (Promise!Next \/ UNCHANGED <<produced, last>>)
    BY <1>1, NetworkStep, ReceivingStep, PlayingStep, ControllingStep DEF Next, Promise!Next
  <2> QED BY <2>1 DEF Promise!vars
<1>2. CASE UNCHANGED vars
  <2>1. JitterInv'
    BY <1>2 DEF JitterInv, TypeOK, PlayoutNeverStuck, LatencyBounded, vars, netVars
  <2> QED BY <1>2, <2>1 DEF vars, netVars, Promise!vars
<1> QED BY <1>1, <1>2

\* The invariant of PlaybackJitterBuffer and the threads around it.
THEOREM JitterInvariant == Spec => []JitterInv
BY JitterInit, JitterStep, PTL DEF Spec

\* Every variable has its type, whatever the network delivers.
THEOREM JitterTypes == Spec => []TypeOK
BY JitterInvariant, PTL DEF JitterInv

\* pop always has an expected sequence once playout has started, also after a
\* trim or a drop that moved it.
THEOREM PlayoutAlwaysGoesOn == Spec => []PlayoutNeverStuck
BY JitterInvariant, PTL DEF JitterInv

\* trimIfNeeded and trimLatencyTailIfNeeded bound the buffer by the profile in
\* force, for every size of the sequence space.
THEOREM LatencyAlwaysBounded == Spec => []LatencyBounded
BY JitterInvariant, PTL DEF JitterInv

\* The receiving side implements the listener's promise: within a run, frames
\* are played in the order they were produced and none of them twice, although
\* the sequence numbers wrap (push, pop, popContiguousForBatch, dropOldestMs).
THEOREM PlaybackOrdered == Spec => PlaysInOrder
<1>1. Init => Promise!Init
  BY BoundsNat DEF Init, Promise!Init
<1> QED BY <1>1, JitterInvariant, JitterStep, PTL DEF Spec, PlaysInOrder, Promise!Spec
=============================================================================
