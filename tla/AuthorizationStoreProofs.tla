----------------------- MODULE AuthorizationStoreProofs -----------------------
(***************************************************************************)
(* The authorization store's safety properties, proved for any documents,  *)
(* identifiers, acceptance times and transactions.  The inductive          *)
(* invariant has four parts: the log is a chain of entries, every record   *)
(* repeats the log entry of its document, every entry has its record, and  *)
(* the stored Merkle nodes are the complete subtrees of the log.           *)
(*                                                                         *)
(* The Merkle index is proved about by itself first, for any sequence of   *)
(* entries (MerkleLog, MerkleIndex): a table of complete subtrees holds    *)
(* the root of each, covers every range of the tree, and yields a proof of *)
(* every entry at every checkpoint.  All of it is by the least             *)
(* counterexample, among the levels, the sizes of the ranges or the steps  *)
(* of a path.                                                              *)
(***************************************************************************)
EXTENDS AuthorizationStore, MerkleIndex, TLAPS, WellFoundedInduction, SequenceTheorems

LogElements == {log[k] : k \in DOMAIN log}

\* The log is a sequence whose entries carry their own position and chain hash.
ChainInv ==
  /\ log \in Seq(LogElements)
  /\ \A k \in 1..Len(log) :
       /\ log[k].signed \in Signed /\ log[k].acceptedAt \in Times
       /\ log[k] = LogEntry(k, log[k].signed, log[k].acceptedAt, IF k = 1 THEN None ELSE log[k - 1].entry)
       /\ Accepted(Id[log[k].signed])
       /\ authorization[Id[log[k].signed]].sequence = k

\* A record is its log entry and the transaction it is bound to.
RecordInv(i) ==
  LET n == authorization[i].sequence
  IN /\ i \in Ids
     /\ n \in 1..Len(log)
     /\ authorization[i] = [Record(log[n]) EXCEPT !.tx = authorization[i].tx]
     /\ authorization[i].tx \in TxHashes \cup {None}
     /\ Id[log[n].signed] = i
     /\ intents[IntentId[i]] = IntentHash[i]
RecordsInv == \A i \in DOMAIN authorization : RecordInv(i)

IntentsTyped == intents \in [IntentIds -> {IntentHash[i] : i \in Ids} \cup {None}]

\* The table holds exactly the complete subtrees of the first n entries, each with the
\* hash of its halves, or of its entry.
Subtrees(hashes, n, table) ==
  /\ \A node \in DOMAIN table : \E s \in 1..n : \E k \in Levels(s) : node = Ending(s, k)
  /\ \A s \in 1..n : \A k \in Levels(s) :
       /\ Ending(s, k) \in DOMAIN table
       /\ table[Ending(s, k)] =
            IF k = 0 THEN merkleLeafHash(hashes[s])
            ELSE merkleParentHash(table[LeftHalf(s, k)], table[Ending(s, k - 1)])

\* The entry hashes, and the stored nodes as the table of their complete subtrees.
Hashes == [k \in 1..Len(log) |-> log[k].entry]
NodesInv == Subtrees(Hashes, Len(log), nodes)

StoreInv == ChainInv /\ RecordsInv /\ IntentsTyped /\ NodesInv /\ ReservationsAreUnique

-------------------------------------------------------------------------------
(* The levels of the tree *)

\* Among some numbers one is the least.
LEMMA LeastNumber ==
  ASSUME NEW S \in SUBSET Nat, S # {}
  PROVE  \E n \in S : \A m \in S : n <= m
<1>1. PICK n \in S : \A m \in S : ~(<<m, n>> \in OpToRel(<, Nat))
  BY NatLessThanWellFounded, WFMin
<1>2. \A m \in S : ~(m < n)
  BY <1>1 DEF OpToRel
<1> QED
  BY <1>2

\* What Width is, as far as level n.
WidthUpTo(g, n) ==
  g \in [Nat -> Nat] /\ \A k \in 0..n : g[k] = IF k = 0 THEN 1 ELSE 2 * g[k - 1]

\* The doublings can be listed as far as any level.
LEMMA WidthsExist == \A n \in Nat : \E g : WidthUpTo(g, n)
<1> DEFINE short == {n \in Nat : ~\E g : WidthUpTo(g, n)}
<1> SUFFICES ASSUME short # {} PROVE FALSE
  OBVIOUS
<1>1. PICK n \in short : \A m \in short : n <= m
  BY LeastNumber
<1>2. CASE n = 0
  <2>1. WidthUpTo([k \in Nat |-> 1], 0)
    BY DEF WidthUpTo
  <2> QED
    BY <1>2, <2>1
<1>3. CASE n # 0
  <2>1. n - 1 \in Nat /\ n - 1 \notin short
    BY <1>1, <1>3
  <2>2. PICK g : WidthUpTo(g, n - 1)
    BY <2>1
  <2> DEFINE h == [g EXCEPT ![n] = 2 * g[n - 1]]
  <2>3. h \in [Nat -> Nat] /\ h[n] = 2 * g[n - 1] /\ \A k \in Nat \ {n} : h[k] = g[k]
    BY <2>1, <2>2 DEF WidthUpTo
  <2> HIDE DEF h
  <2>4. WidthUpTo(h, n)
    BY <1>3, <2>1, <2>2, <2>3 DEF WidthUpTo
  <2> QED
    BY <2>4
<1> QED
  BY <1>2, <1>3

\* Two listings agree as far as both go.
LEMMA WidthsAgree ==
  ASSUME NEW g, NEW h, NEW m \in Nat, NEW n \in Nat, m <= n, WidthUpTo(g, m), WidthUpTo(h, n)
  PROVE  g[m] = h[m]
<1> DEFINE apart == {k \in 0..m : g[k] # h[k]}
<1> SUFFICES ASSUME apart # {} PROVE FALSE
  OBVIOUS
<1>0. apart \in SUBSET Nat
  OBVIOUS
<1>1. PICK k \in apart : \A l \in apart : k <= l
  <2> HIDE DEF apart
  <2> QED
    BY <1>0, LeastNumber
<1>2. k # 0
  BY <1>1 DEF WidthUpTo
<1>3. k - 1 \in 0..m /\ g[k - 1] = h[k - 1]
  BY <1>1, <1>2
<1> QED
  BY <1>1, <1>2, <1>3 DEF WidthUpTo

\* Each level covers twice the entries of the one below.
LEMMA WidthDoubles ==
  /\ Width \in [Nat -> Nat]
  /\ Width[0] = 1
  /\ \A k \in Nat \ {0} : Width[k] = 2 * Width[k - 1]
<1> DEFINE listing(n) == CHOOSE g : WidthUpTo(g, n)
           F(w) == [level \in Nat |-> IF level = 0 THEN 1 ELSE 2 * w[level - 1]]
           w == [n \in Nat |-> listing(n)[n]]
<1>1. \A n \in Nat : WidthUpTo(listing(n), n)
  BY WidthsExist
<1> HIDE DEF listing
<1>2. \A n \in Nat : listing(n)[n] \in Nat
  BY <1>1 DEF WidthUpTo
<1>3. ASSUME NEW n \in Nat \ {0} PROVE listing(n)[n] = 2 * listing(n - 1)[n - 1]
  <2>1. n - 1 \in Nat /\ n - 1 <= n /\ WidthUpTo(listing(n - 1), n - 1) /\ WidthUpTo(listing(n), n)
    BY <1>1
  <2>2. listing(n - 1)[n - 1] = listing(n)[n - 1]
    BY <2>1, WidthsAgree
  <2> QED
    BY <2>1, <2>2 DEF WidthUpTo
<1>4. listing(0)[0] = 1
  <2>1. WidthUpTo(listing(0), 0) /\ 0 \in 0..0
    BY <1>1
  <2> QED
    BY <2>1 DEF WidthUpTo
<1>5. w = F(w)
  BY <1>3, <1>4
<1>6. Width = CHOOSE v : v = F(v)
  BY DEF Width
<1> HIDE DEF w
<1>7. Width = F(Width)
  BY <1>5, <1>6
<1>8. \A k \in Nat : Width[k] \in Nat
  <2> DEFINE odd == {k \in Nat : Width[k] \notin Nat}
  <2> SUFFICES ASSUME odd # {} PROVE FALSE
    OBVIOUS
  <2>0. odd \in SUBSET Nat
    OBVIOUS
  <2>1. PICK k \in odd : \A l \in odd : k <= l
    <3> HIDE DEF odd
    <3> QED
      BY <2>0, LeastNumber
  <2>2. k = 0 \/ (k - 1 \in Nat /\ Width[k - 1] \in Nat)
    BY <2>1
  <2>3. Width[k] = IF k = 0 THEN 1 ELSE 2 * Width[k - 1]
    BY <1>7
  <2> QED
    BY <2>1, <2>2, <2>3
<1>9. DOMAIN Width = Nat /\ Width[0] = 1 /\ \A k \in Nat \ {0} : Width[k] = 2 * Width[k - 1]
  BY <1>7
<1> HIDE DEF F
<1> QED
  BY <1>7, <1>8, <1>9 DEF F

\* A level covers more entries than its number.
LEMMA WidthExceeds == \A k \in Nat : k < Width[k]
<1> DEFINE low == {k \in Nat : ~(k < Width[k])}
<1> SUFFICES ASSUME low # {} PROVE FALSE
  OBVIOUS
<1>0. low \in SUBSET Nat
  OBVIOUS
<1>1. PICK k \in low : \A l \in low : k <= l
  <2> HIDE DEF low
  <2> QED
    BY <1>0, LeastNumber
<1>2. k # 0
  BY <1>1, WidthDoubles
<1>3. k - 1 \in Nat /\ k - 1 < Width[k - 1] /\ Width[k] = 2 * Width[k - 1]
  BY <1>1, <1>2, WidthDoubles
<1>4. Width[k - 1] \in Nat
  BY <1>3, WidthDoubles
<1> QED
  BY <1>1, <1>2, <1>3, <1>4

\* A number that a width divides is a multiple of it.
LEMMA Multiples ==
  ASSUME NEW a \in Nat, NEW b \in Nat \ {0}
  PROVE  a % b = 0 <=> \E q \in Nat : a = b * q
<1>1. a = b * (a \div b) + (a % b) /\ a \div b \in Nat /\ a % b \in 0..b - 1
  OBVIOUS
<1>2. ASSUME NEW q \in Nat, a = b * q PROVE a % b = 0
  BY <1>2
<1>3. a % b = 0 => a = b * (a \div b)
  <2> DEFINE d == a \div b
             e == a % b
  <2>1. a = b * d + e /\ d \in Nat /\ e \in 0..b - 1
    BY <1>1
  <2> HIDE DEF d, e
  <2>2. e = 0 => a = b * d
    BY <2>1
  <2> QED
    BY <2>2 DEF d, e
<1> QED
  BY <1>1, <1>2, <1>3

\* A subtree above the leaves has two halves, complete subtrees themselves: the left
\* one ends at an earlier entry, the right one at the same.
LEMMA Halves ==
  ASSUME NEW s \in Nat \ {0}, NEW k \in Levels(s) \ {0}
  PROVE  LET t == s - Width[k - 1]
         IN /\ t \in 1..s - 1
            /\ k - 1 \in Levels(t) /\ k - 1 \in Levels(s)
            /\ LeftHalf(s, k) = Ending(t, k - 1)
<1> DEFINE w == Width[k - 1]
           t == s - w
<1>1. k \in Nat /\ k - 1 \in Nat /\ w \in Nat /\ k - 1 < w /\ Width[k] = 2 * w
  BY WidthDoubles, WidthExceeds DEF Levels
<1> HIDE DEF w
<1>2. PICK q \in Nat : s = (2 * w) * q
  <2>1. s % (2 * w) = 0 /\ 2 * w \in Nat \ {0}
    BY <1>1 DEF Levels
  <2> QED
    BY <2>1, Multiples
<1>3. q # 0
  BY <1>1, <1>2
<1>4. s = w * (2 * q) /\ t = w * (2 * q - 1) /\ 2 * q - 1 \in Nat /\ 2 * q \in Nat
  BY <1>1, <1>2, <1>3
<1>5. t >= w
  BY <1>1, <1>3, <1>4
<1>6. t \in 1..s - 1
  BY <1>1, <1>5
<1>7. s % w = 0 /\ t % w = 0
  BY <1>1, <1>4, <1>6, Multiples
<1>8. k - 1 \in Levels(t) /\ k - 1 \in Levels(s)
  BY <1>1, <1>5, <1>6, <1>7 DEF Levels, w
<1>9. LeftHalf(s, k) = Ending(t, k - 1)
  BY <1>1 DEF LeftHalf, Ending, w
<1> QED
  BY <1>6, <1>8, <1>9 DEF w

\* Two subtrees filed under one address end at the same entry.
LEMMA EndingInjective ==
  \A s, t, k, l \in Nat : Ending(s, k) = Ending(t, l) => s = t
BY WidthDoubles DEF Ending

\* Higher levels are at least twice as wide.
LEMMA WidthGrows == \A i, j \in Nat : i < j => Width[i] < Width[j] /\ 2 * Width[i] <= Width[j]
<1> SUFFICES ASSUME NEW i \in Nat PROVE \A j \in Nat : i < j => 2 * Width[i] <= Width[j]
  BY WidthDoubles, WidthExceeds
<1> DEFINE low == {j \in Nat : i < j /\ ~(2 * Width[i] <= Width[j])}
<1> SUFFICES ASSUME low # {} PROVE FALSE
  OBVIOUS
<1>0. low \in SUBSET Nat
  OBVIOUS
<1>1. PICK j \in low : \A l \in low : j <= l
  <2> HIDE DEF low
  <2> QED
    BY <1>0, LeastNumber
<1>2. /\ j \in Nat /\ i < j /\ j - 1 \in Nat /\ Width[j] = 2 * Width[j - 1]
      /\ Width[i] \in Nat /\ Width[j - 1] \in Nat
  BY <1>1, WidthDoubles
<1>3. i < j - 1 => 2 * Width[i] <= Width[j - 1]
  BY <1>1, <1>2
<1>4. i = j - 1 \/ i < j - 1
  BY <1>2
<1> QED
  BY <1>1, <1>2, <1>3, <1>4

\* What a level divides, the lower ones divide.
LEMMA WidthDivides ==
  ASSUME NEW a \in Nat, NEW i \in Nat, NEW j \in Nat, i <= j, a % Width[j] = 0
  PROVE  a % Width[i] = 0
<1> DEFINE odd == {l \in Nat : i <= l /\ a % Width[l] = 0 /\ a % Width[i] # 0}
<1> SUFFICES ASSUME odd # {} PROVE FALSE
  OBVIOUS
<1>0. odd \in SUBSET Nat
  OBVIOUS
<1>1. PICK l \in odd : \A m \in odd : l <= m
  <2> HIDE DEF odd
  <2> QED
    BY <1>0, LeastNumber
<1>2. l \in Nat /\ i <= l /\ i # l /\ a % Width[l] = 0 /\ a % Width[i] # 0
  BY <1>1
<1>3. l - 1 \in Nat /\ i <= l - 1
  BY <1>2
<1> DEFINE w == Width[l - 1]
<1>4. w \in Nat \ {0} /\ Width[l] = 2 * w
  BY <1>2, <1>3, WidthDoubles, WidthExceeds
<1>5. a % w = 0
  <2> HIDE DEF w
  <2> DEFINE d == 2 * w
  <2>1. d \in Nat \ {0} /\ a % d = 0
    BY <1>2, <1>4
  <2> HIDE DEF d
  <2>a. PICK q \in Nat : a = d * q
    BY <2>1, Multiples
  <2>2. a = (2 * w) * q
    BY <2>a DEF d
  <2>3. a = w * (2 * q) /\ 2 * q \in Nat
    BY <1>4, <2>2
  <2> QED
    BY <1>4, <2>3, Multiples
<1> QED
  BY <1>1, <1>2, <1>3, <1>5

\* A width is a power of its level, and the powers are widths.
LEMMA WidthIsPower ==
  /\ \A k \in Nat : Width[k] \in Nat \ {0} /\ IsPower(Width[k]) /\ Level(Width[k]) = k
  /\ \A n \in Nat : IsPower(n) => \E k \in Nat : n = Width[k]
  /\ IsPower(1)
<1>1. ASSUME NEW k \in Nat PROVE Width[k] \in Nat \ {0} /\ IsPower(Width[k]) /\ Level(Width[k]) = k
  <2>1. Width[k] \in Nat /\ k < Width[k]
    BY WidthDoubles, WidthExceeds
  <2>2. k \in 0..Width[k] /\ Width[k] \in 1..Width[k]
    BY <2>1
  <2>3. ASSUME NEW l \in 0..Width[k], Width[l] = Width[k] PROVE l = k
    <3>1. l \in Nat /\ (l < k \/ l = k \/ k < l)
      BY <2>1
    <3> QED
      BY <2>1, <2>3, <3>1, WidthGrows
  <2> QED
    BY <2>1, <2>2, <2>3 DEF IsPower, Powers, Level
<1>2. ASSUME NEW n \in Nat, IsPower(n) PROVE \E k \in Nat : n = Width[k]
  BY <1>2 DEF IsPower, Powers
<1>3. IsPower(1)
  BY <1>1, WidthDoubles
<1> QED
  BY <1>1, <1>2, <1>3

\* A size above one lies between two widths, and the smaller one is the left part.
LEMMA SplitSize ==
  ASSUME NEW n \in Nat, n > 1
  PROVE  \E k \in Nat : Width[k] < n /\ n <= Width[k + 1] /\ LeftSize(n) = Width[k]
<1> DEFINE enough == {k \in Nat : n <= Width[k]}
<1>0. enough \in SUBSET Nat /\ n \in enough
  BY WidthExceeds, WidthDoubles
<1>1. PICK j \in enough : \A l \in enough : j <= l
  <2> HIDE DEF enough
  <2> QED
    BY <1>0, LeastNumber
<1>2. j \in Nat /\ n <= Width[j] /\ j # 0
  BY <1>1, WidthDoubles
<1> DEFINE k == j - 1
<1>3. k \in Nat /\ k + 1 = j /\ Width[k] \in Nat /\ Width[k] < n /\ k < Width[k]
  <2>1. k \in Nat /\ k + 1 = j /\ Width[k] \in Nat /\ k < Width[k]
    BY <1>2, WidthDoubles, WidthExceeds
  <2>2. k \notin enough
    BY <1>1, <1>2
  <2> QED
    BY <2>1, <2>2
<1> HIDE DEF k
<1>4. Width[k] \in Powers(n - 1)
  BY <1>3 DEF Powers
<1>5. ASSUME NEW p \in Powers(n - 1) PROVE p \in Nat /\ p <= Width[k]
  <2>1. PICK l \in 0..(n - 1) : p = Width[l] /\ p \in 1..(n - 1)
    BY <1>5 DEF Powers
  <2>2. l \in Nat /\ Width[l] < n /\ Width[l] \in Nat /\ Width[k + 1] \in Nat
    BY <1>3, <2>1, WidthDoubles
  <2>3. ~(k + 1 <= l)
    <3>1. k + 1 \in Nat /\ n <= Width[k + 1]
      BY <1>2, <1>3
    <3>2. k + 1 < l => Width[k + 1] < Width[l]
      BY <2>2, <3>1, WidthGrows
    <3> QED
      BY <2>2, <3>1, <3>2
  <2>4. l = k \/ l < k
    BY <1>3, <2>2, <2>3
  <2>5. l < k => Width[l] < Width[k]
    BY <1>3, <2>2, WidthGrows
  <2> QED
    BY <1>3, <2>1, <2>2, <2>4, <2>5
<1>6. LeftSize(n) = Width[k]
  <2>1. \A p \in Powers(n - 1) : Width[k] >= p
    BY <1>3, <1>5
  <2>2. ASSUME NEW m \in Powers(n - 1), \A p \in Powers(n - 1) : m >= p PROVE m = Width[k]
    BY <1>3, <1>4, <1>5, <2>2
  <2> QED
    BY <1>4, <2>1, <2>2 DEF LeftSize, Max
<1> QED
  BY <1>2, <1>3, <1>6

\* A range of a tree: it starts where a subtree that is large enough for it may start.
Fits(range) ==
  /\ range \in Ranges /\ range[1] # 0
  /\ \E k \in Nat : range[2] <= Width[k] /\ (range[1] - 1) % Width[k] = 0

\* Both parts of a larger range are smaller ranges.
LEMMA Parts ==
  ASSUME NEW range \in Ranges, range[2] # 1
  PROVE  /\ LeftSize(range[2]) \in 1..(range[2] - 1)
         /\ Left(range) \in Ranges /\ Right(range) \in Ranges
         /\ Left(range)[1] = range[1] /\ Left(range)[2] = LeftSize(range[2])
         /\ Right(range)[1] = range[1] + LeftSize(range[2])
         /\ Right(range)[2] = range[2] - LeftSize(range[2])
<1>1. range[1] \in Nat /\ range[2] \in Nat /\ range[2] > 1
  BY DEF Ranges
<1>2. LeftSize(range[2]) \in 1..(range[2] - 1)
  <2>1. PICK k \in Nat : Width[k] < range[2] /\ LeftSize(range[2]) = Width[k]
    BY <1>1, SplitSize
  <2> QED
    BY <1>1, <2>1, WidthIsPower
<1> QED
  BY <1>1, <1>2 DEF Left, Right, Ranges

\* The parts of a range of a tree are ranges of it.
LEMMA PartsFit ==
  ASSUME NEW range, Fits(range), range[2] # 1
  PROVE  Fits(Left(range)) /\ Fits(Right(range))
<1> DEFINE s == range[1]
           n == range[2]
<1>1. range \in Ranges /\ s \in Nat \ {0} /\ n \in Nat /\ n > 1
  BY DEF Fits, Ranges
<1>2. PICK k \in Nat : Width[k] < n /\ n <= Width[k + 1] /\ LeftSize(n) = Width[k]
  BY <1>1, SplitSize
<1>3. PICK j \in Nat : n <= Width[j] /\ (s - 1) % Width[j] = 0
  BY DEF Fits
<1> DEFINE w == Width[k]
<1>4. w \in Nat \ {0} /\ Width[k + 1] = 2 * w /\ Width[j] \in Nat
  BY WidthDoubles, WidthIsPower
<1>5. k < j
  <2>1. j < k => Width[j] < Width[k]
    BY WidthGrows
  <2> QED
    BY <1>1, <1>2, <1>3, <1>4, <2>1
<1>6. (s - 1) % w = 0 /\ s - 1 \in Nat
  BY <1>1, <1>3, <1>5, WidthDivides
<1>7. (s + w - 1) % w = 0
  <2> HIDE DEF w, s
  <2>1. PICK q \in Nat : s - 1 = w * q
    BY <1>4, <1>6, Multiples
  <2>2. s + w - 1 = w * (q + 1) /\ q + 1 \in Nat /\ s + w - 1 \in Nat
    BY <1>1, <1>4, <1>6, <2>1
  <2> QED
    BY <1>4, <2>2, Multiples
<1>8. n - w <= w
  BY <1>1, <1>2, <1>4
<1>9. /\ Left(range) \in Ranges /\ Right(range) \in Ranges
      /\ Left(range)[1] = s /\ Left(range)[2] = w
      /\ Right(range)[1] = s + w /\ Right(range)[2] = n - w
  BY <1>1, <1>2, Parts
<1>10. Fits(Left(range))
  BY <1>1, <1>4, <1>6, <1>9 DEF Fits
<1>11. Fits(Right(range))
  BY <1>1, <1>4, <1>7, <1>8, <1>9 DEF Fits
<1> QED
  BY <1>10, <1>11

\* The first entries of a log are a range of its tree.
LEMMA WholeFits == ASSUME NEW n \in Nat \ {0} PROVE Fits(<<1, n>>)
<1>1. n <= Width[n] /\ (1 - 1) % Width[n] = 0
  BY WidthDoubles, WidthExceeds
<1> QED
  BY <1>1 DEF Fits, Ranges

\* A range of a tree whose size is a power is one complete subtree.
LEMMA PowerRange ==
  ASSUME NEW range, Fits(range), IsPower(range[2])
  PROVE  LET k == Level(range[2])
             s == range[1] + range[2] - 1
         IN /\ k \in Nat /\ range[2] = Width[k] /\ s \in Nat \ {0} /\ k \in Levels(s)
            /\ <<range[1], k>> = Ending(s, k)
<1>1. range \in Ranges /\ range[1] \in Nat \ {0} /\ range[2] \in Nat \ {0}
  BY DEF Fits, Ranges
<1>2. PICK k \in Nat : range[2] = Width[k]
  BY <1>1, WidthIsPower
<1>3. Level(range[2]) = k
  BY <1>2, WidthIsPower
<1> DEFINE w == Width[k]
           s == range[1] + w - 1
<1>4. w \in Nat \ {0} /\ k < w /\ s \in Nat \ {0} /\ k \in 0..s
  BY <1>1, <1>2, WidthExceeds
<1>5. PICK j \in Nat : w <= Width[j] /\ (range[1] - 1) % Width[j] = 0
  BY <1>2 DEF Fits
<1>6. k <= j
  <2>1. j < k => Width[j] < Width[k]
    BY WidthGrows
  <2> QED
    BY <1>4, <1>5, <2>1, WidthDoubles
<1>7. (range[1] - 1) % w = 0 /\ range[1] - 1 \in Nat
  BY <1>1, <1>5, <1>6, WidthDivides
<1>8. s % w = 0
  <2> DEFINE a == range[1] - 1
  <2>1. a \in Nat /\ a % w = 0 /\ s = a + w
    BY <1>1, <1>4, <1>7
  <2> HIDE DEF a, w, s
  <2>2. PICK q \in Nat : a = w * q
    BY <1>4, <2>1, Multiples
  <2>3. s = w * (q + 1) /\ q + 1 \in Nat
    BY <1>4, <2>1, <2>2
  <2> QED
    BY <1>4, <2>3, Multiples
<1>9. k \in Levels(s)
  BY <1>4, <1>8 DEF Levels
<1>10. <<range[1], k>> = Ending(s, k)
  BY <1>1, <1>4 DEF Ending
<1> QED
  BY <1>2, <1>3, <1>4, <1>9, <1>10

-------------------------------------------------------------------------------
(* Functions of ranges: recursion on the two parts *)

\* What the functions of the Merkle log make of the values of a range's parts: the nodes
\* that cover it, its hash, and, on the way down to one entry, the nodes aside, the
\* sides and the proof.  `datum` is what they know of the range itself.
Join(kind, datum, left, right) ==
  LET below == IF datum.side = "right" THEN left ELSE right
  IN CASE kind = "cover" -> left \cup right
       [] kind = "hash" -> merkleParentHash(left, right)
       [] kind = "nodes" -> datum.aside \cup below
       [] kind = "sides" -> Append(below, datum.side)
       [] kind = "proof" -> Extended(below, datum.side, datum.hash)

\* f is such a function: at the sizes of `base` it has the values of `start`.
Joins(f, kind, base, start, data) ==
  f = [range \in Ranges |-> IF range[2] \in base THEN start[range]
                            ELSE Join(kind, data[range], f[Left(range)], f[Right(range)])]

\* f is one as far as the ranges of size n.
JoinsUpTo(f, n, kind, base, start, data) ==
  /\ DOMAIN f = {range \in Ranges : range[2] <= n}
  /\ \A range \in DOMAIN f :
       f[range] = IF range[2] \in base THEN start[range]
                  ELSE Join(kind, data[range], f[Left(range)], f[Right(range)])

\* Two functions agree as far as both go.
LEMMA JoinsAgree ==
  ASSUME NEW kind, NEW base, 1 \in base, NEW start, NEW data, NEW f, NEW g, NEW m \in Nat, NEW n \in Nat,
         m <= n, JoinsUpTo(f, m, kind, base, start, data), JoinsUpTo(g, n, kind, base, start, data)
  PROVE  \A range \in DOMAIN f : range \in DOMAIN g /\ f[range] = g[range]
<1> DEFINE apart == {l \in Nat : \E range \in DOMAIN f : range[2] = l /\ f[range] # g[range]}
<1>0. /\ \A range \in DOMAIN f : range \in DOMAIN g /\ range[2] \in Nat
      /\ DOMAIN f = {range \in Ranges : range[2] <= m} /\ DOMAIN g = {range \in Ranges : range[2] <= n}
  BY DEF JoinsUpTo, Ranges
<1> SUFFICES ASSUME apart # {} PROVE FALSE
  BY <1>0
<1>1. apart \in SUBSET Nat
  OBVIOUS
<1>2. PICK l \in apart : \A k \in apart : l <= k
  <2> HIDE DEF apart
  <2> QED
    BY <1>1, LeastNumber
<1>3. PICK range \in DOMAIN f : range[2] = l /\ f[range] # g[range]
  BY <1>2
<1>4. range \in DOMAIN g /\ range \in Ranges /\ l <= m /\ l \in Nat
  BY <1>0, <1>3
<1>5. l \notin base
  BY <1>3, <1>4 DEF JoinsUpTo
<1>6. \A part \in {Left(range), Right(range)} : part \in Ranges /\ part[2] < l
  BY <1>3, <1>4, <1>5, Parts
<1>7. \A part \in {Left(range), Right(range)} : part \in DOMAIN f /\ part[2] \in Nat
  BY <1>0, <1>4, <1>6 DEF Ranges
<1>8. \A part \in {Left(range), Right(range)} : f[part] = g[part]
  BY <1>2, <1>4, <1>6, <1>7
<1> QED
  BY <1>3, <1>4, <1>5, <1>8 DEF JoinsUpTo

\* They go as far as any size.
LEMMA JoinsExistUpTo ==
  ASSUME NEW kind, NEW base, 1 \in base, NEW start, NEW data
  PROVE  \A n \in Nat : \E f : JoinsUpTo(f, n, kind, base, start, data)
<1> DEFINE short == {n \in Nat : ~\E f : JoinsUpTo(f, n, kind, base, start, data)}
<1> SUFFICES ASSUME short # {} PROVE FALSE
  OBVIOUS
<1>0. short \in SUBSET Nat
  OBVIOUS
<1>1. PICK n \in short : \A m \in short : n <= m
  <2> HIDE DEF short
  <2> QED
    BY <1>0, LeastNumber
<1>2. CASE n = 0
  <2>1. \A range \in Ranges : range[2] \in Nat /\ ~(range[2] <= 0)
    BY DEF Ranges
  <2>2. JoinsUpTo([range \in {} |-> 0], 0, kind, base, start, data)
    BY <2>1 DEF JoinsUpTo
  <2> QED
    BY <1>1, <1>2, <2>2
<1>3. CASE n # 0
  <2>1. n \in Nat /\ n - 1 \in Nat /\ n - 1 \notin short
    BY <1>1, <1>3
  <2>2. PICK f : JoinsUpTo(f, n - 1, kind, base, start, data)
    BY <2>1
  <2> DEFINE g == [range \in {range \in Ranges : range[2] <= n} |->
                     IF range[2] <= n - 1 THEN f[range]
                     ELSE IF range[2] \in base THEN start[range]
                     ELSE Join(kind, data[range], f[Left(range)], f[Right(range)])]
  <2>3. /\ DOMAIN g = {range \in Ranges : range[2] <= n}
        /\ \A range \in DOMAIN g :
             g[range] = IF range[2] <= n - 1 THEN f[range]
                        ELSE IF range[2] \in base THEN start[range]
                        ELSE Join(kind, data[range], f[Left(range)], f[Right(range)])
    OBVIOUS
  <2> HIDE DEF g
  <2>4. DOMAIN f = {range \in Ranges : range[2] <= n - 1}
    BY <2>2 DEF JoinsUpTo
  <2>5. \A range \in DOMAIN f : range \in DOMAIN g /\ g[range] = f[range]
    BY <2>1, <2>3, <2>4 DEF Ranges
  <2>6. ASSUME NEW range \in DOMAIN g
        PROVE  g[range] = IF range[2] \in base THEN start[range]
                          ELSE Join(kind, data[range], g[Left(range)], g[Right(range)])
    <3>1. range \in Ranges /\ range[2] \in Nat /\ range[2] <= n
      BY <2>3 DEF Ranges
    <3>2. range[2] \notin base => \A part \in {Left(range), Right(range)} : g[part] = f[part]
      <4> SUFFICES ASSUME range[2] \notin base, NEW part \in {Left(range), Right(range)} PROVE part \in DOMAIN f
        BY <2>5
      <4>1. part \in Ranges /\ part[2] < range[2]
        BY <3>1, Parts
      <4>2. part[2] \in Nat
        BY <4>1 DEF Ranges
      <4> QED
        BY <2>1, <2>4, <3>1, <4>1, <4>2
    <3>3. CASE range[2] <= n - 1
      <4>1. range \in DOMAIN f /\ g[range] = f[range]
        BY <2>3, <2>4, <3>1, <3>3
      <4>2. f[range] = IF range[2] \in base THEN start[range]
                       ELSE Join(kind, data[range], f[Left(range)], f[Right(range)])
        BY <2>2, <4>1 DEF JoinsUpTo
      <4> QED
        BY <3>2, <4>1, <4>2
    <3>4. CASE ~(range[2] <= n - 1)
      BY <2>3, <3>2, <3>4
    <3> QED
      BY <3>3, <3>4
  <2>7. JoinsUpTo(g, n, kind, base, start, data)
    BY <2>3, <2>6 DEF JoinsUpTo
  <2> QED
    BY <1>1, <2>7
<1> QED
  BY <1>2, <1>3

\* So there is one for all ranges.
LEMMA JoinsExist ==
  ASSUME NEW kind, NEW base, 1 \in base, NEW start, NEW data
  PROVE  \E f : Joins(f, kind, base, start, data)
<1> DEFINE upTo(n) == CHOOSE f : JoinsUpTo(f, n, kind, base, start, data)
           f == [range \in Ranges |-> upTo(range[2])[range]]
<1>1. \A n \in Nat : JoinsUpTo(upTo(n), n, kind, base, start, data)
  BY JoinsExistUpTo
<1> HIDE DEF upTo
<1>2. ASSUME NEW range \in Ranges
      PROVE  f[range] = IF range[2] \in base THEN start[range]
                        ELSE Join(kind, data[range], f[Left(range)], f[Right(range)])
  <2> DEFINE g == upTo(range[2])
  <2>1. range[2] \in Nat /\ JoinsUpTo(g, range[2], kind, base, start, data)
    BY <1>1 DEF Ranges
  <2>2. range \in DOMAIN g /\ f[range] = g[range]
    BY <2>1 DEF JoinsUpTo
  <2>3. g[range] = IF range[2] \in base THEN start[range]
                   ELSE Join(kind, data[range], g[Left(range)], g[Right(range)])
    BY <2>1, <2>2 DEF JoinsUpTo
  <2>4. ASSUME range[2] \notin base, NEW part \in {Left(range), Right(range)} PROVE f[part] = g[part]
    <3>1. part \in Ranges /\ part[2] < range[2]
      BY <2>1, <2>4, Parts
    <3>2. part[2] \in Nat /\ JoinsUpTo(upTo(part[2]), part[2], kind, base, start, data) /\ part[2] <= range[2]
      BY <1>1, <2>1, <3>1 DEF Ranges
    <3>3. part \in DOMAIN upTo(part[2])
      BY <3>1, <3>2 DEF JoinsUpTo
    <3>4. upTo(part[2])[part] = g[part]
      <4> HIDE DEF g
      <4> QED
        BY <2>1, <3>2, <3>3, JoinsAgree
    <3> QED
      BY <3>1, <3>4
  <2> QED
    BY <2>2, <2>3, <2>4
<1> HIDE DEF f
<1>3. f = [range \in Ranges |-> f[range]]
  BY DEF f
<1>4. Joins(f, kind, base, start, data)
  BY <1>2, <1>3 DEF Joins
<1> QED
  BY <1>4

\* The nodes that cover a range.
LEMMA CoverEquation ==
  \A range \in Ranges :
    completeNodeRanges[range] =
      IF IsPower(range[2]) THEN {<<range[1], Level(range[2])>>}
      ELSE completeNodeRanges[Left(range)] \cup completeNodeRanges[Right(range)]
<1> DEFINE F(v) == [range \in Ranges |-> IF IsPower(range[2]) THEN {<<range[1], Level(range[2])>>}
                                         ELSE v[Left(range)] \cup v[Right(range)]]
           base == {n \in Nat : IsPower(n)}
           start == [range \in Ranges |-> {<<range[1], Level(range[2])>>}]
<1>1. 1 \in base
  BY WidthIsPower
<1>2. PICK f : Joins(f, "cover", base, start, start)
  <2> HIDE DEF base, start
  <2> QED
    BY <1>1, JoinsExist
<1>3. \A range \in Ranges : range[2] \in Nat
  BY DEF Ranges
<1>4. \A range \in Ranges : f[range] = F(f)[range]
  BY <1>2, <1>3 DEF Joins, Join
<1>5. f = F(f)
  BY <1>2, <1>4 DEF Joins
<1>6. completeNodeRanges = CHOOSE v : v = F(v)
  BY DEF completeNodeRanges
<1> HIDE DEF F
<1>7. completeNodeRanges = F(completeNodeRanges)
  BY <1>5, <1>6
<1> QED
  BY <1>7 DEF F

\* The reference root of a range.
LEMMA RootEquation ==
  ASSUME NEW hashes, NEW range \in Ranges
  PROVE  RangeRoot(hashes)[range] =
           IF range[2] = 1 THEN merkleLeafHash(hashes[range[1]])
           ELSE merkleParentHash(RangeRoot(hashes)[Left(range)], RangeRoot(hashes)[Right(range)])
<1> DEFINE F(v) == [r \in Ranges |-> IF r[2] = 1 THEN merkleLeafHash(hashes[r[1]])
                                     ELSE merkleParentHash(v[Left(r)], v[Right(r)])]
           start == [r \in Ranges |-> merkleLeafHash(hashes[r[1]])]
<1>1. PICK f : Joins(f, "hash", {1}, start, start)
  <2> HIDE DEF start
  <2> QED
    BY JoinsExist
<1>2. \A r \in Ranges : f[r] = F(f)[r]
  BY <1>1 DEF Joins, Join
<1>3. f = F(f)
  BY <1>1, <1>2 DEF Joins
<1>4. RangeRoot(hashes) = CHOOSE v : v = F(v)
  BY DEF RangeRoot
<1> HIDE DEF F
<1>5. RangeRoot(hashes) = F(RangeRoot(hashes))
  BY <1>3, <1>4
<1> QED
  BY <1>5 DEF F

\* The hash of a range from the stored nodes that cover it.
LEMMA HashEquation ==
  ASSUME NEW read, NEW range \in Ranges
  PROVE  RangeHash(read)[range] =
           IF IsPower(range[2]) THEN read[<<range[1], Level(range[2])>>]
           ELSE merkleParentHash(RangeHash(read)[Left(range)], RangeHash(read)[Right(range)])
<1> DEFINE F(v) == [r \in Ranges |-> IF IsPower(r[2]) THEN read[<<r[1], Level(r[2])>>]
                                     ELSE merkleParentHash(v[Left(r)], v[Right(r)])]
           base == {n \in Nat : IsPower(n)}
           start == [r \in Ranges |-> read[<<r[1], Level(r[2])>>]]
<1>1. 1 \in base
  BY WidthIsPower
<1>2. PICK f : Joins(f, "hash", base, start, start)
  <2> HIDE DEF base, start
  <2> QED
    BY <1>1, JoinsExist
<1>3. \A r \in Ranges : r[2] \in Nat
  BY DEF Ranges
<1>4. \A r \in Ranges : f[r] = F(f)[r]
  BY <1>2, <1>3 DEF Joins, Join
<1>5. f = F(f)
  BY <1>2, <1>4 DEF Joins
<1>6. RangeHash(read) = CHOOSE v : v = F(v)
  BY DEF RangeHash
<1> HIDE DEF F
<1>7. RangeHash(read) = F(RangeHash(read))
  BY <1>5, <1>6
<1> QED
  BY <1>7 DEF F

\* The nodes beside the way down to one entry.
LEMMA NodesEquation ==
  ASSUME NEW sequence, NEW range \in Ranges
  PROVE  VisitNodes(sequence)[range] =
           IF range[2] = 1 THEN {}
           ELSE completeNodeRanges[Sibling(sequence, range)] \cup VisitNodes(sequence)[Child(sequence, range)]
<1> DEFINE F(v) == [r \in Ranges |-> IF r[2] = 1 THEN {}
                                     ELSE completeNodeRanges[Sibling(sequence, r)] \cup v[Child(sequence, r)]]
           start == [r \in Ranges |-> {}]
           data == [r \in Ranges |-> [side |-> SideAt(sequence, r),
                                      aside |-> completeNodeRanges[Sibling(sequence, r)]]]
<1>1. PICK f : Joins(f, "nodes", {1}, start, data)
  <2> HIDE DEF start, data
  <2> QED
    BY JoinsExist
<1>2. \A r \in Ranges : f[r] = F(f)[r]
  <2> SUFFICES ASSUME NEW r \in Ranges PROVE f[r] = F(f)[r]
    OBVIOUS
  <2>1. f[r] = IF r[2] \in {1} THEN start[r] ELSE Join("nodes", data[r], f[Left(r)], f[Right(r)])
    <3> HIDE DEF start, data
    <3> QED
      BY <1>1 DEF Joins
  <2>2. /\ start[r] = {} /\ data[r].side = SideAt(sequence, r)
        /\ data[r].aside = completeNodeRanges[Sibling(sequence, r)]
    OBVIOUS
  <2>3. F(f)[r] = IF r[2] = 1 THEN {}
                  ELSE completeNodeRanges[Sibling(sequence, r)] \cup f[Child(sequence, r)]
    OBVIOUS
  <2> HIDE DEF F, start, data
  <2>4. Join("nodes", data[r], f[Left(r)], f[Right(r)])
          = completeNodeRanges[Sibling(sequence, r)] \cup f[Child(sequence, r)]
    BY <2>2 DEF Join, Child, SideAt
  <2> DEFINE joined == Join("nodes", data[r], f[Left(r)], f[Right(r)])
             aside == completeNodeRanges[Sibling(sequence, r)]
             below == f[Child(sequence, r)]
  <2>5. f[r] = IF r[2] = 1 THEN {} ELSE joined
    BY <2>1, <2>2
  <2> HIDE DEF joined
  <2>6. f[r] = IF r[2] = 1 THEN {} ELSE aside \cup below
    BY <2>4, <2>5 DEF joined
  <2> HIDE DEF aside, below
  <2> QED
    BY <2>3, <2>6 DEF aside, below
<1>3. f = F(f)
  BY <1>1, <1>2 DEF Joins
<1>4. VisitNodes(sequence) = CHOOSE v : v = F(v)
  BY DEF VisitNodes
<1> HIDE DEF F
<1>5. VisitNodes(sequence) = F(VisitNodes(sequence))
  BY <1>3, <1>4
<1> QED
  BY <1>5 DEF F

\* The sides of the siblings on the way.
LEMMA SidesEquation ==
  ASSUME NEW sequence, NEW range \in Ranges
  PROVE  VisitSides(sequence)[range] =
           IF range[2] = 1 THEN <<>>
           ELSE Append(VisitSides(sequence)[Child(sequence, range)], SideAt(sequence, range))
<1> DEFINE F(v) == [r \in Ranges |-> IF r[2] = 1 THEN <<>>
                                     ELSE Append(v[Child(sequence, r)], SideAt(sequence, r))]
           start == [r \in Ranges |-> <<>>]
           data == [r \in Ranges |-> [side |-> SideAt(sequence, r)]]
<1>1. PICK f : Joins(f, "sides", {1}, start, data)
  <2> HIDE DEF start, data
  <2> QED
    BY JoinsExist
<1>2. \A r \in Ranges : f[r] = F(f)[r]
  BY <1>1 DEF Joins, Join, Child, SideAt
<1>3. f = F(f)
  BY <1>1, <1>2 DEF Joins
<1>4. VisitSides(sequence) = CHOOSE v : v = F(v)
  BY DEF VisitSides
<1> HIDE DEF F
<1>5. VisitSides(sequence) = F(VisitSides(sequence))
  BY <1>3, <1>4
<1> QED
  BY <1>5 DEF F

\* The proof of one entry, from that of its leaf alone.
LeafProof(entry) == [root |-> merkleLeafHash(entry), path |-> <<>>]
LEMMA ProofEquation ==
  ASSUME NEW entry, NEW sequence, NEW read, NEW range \in Ranges
  PROVE  VisitProof(entry, sequence, read)[range] =
           IF range[2] = 1 THEN LeafProof(entry)
           ELSE Extended(VisitProof(entry, sequence, read)[Child(sequence, range)],
                         SideAt(sequence, range), RangeHash(read)[Sibling(sequence, range)])
<1> DEFINE F(v) == [r \in Ranges |->
                      IF r[2] = 1 THEN LeafProof(entry)
                      ELSE Extended(v[Child(sequence, r)], SideAt(sequence, r),
                                    RangeHash(read)[Sibling(sequence, r)])]
           start == [r \in Ranges |-> LeafProof(entry)]
           data == [r \in Ranges |-> [side |-> SideAt(sequence, r),
                                      hash |-> RangeHash(read)[Sibling(sequence, r)]]]
<1>1. PICK f : Joins(f, "proof", {1}, start, data)
  <2> HIDE DEF start, data
  <2> QED
    BY JoinsExist
<1>2. \A r \in Ranges : f[r] = F(f)[r]
  BY <1>1 DEF Joins, Join, Child, SideAt
<1>3. f = F(f)
  BY <1>1, <1>2 DEF Joins
<1>4. VisitProof(entry, sequence, read) = CHOOSE v : v = F(v)
  BY DEF VisitProof, LeafProof
<1> HIDE DEF F
<1>5. VisitProof(entry, sequence, read) = F(VisitProof(entry, sequence, read))
  BY <1>3, <1>4
<1> QED
  BY <1>5 DEF F


-------------------------------------------------------------------------------
(* Paths from a leaf up *)

\* g is the hash at each step of a path from the leaf of an entry, as far as step n.
ClimbsUpTo(g, entry, steps, n) ==
  /\ DOMAIN g = 0..n
  /\ \A k \in 0..n : g[k] = IF k = 0 THEN merkleLeafHash(entry) ELSE Parent(steps[k], g[k - 1])

\* It can be computed as far as any step.
LEMMA ClimbsExist ==
  ASSUME NEW entry, NEW steps
  PROVE  \A n \in Nat : \E g : ClimbsUpTo(g, entry, steps, n)
<1> DEFINE short == {n \in Nat : ~\E g : ClimbsUpTo(g, entry, steps, n)}
<1> SUFFICES ASSUME short # {} PROVE FALSE
  OBVIOUS
<1>1. PICK n \in short : \A m \in short : n <= m
  BY LeastNumber
<1>2. CASE n = 0
  <2>1. ClimbsUpTo([k \in 0..0 |-> merkleLeafHash(entry)], entry, steps, 0)
    BY DEF ClimbsUpTo
  <2> QED
    BY <1>2, <2>1
<1>3. CASE n # 0
  <2>1. n - 1 \in Nat /\ n - 1 \notin short
    BY <1>1, <1>3
  <2>2. PICK g : ClimbsUpTo(g, entry, steps, n - 1)
    BY <2>1
  <2> DEFINE h == [k \in 0..n |-> IF k = n THEN Parent(steps[n], g[n - 1]) ELSE g[k]]
  <2>3. DOMAIN h = 0..n /\ h[n] = Parent(steps[n], g[n - 1]) /\ \A k \in 0..n - 1 : h[k] = g[k]
    BY <1>3, <2>1
  <2> HIDE DEF h
  <2>4. ClimbsUpTo(h, entry, steps, n)
    BY <1>3, <2>1, <2>2, <2>3 DEF ClimbsUpTo
  <2> QED
    BY <2>4
<1> QED
  BY <1>2, <1>3

\* Two computations with the same steps agree as far as both go.
LEMMA ClimbsAgree ==
  ASSUME NEW entry, NEW steps, NEW others, NEW g, NEW h, NEW m \in Nat, NEW n \in Nat, m <= n,
         \A k \in 1..m : steps[k] = others[k],
         ClimbsUpTo(g, entry, steps, m), ClimbsUpTo(h, entry, others, n)
  PROVE  g[m] = h[m]
<1> DEFINE apart == {k \in 0..m : g[k] # h[k]}
<1> SUFFICES ASSUME apart # {} PROVE FALSE
  OBVIOUS
<1>0. apart \in SUBSET Nat
  OBVIOUS
<1>1. PICK k \in apart : \A l \in apart : k <= l
  <2> HIDE DEF apart
  <2> QED
    BY <1>0, LeastNumber
<1>2. k # 0
  BY <1>1 DEF ClimbsUpTo
<1>3. k \in 1..m /\ k - 1 \in 0..m /\ g[k - 1] = h[k - 1]
  BY <1>1, <1>2
<1> QED
  BY <1>1, <1>2, <1>3 DEF ClimbsUpTo

Climbing(f, entry, steps) ==
  f = [n \in Nat |-> IF n = 0 THEN merkleLeafHash(entry) ELSE Parent(steps[n], f[n - 1])]

\* So it can be computed for all steps.
LEMMA Climbs == ASSUME NEW entry, NEW steps PROVE \E f : Climbing(f, entry, steps)
<1> DEFINE listing(n) == CHOOSE g : ClimbsUpTo(g, entry, steps, n)
           f == [n \in Nat |-> listing(n)[n]]
<1>1. \A n \in Nat : ClimbsUpTo(listing(n), entry, steps, n)
  BY ClimbsExist
<1> HIDE DEF listing
<1>2. ASSUME NEW n \in Nat \ {0} PROVE listing(n)[n] = Parent(steps[n], listing(n - 1)[n - 1])
  <2>1. /\ n - 1 \in Nat /\ n - 1 <= n
        /\ ClimbsUpTo(listing(n - 1), entry, steps, n - 1) /\ ClimbsUpTo(listing(n), entry, steps, n)
    BY <1>1
  <2>2. listing(n - 1)[n - 1] = listing(n)[n - 1]
    BY <2>1, ClimbsAgree
  <2> QED
    BY <2>1, <2>2 DEF ClimbsUpTo
<1>3. listing(0)[0] = merkleLeafHash(entry)
  <2>1. ClimbsUpTo(listing(0), entry, steps, 0) /\ 0 \in 0..0
    BY <1>1
  <2> QED
    BY <2>1 DEF ClimbsUpTo
<1>4. Climbing(f, entry, steps)
  BY <1>2, <1>3 DEF Climbing
<1> QED
  BY <1>4

\* The hash that a path leads to, from the climb along it.
LEMMA PathClimb ==
  ASSUME NEW entry, NEW path, Len(path) \in Nat
  PROVE  \E f : Climbing(f, entry, path) /\ PathHash(entry, path) = f[Len(path)]
<1> DEFINE F(v) == [n \in Nat |-> IF n = 0 THEN merkleLeafHash(entry) ELSE Parent(path[n], v[n - 1])]
           hash == CHOOSE v : v = F(v)
<1>1. PICK f : Climbing(f, entry, path)
  BY Climbs
<1>2. f = F(f)
  BY <1>1 DEF Climbing
<1>3. PathHash(entry, path) = hash[Len(path)]
  BY DEF PathHash
<1> HIDE DEF F
<1>4. hash = F(hash)
  BY <1>2
<1> HIDE DEF hash
<1>5. Climbing(hash, entry, path)
  BY <1>4 DEF F, Climbing
<1> QED
  BY <1>3, <1>5

\* A climb is one as far as any step.
LEMMA ClimbingUpTo ==
  ASSUME NEW f, NEW entry, NEW steps, Climbing(f, entry, steps), NEW n \in Nat
  PROVE  ClimbsUpTo([k \in 0..n |-> f[k]], entry, steps, n)
<1> DEFINE g == [k \in 0..n |-> f[k]]
<1>1. DOMAIN g = 0..n /\ \A k \in 0..n : g[k] = f[k]
  OBVIOUS
<1>2. \A k \in Nat : f[k] = IF k = 0 THEN merkleLeafHash(entry) ELSE Parent(steps[k], f[k - 1])
  BY DEF Climbing
<1> HIDE DEF g
<1>3. \A k \in 0..n : k \in Nat /\ (k # 0 => k - 1 \in 0..n)
  OBVIOUS
<1>4. ClimbsUpTo(g, entry, steps, n)
  BY <1>1, <1>2, <1>3 DEF ClimbsUpTo
<1> QED
  BY <1>4 DEF g

\* An empty path leads to the leaf, a longer one to the parent of what it extends.
LEMMA PathSteps ==
  /\ \A entry : PathHash(entry, <<>>) = merkleLeafHash(entry)
  /\ \A entry, S : \A path \in Seq(S), step \in S :
       PathHash(entry, Append(path, step)) = Parent(step, PathHash(entry, path))
<1>1. ASSUME NEW entry PROVE PathHash(entry, <<>>) = merkleLeafHash(entry)
  <2>1. Len(<<>>) = 0
    OBVIOUS
  <2>2. PICK f : Climbing(f, entry, <<>>) /\ PathHash(entry, <<>>) = f[0]
    BY <2>1, PathClimb
  <2> QED
    BY <2>2 DEF Climbing
<1>2. ASSUME NEW entry, NEW S, NEW path \in Seq(S), NEW step \in S
      PROVE  PathHash(entry, Append(path, step)) = Parent(step, PathHash(entry, path))
  <2> DEFINE longer == Append(path, step)
             n == Len(path)
  <2>1. /\ n \in Nat /\ Len(longer) = n + 1 /\ longer[n + 1] = step
        /\ \A k \in 1..n : path[k] = longer[k]
    BY AppendProperties
  <2> HIDE DEF longer, n
  <2>2. PICK f : Climbing(f, entry, path) /\ PathHash(entry, path) = f[n]
    BY <2>1, PathClimb DEF n
  <2>3. PICK g : Climbing(g, entry, longer) /\ PathHash(entry, longer) = g[n + 1]
    <3>1. Len(longer) \in Nat
      BY <2>1
    <3> QED
      BY <2>1, <3>1, PathClimb
  <2> DEFINE upF == [k \in 0..n |-> f[k]]
             upG == [k \in 0..n |-> g[k]]
  <2>4. ClimbsUpTo(upF, entry, path, n) /\ ClimbsUpTo(upG, entry, longer, n)
    BY <2>1, <2>2, <2>3, ClimbingUpTo
  <2>5. upF[n] = f[n] /\ upG[n] = g[n]
    BY <2>1
  <2> HIDE DEF upF, upG
  <2>6. f[n] = g[n]
    <3>1. n \in Nat /\ n <= n /\ \A k \in 1..n : path[k] = longer[k]
      BY <2>1
    <3>2. ASSUME NEW u, NEW v, ClimbsUpTo(u, entry, path, n), ClimbsUpTo(v, entry, longer, n)
          PROVE  u[n] = v[n]
      <4> HIDE <2>1, <2>2, <2>3, <2>4, <2>5
      <4> QED
        BY <3>1, <3>2, ClimbsAgree
    <3> QED
      BY <2>4, <2>5, <3>2
  <2>7. n + 1 \in Nat /\ n + 1 # 0 /\ (n + 1) - 1 = n
    BY <2>1
  <2>8. g[n + 1] = Parent(longer[n + 1], g[n])
    BY <2>3, <2>7 DEF Climbing
  <2> QED
    BY <2>1, <2>2, <2>3, <2>6, <2>8 DEF longer
<1> QED
  BY <1>1, <1>2

\* A path leads to its hash from one entry only.
LEMMA PathTells ==
  ASSUME NEW S, NEW path \in Seq(S), NEW entry, NEW other, PathHash(entry, path) = PathHash(other, path)
  PROVE  entry = other
<1> DEFINE n == Len(path)
<1>1. n \in Nat
  OBVIOUS
<1> HIDE DEF n
<1>2. PICK f : Climbing(f, entry, path) /\ PathHash(entry, path) = f[n]
  BY <1>1, PathClimb DEF n
<1>3. PICK g : Climbing(g, other, path) /\ PathHash(other, path) = g[n]
  BY <1>1, PathClimb DEF n
<1> DEFINE same == {k \in Nat : f[k] = g[k]}
<1>4. same \in SUBSET Nat /\ n \in same
  BY <1>1, <1>2, <1>3
<1>5. PICK k \in same : \A l \in same : k <= l
  <2> HIDE DEF same
  <2> QED
    BY <1>4, LeastNumber
<1>6. CASE k = 0
  BY <1>2, <1>3, <1>5, <1>6 DEF Climbing, merkleLeafHash
<1>7. CASE k # 0
  <2>1. k \in Nat /\ k - 1 \in Nat
    BY <1>5, <1>7
  <2>2. f[k] = Parent(path[k], f[k - 1]) /\ g[k] = Parent(path[k], g[k - 1])
    BY <1>2, <1>3, <1>7, <2>1 DEF Climbing
  <2>3. f[k - 1] = g[k - 1]
    BY <1>5, <2>2 DEF Parent, merkleParentHash
  <2> QED
    BY <1>5, <2>1, <2>3
<1> QED
  BY <1>6, <1>7

-------------------------------------------------------------------------------
(* A table of complete subtrees *)

\* These are the subtrees that end at one entry, each the hash of its halves.
Completes(added, s, e, stored) ==
  /\ DOMAIN added = {Ending(s, k) : k \in Levels(s)}
  /\ \A k \in Levels(s) : added[Ending(s, k)] =
       IF k = 0 THEN merkleLeafHash(e)
       ELSE merkleParentHash(stored[LeftHalf(s, k)], added[Ending(s, k - 1)])

\* The nodes that an entry adds are the subtrees it completes.
LEMMA AppendedNodes ==
  ASSUME NEW s \in Nat \ {0}, NEW e, NEW stored
  PROVE  Completes(merkleAppendNodes(s, e, stored), s, e, stored)
<1> DEFINE F(w) == [k \in Nat |-> IF k = 0 THEN merkleLeafHash(e)
                                  ELSE merkleParentHash(stored[LeftHalf(s, k)], w[k - 1])]
           steps == [k \in Nat |-> [side |-> "left", hash |-> stored[LeftHalf(s, k)]]]
           hash == CHOOSE v : v = F(v)
<1>1. PICK f : Climbing(f, e, steps)
  <2> HIDE DEF steps
  <2> QED
    BY Climbs
<1>2. \A k \in Nat : f[k] = F(f)[k]
  BY <1>1 DEF Climbing, Parent
<1>3. f = F(f)
  BY <1>1, <1>2 DEF Climbing
<1>4. hash = F(hash)
  <2> HIDE DEF F
  <2> QED
    BY <1>3
<1>5. merkleAppendNodes(s, e, stored) = [node \in {Ending(s, k) : k \in Levels(s)} |-> hash[node[2]]]
  BY DEF merkleAppendNodes
<1> HIDE DEF hash
<1>6. \A k \in Nat : hash[k] = IF k = 0 THEN merkleLeafHash(e)
                                ELSE merkleParentHash(stored[LeftHalf(s, k)], hash[k - 1])
  BY <1>4
<1>7. \A k \in Levels(s) : merkleAppendNodes(s, e, stored)[Ending(s, k)] = hash[k]
  BY <1>5 DEF Ending
<1>8. \A k \in Levels(s) \ {0} : k - 1 \in Levels(s)
  BY Halves
<1>9. \A k \in Levels(s) : k \in Nat
  BY DEF Levels
<1> QED
  BY <1>5, <1>6, <1>7, <1>8, <1>9 DEF Completes

\* The subtrees of later entries are not stored.
LEMMA AddedAreNew ==
  ASSUME NEW hashes, NEW n \in Nat, NEW table, Subtrees(hashes, n, table),
         NEW m \in Nat, m > n, NEW k \in Levels(m)
  PROVE  Ending(m, k) \notin DOMAIN table
<1> SUFFICES ASSUME Ending(m, k) \in DOMAIN table PROVE FALSE
  OBVIOUS
<1>1. PICK t \in 1..n : \E l \in Levels(t) : Ending(m, k) = Ending(t, l)
  BY DEF Subtrees
<1>2. t \in Nat /\ t # m /\ k \in Nat /\ Levels(t) \subseteq Nat
  BY DEF Levels
<1> QED
  BY <1>1, <1>2, EndingInjective

\* The left halves of the next entry's subtrees are stored.
LEMMA HalvesStored ==
  ASSUME NEW hashes, NEW n \in Nat, NEW table, Subtrees(hashes, n, table),
         NEW s \in Nat \ {0}, s <= n + 1, NEW k \in Levels(s) \ {0}
  PROVE  LeftHalf(s, k) \in DOMAIN table
<1>1. PICK t \in 1..s - 1 : k - 1 \in Levels(t) /\ LeftHalf(s, k) = Ending(t, k - 1)
  BY Halves
<1>2. t \in 1..n
  BY <1>1
<1> QED
  BY <1>1, <1>2 DEF Subtrees

\* An entry adds the subtrees that it completes, and rewrites none.
LEMMA SubtreesGrow ==
  ASSUME NEW hashes, NEW grown, NEW n \in Nat, NEW table, Subtrees(hashes, n, table),
         \A s \in 1..n : grown[s] = hashes[s]
  PROVE  LET written == Written(merkleAppendNodes(n + 1, grown[n + 1], table), table)
         IN /\ Subtrees(grown, n + 1, written)
            /\ \A node \in DOMAIN table : node \in DOMAIN written /\ written[node] = table[node]
<1> DEFINE m == n + 1
           added == merkleAppendNodes(m, grown[m], table)
           written == Written(added, table)
           Ended(k) == IF k = 0 THEN merkleLeafHash(grown[m])
                       ELSE merkleParentHash(table[LeftHalf(m, k)], added[Ending(m, k - 1)])
<1>1. m \in Nat \ {0} /\ n < m
  OBVIOUS
<1>2. DOMAIN added = {Ending(m, k) : k \in Levels(m)} /\ \A k \in Levels(m) : added[Ending(m, k)] = Ended(k)
  <2> DEFINE e == grown[m]
  <2> HIDE DEF m, e
  <2>1. Completes(merkleAppendNodes(m, e, table), m, e, table)
    BY <1>1, AppendedNodes
  <2> QED
    BY <2>1 DEF e, Completes
<1> HIDE DEF added
<1>3. \A k \in Levels(m) : Ending(m, k) \notin DOMAIN table
  <2> HIDE DEF m
  <2> QED
    BY <1>1, AddedAreNew
<1>4. DOMAIN written = DOMAIN added \cup DOMAIN table
  BY DEF Written
<1>5. \A node \in DOMAIN table : node \in DOMAIN written /\ written[node] = table[node]
  BY <1>2, <1>3, <1>4 DEF Written
<1>6. \A k \in Levels(m) : Ending(m, k) \in DOMAIN written /\ written[Ending(m, k)] = added[Ending(m, k)]
  BY <1>2, <1>4 DEF Written
<1> HIDE DEF written
<1>7. ASSUME NEW node \in DOMAIN written PROVE \E t \in 1..m : \E k \in Levels(t) : node = Ending(t, k)
  <2>1. 1..n \subseteq 1..m /\ m \in 1..m
    BY <1>1
  <2>2. CASE node \in DOMAIN added
    BY <1>2, <2>1, <2>2
  <2>3. CASE node \in DOMAIN table
    BY <2>1, <2>3 DEF Subtrees
  <2> QED
    BY <1>4, <1>7, <2>2, <2>3
<1>8. ASSUME NEW t \in 1..m, NEW k \in Levels(t)
      PROVE  /\ Ending(t, k) \in DOMAIN written
             /\ written[Ending(t, k)] =
                  IF k = 0 THEN merkleLeafHash(grown[t])
                  ELSE merkleParentHash(written[LeftHalf(t, k)], written[Ending(t, k - 1)])
  <2>1. k # 0 => /\ k - 1 \in Levels(t)
                 /\ LeftHalf(t, k) \in DOMAIN table /\ written[LeftHalf(t, k)] = table[LeftHalf(t, k)]
    BY <1>1, <1>5, Halves, HalvesStored
  <2>2. CASE t = m
    <3>1. Ending(t, k) \in DOMAIN written /\ written[Ending(t, k)] = Ended(k)
      BY <1>2, <1>6, <2>2
    <3>2. k # 0 => written[Ending(t, k - 1)] = added[Ending(m, k - 1)]
      BY <1>6, <2>1, <2>2
    <3> QED
      BY <2>1, <2>2, <3>1, <3>2
  <2>3. CASE t # m
    <3>1. t \in 1..n /\ grown[t] = hashes[t]
      BY <1>1, <2>3
    <3>2. /\ Ending(t, k) \in DOMAIN table
          /\ table[Ending(t, k)] =
               IF k = 0 THEN merkleLeafHash(hashes[t])
               ELSE merkleParentHash(table[LeftHalf(t, k)], table[Ending(t, k - 1)])
      BY <3>1 DEF Subtrees
    <3>3. k # 0 => Ending(t, k - 1) \in DOMAIN table
      BY <2>1, <3>1 DEF Subtrees
    <3> QED
      BY <1>5, <2>1, <3>1, <3>2, <3>3
  <2> QED
    BY <2>2, <2>3
<1>9. Subtrees(grown, m, written)
  BY <1>7, <1>8 DEF Subtrees
<1> QED
  BY <1>5, <1>9 DEF written, added

\* Each node is the reference root of its range.
LEMMA RootOfSubtree ==
  ASSUME NEW hashes, NEW n \in Nat, NEW table, Subtrees(hashes, n, table)
  PROVE  \A s \in 1..n : \A k \in Levels(s) :
           table[Ending(s, k)] = RangeRoot(hashes)[<<(s + 1) - Width[k], Width[k]>>]
<1> DEFINE Right_(s, k) == table[Ending(s, k)] = RangeRoot(hashes)[<<(s + 1) - Width[k], Width[k]>>]
           odd == {k \in Nat : \E s \in 1..n : k \in Levels(s) /\ ~Right_(s, k)}
<1>0. odd \in SUBSET Nat /\ \A s \in 1..n : \A k \in Levels(s) : k \in Nat
  BY DEF Levels
<1> SUFFICES ASSUME odd # {} PROVE FALSE
  BY <1>0
<1>1. PICK k \in odd : \A l \in odd : k <= l
  <2> HIDE DEF odd
  <2> QED
    BY <1>0, LeastNumber
<1>2. PICK s \in 1..n : k \in Levels(s) /\ ~Right_(s, k)
  BY <1>1
<1>3. k \in Nat /\ s \in Nat \ {0}
  BY <1>1
<1> DEFINE range == <<(s + 1) - Width[k], Width[k]>>
<1>4. Width[k] \in Nat \ {0} /\ Width[k] <= s /\ range \in Ranges
  <2>1. Width[k] \in Nat \ {0} /\ s % Width[k] = 0
    BY <1>2, <1>3, WidthIsPower DEF Levels
  <2>2. Width[k] <= s
    <3> DEFINE w == Width[k]
    <3> HIDE DEF w
    <3>1. w \in Nat \ {0} /\ s % w = 0
      BY <2>1 DEF w
    <3>2. PICK q \in Nat : s = w * q
      BY <1>3, <3>1, Multiples
    <3>3. q # 0
      BY <1>3, <3>1, <3>2
    <3> QED
      BY <3>1, <3>2, <3>3 DEF w
  <2> QED
    BY <1>3, <2>1, <2>2 DEF Ranges
<1>5. CASE k = 0
  <2>1. Width[0] = 1 /\ range = <<s, 1>>
    BY <1>3, <1>5, WidthDoubles
  <2>2. table[Ending(s, k)] = merkleLeafHash(hashes[s])
    BY <1>2, <1>5 DEF Subtrees
  <2>3. RangeRoot(hashes)[range] = merkleLeafHash(hashes[s])
    BY <1>4, <2>1, RootEquation
  <2> QED
    BY <1>2, <2>2, <2>3
<1>6. CASE k # 0
  <2> DEFINE w == Width[k - 1]
             t == s - w
  <2>1. /\ t \in 1..s - 1 /\ k - 1 \in Levels(t) /\ k - 1 \in Levels(s)
        /\ LeftHalf(s, k) = Ending(t, k - 1)
    BY <1>2, <1>3, <1>6, Halves
  <2>2. /\ k - 1 \in Nat /\ w \in Nat \ {0} /\ Width[k] = 2 * w
    BY <1>3, <1>6, WidthDoubles, WidthIsPower
  <2>3. table[Ending(s, k)] = merkleParentHash(table[Ending(t, k - 1)], table[Ending(s, k - 1)])
    BY <1>2, <1>6, <2>1 DEF Subtrees
  <2>4. t \in 1..n /\ Right_(t, k - 1) /\ Right_(s, k - 1)
    <3>1. k - 1 \notin odd
      <4> HIDE DEF odd
      <4> QED
        BY <1>0, <1>1, <1>3, <2>2
    <3>2. t \in 1..n
      BY <1>3, <2>1
    <3> QED
      BY <2>1, <2>2, <3>1, <3>2
  <2>5. LeftSize(Width[k]) = w
    <3>1. PICK l \in Nat : Width[l] < Width[k] /\ Width[k] <= Width[l + 1] /\ LeftSize(Width[k]) = Width[l]
      BY <2>2, SplitSize
    <3>2. l < k
      <4>1. l = k \/ k < l \/ l < k
        BY <1>3
      <4>2. Width[l] \in Nat /\ Width[k] \in Nat
        BY <1>3, WidthDoubles
      <4> QED
        BY <1>3, <3>1, <4>1, <4>2, WidthGrows
    <3>3. ~(l < k - 1)
      <4>1. l < k - 1 => l + 1 \in Nat /\ l + 1 < k
        BY <1>3
      <4>2. Width[l + 1] \in Nat /\ Width[k] \in Nat
        BY <1>3, WidthDoubles
      <4> QED
        BY <1>3, <3>1, <4>1, <4>2, WidthGrows
    <3>4. l = k - 1
      BY <1>3, <3>2, <3>3
    <3> QED
      BY <3>1, <3>4
  <2>6. range[2] # 1
    BY <2>2
  <2>7. Left(range) = <<(t + 1) - w, w>> /\ Right(range) = <<(s + 1) - w, w>>
    BY <1>3, <2>2, <2>5 DEF Left, Right
  <2>8. RangeRoot(hashes)[range]
          = merkleParentHash(RangeRoot(hashes)[<<(t + 1) - w, w>>], RangeRoot(hashes)[<<(s + 1) - w, w>>])
    BY <1>4, <2>6, <2>7, RootEquation
  <2> QED
    BY <1>2, <2>3, <2>4, <2>8
<1> QED
  BY <1>5, <1>6

-------------------------------------------------------------------------------
(* Proofs from the table *)

\* What holds of a range when it holds of its parts holds of all ranges.
LEMMA RangeInduction ==
  ASSUME NEW T,
         \A range \in Ranges : (range[2] # 1 => Left(range) \in T /\ Right(range) \in T) => range \in T
  PROVE  Ranges \subseteq T
<1> DEFINE low == {n \in Nat : \E range \in Ranges : range[2] = n /\ range \notin T}
<1>0. low \in SUBSET Nat /\ \A range \in Ranges : range[2] \in Nat
  BY DEF Ranges
<1> SUFFICES ASSUME low # {} PROVE FALSE
  BY <1>0
<1>1. PICK n \in low : \A m \in low : n <= m
  <2> HIDE DEF low
  <2> QED
    BY <1>0, LeastNumber
<1>2. PICK range \in Ranges : range[2] = n /\ range \notin T
  BY <1>1
<1>3. ASSUME range[2] # 1, NEW part \in {Left(range), Right(range)} PROVE part \in T
  <2>1. part \in Ranges /\ part[2] \in Nat /\ part[2] < n
    <3>1. /\ LeftSize(range[2]) \in 1..(range[2] - 1)
          /\ Left(range) \in Ranges /\ Right(range) \in Ranges
          /\ Left(range)[2] = LeftSize(range[2]) /\ Right(range)[2] = range[2] - LeftSize(range[2])
      BY <1>2, <1>3, Parts
    <3> QED
      BY <1>0, <1>2, <3>1
  <2> QED
    BY <1>1, <2>1
<1> QED
  BY <1>2, <1>3

\* A range of the tree over the first n entries.
Within(range, n) == Fits(range) /\ range[1] + range[2] <= n + 1

LEMMA PartsWithin ==
  ASSUME NEW range, NEW n \in Nat, Within(range, n), range[2] # 1
  PROVE  /\ range \in Ranges /\ Left(range) \in Ranges /\ Right(range) \in Ranges
         /\ Within(Left(range), n) /\ Within(Right(range), n)
<1>1. range \in Ranges /\ range[1] \in Nat /\ range[2] \in Nat
  BY DEF Within, Fits, Ranges
<1> QED
  BY <1>1, Parts, PartsFit DEF Within

\* The whole tree at one size is such a range, at that and at any later size.
LEMMA WholeWithin == ASSUME NEW n \in Nat, NEW m \in 1..n PROVE <<1, m>> \in Ranges /\ Within(<<1, m>>, n)
BY WholeFits DEF Within, Ranges

\* A range that is one complete subtree is in the table, with its root.
LEMMA PowerStored ==
  ASSUME NEW hashes, NEW n \in Nat, NEW table, Subtrees(hashes, n, table),
         NEW range, Within(range, n), IsPower(range[2])
  PROVE  /\ <<range[1], Level(range[2])>> \in DOMAIN table
         /\ table[<<range[1], Level(range[2])>>] = RangeRoot(hashes)[range]
<1> DEFINE k == Level(range[2])
           s == range[1] + range[2] - 1
<1>1. /\ k \in Nat /\ range[2] = Width[k] /\ s \in Nat \ {0} /\ k \in Levels(s)
      /\ <<range[1], k>> = Ending(s, k)
  BY PowerRange DEF Within
<1>2. range \in Ranges /\ range[1] \in Nat /\ range[2] \in Nat /\ range = <<range[1], range[2]>>
  BY DEF Within, Fits, Ranges
<1>3. s \in 1..n /\ range = <<(s + 1) - Width[k], Width[k]>>
  BY <1>1, <1>2 DEF Within
<1> HIDE DEF k, s
<1>4. Ending(s, k) \in DOMAIN table
  BY <1>1, <1>3 DEF Subtrees
<1>5. table[Ending(s, k)] = RangeRoot(hashes)[<<(s + 1) - Width[k], Width[k]>>]
  <2>1. \A t \in 1..n : \A l \in Levels(t) :
          table[Ending(t, l)] = RangeRoot(hashes)[<<(t + 1) - Width[l], Width[l]>>]
    BY RootOfSubtree
  <2> QED
    BY <1>1, <1>3, <2>1
<1>6. table[Ending(s, k)] = RangeRoot(hashes)[range]
  BY <1>3, <1>5
<1> QED
  BY <1>1, <1>4, <1>6 DEF k

\* The nodes that cover a range of the tree are in the table.
LEMMA CoverStored ==
  ASSUME NEW hashes, NEW n \in Nat, NEW table, Subtrees(hashes, n, table)
  PROVE  \A range \in Ranges : Within(range, n) => completeNodeRanges[range] \subseteq DOMAIN table
<1> DEFINE T == {range \in Ranges : Within(range, n) => completeNodeRanges[range] \subseteq DOMAIN table}
<1>1. ASSUME NEW range \in Ranges, range[2] # 1 => Left(range) \in T /\ Right(range) \in T,
             Within(range, n)
      PROVE  completeNodeRanges[range] \subseteq DOMAIN table
  <2>1. CASE IsPower(range[2])
    <3>1. completeNodeRanges[range] = {<<range[1], Level(range[2])>>}
      BY <2>1, CoverEquation
    <3>2. <<range[1], Level(range[2])>> \in DOMAIN table
      BY <1>1, <2>1, PowerStored
    <3> QED
      BY <3>1, <3>2
  <2>2. CASE ~IsPower(range[2])
    <3>1. range[2] # 1
      BY <2>2, WidthIsPower
    <3>2. Within(Left(range), n) /\ Within(Right(range), n)
      BY <1>1, <3>1, PartsWithin
    <3>3. completeNodeRanges[range] = completeNodeRanges[Left(range)] \cup completeNodeRanges[Right(range)]
      BY <2>2, CoverEquation
    <3> QED
      BY <1>1, <3>1, <3>2, <3>3
  <2> QED
    BY <2>1, <2>2
<1>2. \A range \in Ranges : (range[2] # 1 => Left(range) \in T /\ Right(range) \in T) => range \in T
  BY <1>1
<1>3. Ranges \subseteq T
  <2> HIDE DEF T
  <2> QED
    BY <1>2, RangeInduction
<1> QED
  BY <1>3

\* These nodes were read from the table.
ReadFrom(read, table) == \A node \in DOMAIN read : read[node] = table[node]

\* The hash of a range from the nodes that cover it is its root.
LEMMA HashIsRoot ==
  ASSUME NEW hashes, NEW n \in Nat, NEW table, Subtrees(hashes, n, table), NEW read, ReadFrom(read, table)
  PROVE  \A range \in Ranges :
           Within(range, n) /\ completeNodeRanges[range] \subseteq DOMAIN read
             => RangeHash(read)[range] = RangeRoot(hashes)[range]
<1> DEFINE T == {range \in Ranges :
                   Within(range, n) /\ completeNodeRanges[range] \subseteq DOMAIN read
                     => RangeHash(read)[range] = RangeRoot(hashes)[range]}
<1>1. ASSUME NEW range \in Ranges, range[2] # 1 => Left(range) \in T /\ Right(range) \in T,
             Within(range, n), completeNodeRanges[range] \subseteq DOMAIN read
      PROVE  RangeHash(read)[range] = RangeRoot(hashes)[range]
  <2>1. CASE IsPower(range[2])
    <3> DEFINE node == <<range[1], Level(range[2])>>
    <3>1. completeNodeRanges[range] = {node} /\ RangeHash(read)[range] = read[node]
      BY <2>1, CoverEquation, HashEquation
    <3>2. table[node] = RangeRoot(hashes)[range]
      BY <1>1, <2>1, PowerStored
    <3> HIDE DEF node
    <3> QED
      BY <1>1, <3>1, <3>2 DEF ReadFrom
  <2>2. CASE ~IsPower(range[2])
    <3>1. range[2] # 1
      BY <2>2, WidthIsPower
    <3>2. Within(Left(range), n) /\ Within(Right(range), n)
      BY <1>1, <3>1, PartsWithin
    <3>3. completeNodeRanges[range] = completeNodeRanges[Left(range)] \cup completeNodeRanges[Right(range)]
      BY <2>2, CoverEquation
    <3>4. /\ RangeHash(read)[Left(range)] = RangeRoot(hashes)[Left(range)]
          /\ RangeHash(read)[Right(range)] = RangeRoot(hashes)[Right(range)]
      BY <1>1, <3>1, <3>2, <3>3
    <3>5. RangeHash(read)[range] = merkleParentHash(RangeHash(read)[Left(range)], RangeHash(read)[Right(range)])
      BY <2>2, HashEquation
    <3>6. RangeRoot(hashes)[range]
            = merkleParentHash(RangeRoot(hashes)[Left(range)], RangeRoot(hashes)[Right(range)])
      BY <3>1, RootEquation
    <3> QED
      BY <3>4, <3>5, <3>6
  <2> QED
    BY <2>1, <2>2
<1>2. \A range \in Ranges : (range[2] # 1 => Left(range) \in T /\ Right(range) \in T) => range \in T
  BY <1>1
<1>3. Ranges \subseteq T
  <2> HIDE DEF T
  <2> QED
    BY <1>2, RangeInduction
<1> QED
  BY <1>3

\* The child that holds an entry and its sibling are the two parts.
LEMMA ChildAndSibling ==
  \A s, range : \/ InLeft(s, range) /\ Child(s, range) = Left(range) /\ Sibling(s, range) = Right(range)
                \/ ~InLeft(s, range) /\ Child(s, range) = Right(range) /\ Sibling(s, range) = Left(range)
BY DEF Child, Sibling

\* The nodes that a proof reads are in the table.
LEMMA VisitStored ==
  ASSUME NEW hashes, NEW n \in Nat, NEW table, Subtrees(hashes, n, table), NEW s
  PROVE  \A range \in Ranges : Within(range, n) => VisitNodes(s)[range] \subseteq DOMAIN table
<1> DEFINE T == {range \in Ranges : Within(range, n) => VisitNodes(s)[range] \subseteq DOMAIN table}
<1>1. ASSUME NEW range \in Ranges, range[2] # 1 => Left(range) \in T /\ Right(range) \in T,
             Within(range, n)
      PROVE  VisitNodes(s)[range] \subseteq DOMAIN table
  <2>1. CASE range[2] = 1
    BY <2>1, NodesEquation
  <2>2. CASE range[2] # 1
    <3> DEFINE child == Child(s, range)
               sibling == Sibling(s, range)
    <3>1. child \in T /\ Within(child, n) /\ sibling \in Ranges /\ Within(sibling, n)
      BY <1>1, <2>2, PartsWithin, ChildAndSibling
    <3>2. completeNodeRanges[sibling] \subseteq DOMAIN table
      BY <3>1, CoverStored
    <3>3. VisitNodes(s)[range] = completeNodeRanges[sibling] \cup VisitNodes(s)[child]
      BY <2>2, NodesEquation
    <3> HIDE DEF child, sibling
    <3> QED
      BY <3>1, <3>2, <3>3
  <2> QED
    BY <2>1, <2>2
<1>2. \A range \in Ranges : (range[2] # 1 => Left(range) \in T /\ Right(range) \in T) => range \in T
  BY <1>1
<1>3. Ranges \subseteq T
  <2> HIDE DEF T
  <2> QED
    BY <1>2, RangeInduction
<1> QED
  BY <1>3

\* The steps of the proofs: a side and the root of some range.
ProofSteps(hashes) == [side : {"left", "right"}, hash : {RangeRoot(hashes)[range] : range \in Ranges}]

\* The sides of a path one step longer.
Sides(path) == [i \in DOMAIN path |-> path[i].side]
LEMMA SidesAppend ==
  ASSUME NEW S, NEW path \in Seq(S), NEW step \in S
  PROVE  Sides(Append(path, step)) = Append(Sides(path), step.side)
<1> DEFINE longer == Append(path, step)
           n == Len(path)
           sides == Sides(path)
<1>1. /\ n \in Nat /\ Len(longer) = n + 1 /\ longer \in Seq(S) /\ longer[n + 1] = step
      /\ DOMAIN path = 1..n /\ DOMAIN longer = 1..(n + 1) /\ \A k \in 1..n : longer[k] = path[k]
  OBVIOUS
<1>2. sides \in Seq({s.side : s \in S}) /\ Len(sides) = n /\ \A k \in 1..n : sides[k] = path[k].side
  BY <1>1 DEF Sides
<1> HIDE DEF longer, n
<1>3. Sides(longer) = [i \in 1..(n + 1) |-> longer[i].side]
  BY <1>1 DEF Sides
<1> HIDE DEF sides
<1>4. /\ DOMAIN Append(sides, step.side) = 1..(n + 1)
      /\ Append(sides, step.side) = [i \in 1..(n + 1) |-> IF i = n + 1 THEN step.side ELSE sides[i]]
  BY <1>1, <1>2
<1>5. \A i \in 1..(n + 1) : longer[i].side = IF i = n + 1 THEN step.side ELSE sides[i]
  BY <1>1, <1>2
<1>6. Sides(longer) = Append(sides, step.side)
  BY <1>3, <1>4, <1>5
<1> QED
  BY <1>6 DEF longer, sides

\* These entries are in a range.
Covers(range, s) == s \in Nat /\ range[1] <= s /\ s < range[1] + range[2]

\* An entry of a range is in the part on its side.
LEMMA ChildCovers ==
  ASSUME NEW range \in Ranges, range[2] # 1, NEW s, Covers(range, s)
  PROVE  Covers(Child(s, range), s)
<1>1. range[1] \in Nat /\ range[2] \in Nat /\ LeftSize(range[2]) \in 1..(range[2] - 1)
  BY Parts DEF Ranges
<1>2. CASE InLeft(s, range)
  <2>1. Child(s, range) = Left(range) /\ s < range[1] + LeftSize(range[2])
    BY <1>2 DEF Child, InLeft
  <2> QED
    BY <1>1, <2>1, Parts DEF Covers
<1>3. CASE ~InLeft(s, range)
  <2>1. Child(s, range) = Right(range) /\ ~(s < range[1] + LeftSize(range[2]))
    BY <1>3 DEF Child, InLeft
  <2>2. Right(range)[1] = range[1] + LeftSize(range[2]) /\ Right(range)[2] = range[2] - LeftSize(range[2])
    BY Parts
  <2> QED
    BY <1>1, <2>1, <2>2 DEF Covers
<1> QED
  BY <1>2, <1>3

\* A proof of an entry up to a range: its path has the entry's sides and leads from the
\* entry's leaf to the root of the range.
Proves(proof, hashes, s, range) ==
  /\ proof.root = RangeRoot(hashes)[range]
  /\ proof.path \in Seq(ProofSteps(hashes))
  /\ Sides(proof.path) = VisitSides(s)[range]
  /\ PathHash(hashes[s], proof.path) = proof.root

\* One step further up, it is a proof up to the larger range.
LEMMA ExtendedProves ==
  ASSUME NEW hashes, NEW s, NEW range \in Ranges, range[2] # 1,
         NEW below, Proves(below, hashes, s, Child(s, range))
  PROVE  Proves(Extended(below, SideAt(s, range), RangeRoot(hashes)[Sibling(s, range)]), hashes, s, range)
<1> DEFINE side == SideAt(s, range)
           hash == RangeRoot(hashes)[Sibling(s, range)]
           step == [side |-> side, hash |-> hash]
           proof == Extended(below, side, hash)
           S == ProofSteps(hashes)
<1>1. step \in S
  BY Parts DEF ProofSteps, Sibling, SideAt
<1>2. step.side = SideAt(s, range) /\ step.hash = hash
  OBVIOUS
<1>3. /\ proof.path = Append(below.path, step)
      /\ proof.root = IF side = "right" THEN merkleParentHash(below.root, hash)
                                        ELSE merkleParentHash(hash, below.root)
  BY DEF Extended
<1>4. proof.root = Parent(step, below.root)
  BY <1>3 DEF Parent, SideAt
<1>5. proof.root = RangeRoot(hashes)[range]
  <2>1. RangeRoot(hashes)[range]
          = merkleParentHash(RangeRoot(hashes)[Left(range)], RangeRoot(hashes)[Right(range)])
    BY RootEquation
  <2>2. below.root = RangeRoot(hashes)[Child(s, range)]
    BY DEF Proves
  <2> QED
    BY <1>3, <2>1, <2>2 DEF Child, Sibling, SideAt
<1> HIDE DEF step, proof, S, hash, side
<1>6. below.path \in Seq(S) /\ Sides(below.path) = VisitSides(s)[Child(s, range)]
      /\ PathHash(hashes[s], below.path) = below.root
  BY DEF Proves, S
<1>7. proof.path \in Seq(S)
  BY <1>1, <1>3, <1>6
<1>8. Sides(proof.path) = VisitSides(s)[range]
  <2>1. Sides(proof.path) = Append(Sides(below.path), step.side)
    BY <1>1, <1>3, <1>6, SidesAppend
  <2>2. VisitSides(s)[range] = Append(VisitSides(s)[Child(s, range)], SideAt(s, range))
    BY SidesEquation
  <2> QED
    BY <1>2, <1>6, <2>1, <2>2
<1>9. PathHash(hashes[s], proof.path) = proof.root
  BY <1>1, <1>3, <1>4, <1>6, PathSteps
<1> QED
  BY <1>5, <1>7, <1>8, <1>9 DEF Proves, proof, S, hash, side

\* The proof that is created from the nodes it reads is one.
LEMMA VisitProves ==
  ASSUME NEW hashes, NEW n \in Nat, NEW table, Subtrees(hashes, n, table), NEW read, ReadFrom(read, table),
         NEW s
  PROVE  \A range \in Ranges :
           Within(range, n) /\ Covers(range, s) /\ VisitNodes(s)[range] \subseteq DOMAIN read
             => Proves(VisitProof(hashes[s], s, read)[range], hashes, s, range)
<1> DEFINE T == {range \in Ranges :
                   Within(range, n) /\ Covers(range, s) /\ VisitNodes(s)[range] \subseteq DOMAIN read
                     => Proves(VisitProof(hashes[s], s, read)[range], hashes, s, range)}
<1>1. ASSUME NEW range \in Ranges, range[2] # 1 => Left(range) \in T /\ Right(range) \in T,
             Within(range, n), Covers(range, s), VisitNodes(s)[range] \subseteq DOMAIN read
      PROVE  Proves(VisitProof(hashes[s], s, read)[range], hashes, s, range)
  <2>1. CASE range[2] = 1
    <3> DEFINE proof == VisitProof(hashes[s], s, read)[range]
    <3>1. s = range[1]
      BY <1>1, <2>1 DEF Covers, Ranges
    <3>2. proof = [root |-> merkleLeafHash(hashes[s]), path |-> <<>>]
      BY <2>1, ProofEquation DEF LeafProof
    <3>3. RangeRoot(hashes)[range] = merkleLeafHash(hashes[s])
      BY <2>1, <3>1, RootEquation
    <3>4. VisitSides(s)[range] = <<>>
      BY <2>1, SidesEquation
    <3> HIDE DEF proof
    <3>5. proof.root = merkleLeafHash(hashes[s]) /\ proof.path = <<>>
      BY <3>2
    <3>6. Sides(<<>>) = <<>>
      BY DEF Sides
    <3>7. PathHash(hashes[s], <<>>) = merkleLeafHash(hashes[s])
      BY PathSteps
    <3>8. <<>> \in Seq(ProofSteps(hashes))
      OBVIOUS
    <3>9. Proves(proof, hashes, s, range)
      BY <3>3, <3>4, <3>5, <3>6, <3>7, <3>8 DEF Proves
    <3> QED
      BY <3>9 DEF proof
  <2>2. CASE range[2] # 1
    <3> DEFINE child == Child(s, range)
               sibling == Sibling(s, range)
               below == VisitProof(hashes[s], s, read)[child]
    <3>1. child \in T /\ Within(child, n) /\ sibling \in Ranges /\ Within(sibling, n)
      BY <1>1, <2>2, PartsWithin, ChildAndSibling
    <3>2. Covers(child, s)
      BY <1>1, <2>2, ChildCovers
    <3>3. VisitNodes(s)[range] = completeNodeRanges[sibling] \cup VisitNodes(s)[child]
      BY <2>2, NodesEquation
    <3>4. VisitProof(hashes[s], s, read)[range] = Extended(below, SideAt(s, range), RangeHash(read)[sibling])
      BY <2>2, ProofEquation
    <3>5. RangeHash(read)[sibling] = RangeRoot(hashes)[sibling]
      <4> HIDE DEF sibling, child
      <4> QED
        BY <1>1, <3>1, <3>3, HashIsRoot
    <3>6. Proves(below, hashes, s, child)
      BY <1>1, <3>1, <3>2, <3>3
    <3> HIDE DEF below
    <3>7. Proves(Extended(below, SideAt(s, range), RangeRoot(hashes)[sibling]), hashes, s, range)
      BY <2>2, <3>6, ExtendedProves
    <3> QED
      BY <3>4, <3>5, <3>7
  <2> QED
    BY <2>1, <2>2
<1>2. \A range \in Ranges : (range[2] # 1 => Left(range) \in T /\ Right(range) \in T) => range \in T
  BY <1>1
<1>3. Ranges \subseteq T
  <2> HIDE DEF T
  <2> QED
    BY <1>2, RangeInduction
<1> QED
  BY <1>3

\* The sides of the way down to an entry of a range are a sequence.
LEMMA SidesTyped ==
  ASSUME NEW s
  PROVE  \A range \in Ranges : VisitSides(s)[range] \in Seq({"left", "right"})
<1> DEFINE T == {range \in Ranges : VisitSides(s)[range] \in Seq({"left", "right"})}
<1>1. ASSUME NEW range \in Ranges, range[2] # 1 => Left(range) \in T /\ Right(range) \in T
      PROVE  VisitSides(s)[range] \in Seq({"left", "right"})
  <2>1. CASE range[2] = 1
    <3>1. VisitSides(s)[range] = <<>>
      BY <2>1, SidesEquation
    <3>2. <<>> \in Seq({"left", "right"})
      OBVIOUS
    <3> QED
      BY <3>1, <3>2
  <2>2. CASE range[2] # 1
    <3> DEFINE below == VisitSides(s)[Child(s, range)]
    <3>1. below \in Seq({"left", "right"}) /\ SideAt(s, range) \in {"left", "right"}
      BY <1>1, <2>2, ChildAndSibling DEF SideAt
    <3>2. VisitSides(s)[range] = Append(below, SideAt(s, range))
      BY <2>2, SidesEquation
    <3> HIDE DEF below
    <3> QED
      BY <3>1, <3>2
  <2> QED
    BY <2>1, <2>2
<1>2. \A range \in Ranges : (range[2] # 1 => Left(range) \in T /\ Right(range) \in T) => range \in T
  BY <1>1
<1>3. Ranges \subseteq T
  <2> HIDE DEF T
  <2> QED
    BY <1>2, RangeInduction
<1> QED
  BY <1>3

\* Appending is undone in one way.
LEMMA AppendTells ==
  ASSUME NEW S, NEW p \in Seq(S), NEW q \in Seq(S), NEW x, NEW y, Append(p, x) = Append(q, y)
  PROVE  p = q /\ x = y
<1> DEFINE v == Append(p, x)
           w == Append(q, y)
<1>1. Len(v) = Len(p) + 1 /\ Len(w) = Len(q) + 1 /\ v[Len(p) + 1] = x /\ w[Len(q) + 1] = y
  OBVIOUS
<1>2. (\A k \in 1..Len(p) : v[k] = p[k]) /\ (\A k \in 1..Len(q) : w[k] = q[k])
  OBVIOUS
<1>3. Len(p) \in Nat /\ Len(q) \in Nat
  OBVIOUS
<1>4. v = w
  OBVIOUS
<1> HIDE DEF v, w
<1>5. Len(p) = Len(q)
  BY <1>1, <1>3, <1>4
<1>6. x = y /\ \A k \in 1..Len(p) : p[k] = q[k]
  BY <1>1, <1>2, <1>4, <1>5
<1>7. p = q
  BY <1>5, <1>6, SeqEqual
<1> QED
  BY <1>6, <1>7

\* The sides of two entries of a range differ.
LEMMA SidesTell ==
  ASSUME NEW s, NEW t
  PROVE  \A range \in Ranges :
           Covers(range, s) /\ Covers(range, t) /\ VisitSides(s)[range] = VisitSides(t)[range] => s = t
<1> DEFINE T == {range \in Ranges :
                   Covers(range, s) /\ Covers(range, t) /\ VisitSides(s)[range] = VisitSides(t)[range] => s = t}
<1>1. ASSUME NEW range \in Ranges, range[2] # 1 => Left(range) \in T /\ Right(range) \in T,
             Covers(range, s), Covers(range, t), VisitSides(s)[range] = VisitSides(t)[range]
      PROVE  s = t
  <2>1. CASE range[2] = 1
    BY <1>1, <2>1 DEF Covers, Ranges
  <2>2. CASE range[2] # 1
    <3> DEFINE belowS == VisitSides(s)[Child(s, range)]
               belowT == VisitSides(t)[Child(t, range)]
    <3>1. /\ VisitSides(s)[range] = Append(belowS, SideAt(s, range))
          /\ VisitSides(t)[range] = Append(belowT, SideAt(t, range))
      BY <2>2, SidesEquation
    <3>2. Child(s, range) \in Ranges /\ Child(t, range) \in Ranges
      BY <2>2, Parts DEF Child
    <3>3. belowS \in Seq({"left", "right"}) /\ belowT \in Seq({"left", "right"})
      BY <3>2, SidesTyped
    <3>4. Covers(Child(s, range), s) /\ Covers(Child(t, range), t)
      BY <1>1, <2>2, ChildCovers
    <3>5. belowS = belowT /\ SideAt(s, range) = SideAt(t, range)
      <4> DEFINE sideS == SideAt(s, range)
                 sideT == SideAt(t, range)
      <4>1. Append(belowS, sideS) = Append(belowT, sideT)
        BY <1>1, <3>1
      <4> HIDE DEF belowS, belowT, sideS, sideT
      <4>2. belowS = belowT /\ sideS = sideT
        BY <3>3, <4>1, AppendTells
      <4> QED
        BY <4>2 DEF sideS, sideT
    <3>6. Child(s, range) = Child(t, range) /\ Child(s, range) \in T
      BY <1>1, <2>2, <3>5 DEF SideAt, Child
    <3> QED
      BY <3>4, <3>5, <3>6
  <2> QED
    BY <2>1, <2>2
<1>2. \A range \in Ranges : (range[2] # 1 => Left(range) \in T /\ Right(range) \in T) => range \in T
  BY <1>1
<1>3. Ranges \subseteq T
  <2> HIDE DEF T
  <2> QED
    BY <1>2, RangeInduction
<1> QED
  BY <1>3

\* The addresses of the stored subtrees, by where they start.
LEMMA EndingsAligned ==
  ASSUME NEW n \in Nat
  PROVE  /\ \A s \in 1..n : \A k \in Levels(s) : Ending(s, k) \in Aligned(n)
         /\ \A node \in Aligned(n) : \E s \in 1..n : \E k \in Levels(s) : node = Ending(s, k)
<1>1. ASSUME NEW s \in 1..n, NEW k \in Levels(s) PROVE Ending(s, k) \in Aligned(n)
  <2> DEFINE w == Width[k]
             a == (s + 1) - w
  <2>1. s \in Nat /\ k \in Nat /\ k <= s /\ w \in Nat \ {0} /\ s % w = 0
    BY WidthIsPower DEF Levels
  <2> HIDE DEF w
  <2>2. PICK q \in Nat : s = w * q
    BY <2>1, Multiples
  <2>3. q # 0
    BY <2>1, <2>2
  <2>4. a - 1 = w * (q - 1) /\ q - 1 \in Nat /\ a - 1 \in Nat
    BY <2>1, <2>2, <2>3
  <2>5. (a - 1) % w = 0
    BY <2>1, <2>4, Multiples
  <2>6. a \in 1..n /\ k \in 0..n /\ a + w <= n + 1
    BY <2>1, <2>4
  <2>7. Ending(s, k) = <<a, k>>
    BY DEF Ending, w
  <2> HIDE DEF a
  <2> QED
    BY <2>5, <2>6, <2>7 DEF Aligned, w
<1>2. ASSUME NEW node \in Aligned(n) PROVE \E s \in 1..n : \E k \in Levels(s) : node = Ending(s, k)
  <2> DEFINE a == node[1]
             k == node[2]
             w == Width[k]
             s == a + w - 1
  <2>1. a \in 1..n /\ k \in 0..n /\ (a - 1) % w = 0 /\ a + w <= n + 1 /\ node = <<a, k>>
    BY DEF Aligned
  <2>2. w \in Nat \ {0} /\ k < w
    BY <2>1, WidthIsPower, WidthExceeds
  <2> HIDE DEF w, a, k
  <2>a. a - 1 \in Nat
    BY <2>1
  <2>3. PICK q \in Nat : a - 1 = w * q
    BY <2>1, <2>2, <2>a, Multiples
  <2>4. s = w * (q + 1) /\ q + 1 \in Nat /\ s \in 1..n /\ k \in 0..s
    BY <2>1, <2>2, <2>3
  <2>5. s % w = 0
    <3> HIDE DEF s
    <3> DEFINE m == q + 1
    <3>1. m \in Nat /\ s \in Nat /\ s = w * m
      BY <2>4
    <3> HIDE DEF m
    <3> QED
      BY <2>2, <3>1, Multiples
  <2>6. k \in Levels(s)
    BY <2>4, <2>5 DEF Levels, w
  <2>7. node = Ending(s, k)
    BY <2>1, <2>2 DEF Ending, w
  <2> QED
    BY <2>4, <2>6, <2>7
<1> QED
  BY <1>1, <1>2

\* The table of the subtrees of a log is complete.
LEMMA TableComplete ==
  ASSUME NEW S, NEW hashes \in Seq(S), NEW table, Subtrees(hashes, Len(hashes), table)
  PROVE  Complete(hashes, table)
<1> DEFINE n == Len(hashes)
<1>1. n \in Nat
  OBVIOUS
<1> HIDE DEF n
<1>2. Subtrees(hashes, n, table)
  BY DEF n
<1>3. DOMAIN table = Aligned(n)
  <2>1. \A node \in DOMAIN table : node \in Aligned(n)
    BY <1>1, <1>2, EndingsAligned DEF Subtrees
  <2>2. \A node \in Aligned(n) : node \in DOMAIN table
    BY <1>1, <1>2, EndingsAligned DEF Subtrees
  <2> QED
    BY <2>1, <2>2
<1>4. ASSUME NEW node \in DOMAIN table
      PROVE  table[node] = RangeRoot(hashes)[<<node[1], Width[node[2]]>>]
  <2>0. PICK s \in 1..n : \E k \in Levels(s) : node = Ending(s, k)
    BY <1>2 DEF Subtrees
  <2>1. PICK k \in Levels(s) : node = Ending(s, k)
    BY <2>0
  <2>2. node[1] = (s + 1) - Width[k] /\ node[2] = k
    BY <2>1 DEF Ending
  <2>3. table[Ending(s, k)] = RangeRoot(hashes)[<<(s + 1) - Width[k], Width[k]>>]
    BY <1>1, <1>2, RootOfSubtree
  <2> QED
    BY <2>1, <2>2, <2>3
<1>5. LeftHalves(n + 1) \subseteq DOMAIN table
  <2> SUFFICES ASSUME NEW k \in Levels(n + 1) \ {0} PROVE LeftHalf(n + 1, k) \in DOMAIN table
    BY DEF LeftHalves
  <2> DEFINE s == n + 1
  <2>1. s \in Nat \ {0} /\ s <= n + 1
    BY <1>1
  <2> HIDE DEF s
  <2>2. \A l \in Levels(s) \ {0} : LeftHalf(s, l) \in DOMAIN table
    BY <1>1, <1>2, <2>1, HalvesStored
  <2> QED
    BY <2>2 DEF s
<1> QED
  BY <1>3, <1>4, <1>5 DEF Complete, n

\* Every proof from it holds.
LEMMA TableProves ==
  ASSUME NEW S, NEW hashes \in Seq(S), NEW table, Subtrees(hashes, Len(hashes), table), NEW claims
  PROVE  ProofsHold(hashes, table, claims)
<1> DEFINE n == Len(hashes)
<1>1. n \in Nat /\ DOMAIN hashes = 1..n
  OBVIOUS
<1> HIDE DEF n
<1>2. Subtrees(hashes, n, table)
  BY DEF n
<1> SUFFICES ASSUME NEW total \in 1..n, NEW s \in 1..total
             PROVE  LET proof == Proof(hashes, table, s, total)
                    IN /\ Provable(s, total, table)
                       /\ proof.root = RangeRoot(hashes)[<<1, total>>]
                       /\ Identifies(hashes, claims, proof, s, total)
  BY <1>1 DEF ProofsHold
<1> DEFINE range == <<1, total>>
           required == requiredMerkleNodes(s, total)
           read == Restrict(table, required)
           proof == Proof(hashes, table, s, total)
<1>3. range \in Ranges /\ Within(range, n) /\ range[1] = 1 /\ range[2] = total
  BY <1>1, WholeWithin
<1>4. required = VisitNodes(s)[range]
  BY DEF requiredMerkleNodes
<1>5. required \subseteq DOMAIN table
  <2> HIDE DEF range, required
  <2> QED
    BY <1>1, <1>2, <1>3, <1>4, VisitStored
<1>6. Provable(s, total, table)
  BY <1>5 DEF Provable
<1>7. DOMAIN read = required /\ ReadFrom(read, table)
  BY DEF Restrict, ReadFrom
<1>8. proof = VisitProof(hashes[s], s, read)[range]
  BY DEF Proof, createMerkleProof
<1>9. \A t \in 1..total : Covers(range, t)
  BY <1>1, <1>3 DEF Covers
<1> HIDE DEF proof, read, required
<1>10. Proves(proof, hashes, s, range)
  <2> HIDE DEF range
  <2>1. VisitNodes(s)[range] \subseteq DOMAIN read /\ Covers(range, s)
    BY <1>4, <1>7, <1>9
  <2> QED
    BY <1>1, <1>2, <1>3, <1>7, <1>8, <2>1, VisitProves
<1>11. proof.root = RangeRoot(hashes)[<<1, total>>]
  BY <1>10 DEF Proves
<1>12. ASSUME NEW t \in DOMAIN hashes, NEW entry \in claims
       PROVE  verifyMerkleProof(entry, t, total, proof.path, proof.root) <=> t = s /\ entry = hashes[s]
  <2> DEFINE path == proof.path
  <2>1. /\ path \in Seq(ProofSteps(hashes)) /\ Sides(path) = VisitSides(s)[range]
        /\ PathHash(hashes[s], path) = proof.root
    BY <1>10 DEF Proves
  <2> HIDE DEF path, range
  <2>2. verifyMerkleProof(entry, t, total, path, proof.root)
          <=> /\ t \in 1..total
              /\ Sides(path) = VisitSides(t)[range]
              /\ PathHash(entry, path) = proof.root
    BY DEF verifyMerkleProof, merkleProofSides, Sides, range
  <2>3. ASSUME t \in 1..total, VisitSides(s)[range] = VisitSides(t)[range] PROVE t = s
    BY <1>3, <1>9, <2>3, SidesTell
  <2>4. ASSUME PathHash(entry, path) = PathHash(hashes[s], path) PROVE entry = hashes[s]
    <3> DEFINE kept == hashes[s]
    <3> HIDE DEF kept
    <3>1. PathHash(entry, path) = PathHash(kept, path) => entry = kept
      BY <2>1, PathTells
    <3> QED
      BY <2>4, <3>1 DEF kept
  <2>5. verifyMerkleProof(entry, t, total, path, proof.root) => t = s /\ entry = hashes[s]
    BY <2>1, <2>2, <2>3, <2>4
  <2>6. t = s /\ entry = hashes[s] => verifyMerkleProof(entry, t, total, path, proof.root)
    BY <2>1, <2>2
  <2> QED
    BY <2>5, <2>6 DEF path
<1>13. Identifies(hashes, claims, proof, s, total)
  BY <1>12 DEF Identifies
<1> QED
  BY <1>6, <1>11, <1>13 DEF proof

-------------------------------------------------------------------------------
(* The initial state *)

\* The store starts empty, which satisfies the invariant.
LEMMA StoreInit == Init => StoreInv
<1> SUFFICES ASSUME Init PROVE StoreInv
  OBVIOUS
<1>1. log = <<>> /\ nodes = <<>> /\ authorization = <<>>
  BY DEF Init
<1>2. ChainInv
  BY <1>1 DEF ChainInv
<1>3. RecordsInv /\ NodesInv /\ ReservationsAreUnique
  BY <1>1 DEF RecordsInv, NodesInv, Subtrees, ReservationsAreUnique, Accepted
<1>4. IntentsTyped
  BY DEF Init, IntentsTyped
<1> QED
  BY <1>2, <1>3, <1>4 DEF StoreInv

-------------------------------------------------------------------------------
(* Accepting an authorization *)

\* What Accept writes, entry by entry.
AcceptWrites(s, at) ==
  LET i == Id[s]
      e == NextEntry(s, at)
      n == Len(log) + 1
  IN /\ log' \in Seq(LogElements') /\ Len(log) \in Nat /\ Len(log') = n
     /\ \A k \in 1..Len(log) : log'[k] = log[k]
     /\ log'[n] = e
     /\ e = LogEntry(n, s, at, IF n = 1 THEN None ELSE log[Len(log)].entry)
     /\ e.sequence = n /\ e.signed = s /\ e.acceptedAt = at
     /\ i \in Ids \ DOMAIN authorization
     /\ DOMAIN authorization' = DOMAIN authorization \cup {i}
     /\ authorization'[i] = Record(e)
     /\ \A j \in DOMAIN authorization : authorization'[j] = authorization[j]

\* What an acceptance writes: one entry, its record, and nothing over an old record.
LEMMA AcceptEffect ==
  ASSUME StoreInv, NEW s \in Signed, NEW at \in Times, Accept(s, at)
  PROVE  AcceptWrites(s, at)
<1> DEFINE i == Id[s]
           e == NextEntry(s, at)
<1>0. log \in Seq(LogElements)
  BY DEF StoreInv, ChainInv
<1>1. log' = Append(log, e) /\ authorization' = Written([id \in {i} |-> Record(e)], authorization)
  BY DEF Accept
<1>2. Len(log) \in Nat /\ Len(log') = Len(log) + 1 /\ DOMAIN log' = 1..Len(log) + 1
  BY <1>0, <1>1
<1>3. \A k \in 1..Len(log) : log'[k] = log[k]
  BY <1>0, <1>1
<1>4. log'[Len(log) + 1] = e
  BY <1>0, <1>1
<1>5. log' \in Seq(LogElements')
  <2>1. LogElements \subseteq LogElements' /\ e \in LogElements'
    <3>1. DOMAIN log = 1..Len(log)
      BY <1>0
    <3> QED
      BY <3>1, <1>2, <1>3, <1>4 DEF LogElements
  <2> HIDE DEF e
  <2> QED
    BY <1>0, <1>1, <2>1
<1>6. e = LogEntry(Len(log) + 1, s, at, IF Len(log) + 1 = 1 THEN None ELSE log[Len(log)].entry)
  <2>1. log = <<>> <=> Len(log) = 0
    BY <1>0
  <2>2. HeadHash = IF Len(log) + 1 = 1 THEN None ELSE log[Len(log)].entry
    BY <2>1, <1>2 DEF HeadHash, Last
  <2> QED
    BY <2>2 DEF NextEntry
<1>f. e.sequence = Len(log) + 1 /\ e.signed = s /\ e.acceptedAt = at
  BY <1>6 DEF LogEntry
<1>7. i \in Ids \ DOMAIN authorization
  BY DEF Ids, Accept, Acceptable, Accepted
<1>8. /\ DOMAIN authorization' = DOMAIN authorization \cup {i}
      /\ authorization'[i] = Record(e)
      /\ \A j \in DOMAIN authorization : authorization'[j] = authorization[j]
  <2> DEFINE new == [id \in {i} |-> Record(e)]
  <2>1. DOMAIN new = {i} /\ new[i] = Record(e)
    OBVIOUS
  <2>2. authorization' = Written(new, authorization)
    BY <1>1
  <2> HIDE DEF new, e, i
  <2> QED
    BY <1>7, <2>1, <2>2 DEF Written
<1> QED
  BY <1>2, <1>3, <1>4, <1>5, <1>6, <1>f, <1>7, <1>8 DEF AcceptWrites

\* The new entry is hashed over its predecessor.
LEMMA AcceptChain ==
  ASSUME StoreInv, NEW s \in Signed, NEW at \in Times, Accept(s, at), AcceptWrites(s, at)
  PROVE  ChainInv'
<1> DEFINE e == NextEntry(s, at)
<1>1. SUFFICES ASSUME NEW k \in 1..Len(log) + 1
               PROVE  /\ log'[k].signed \in Signed /\ log'[k].acceptedAt \in Times
                      /\ log'[k] = LogEntry(k, log'[k].signed, log'[k].acceptedAt,
                                            IF k = 1 THEN None ELSE log'[k - 1].entry)
                      /\ Id[log'[k].signed] \in DOMAIN authorization'
                      /\ authorization'[Id[log'[k].signed]].sequence = k
  BY DEF ChainInv, Accepted, AcceptWrites
<1>2. CASE k \in 1..Len(log)
  <2>1. log'[k] = log[k] /\ (k # 1 => log'[k - 1] = log[k - 1])
    BY <1>2 DEF AcceptWrites
  <2> QED
    BY <2>1, <1>2 DEF StoreInv, ChainInv, Accepted, AcceptWrites
<1>3. CASE k = Len(log) + 1
  <2>1. log'[k] = e /\ (k # 1 => log'[k - 1] = log[Len(log)])
    BY <1>3 DEF AcceptWrites
  <2>2. e.signed = s /\ e.acceptedAt = at /\ e.sequence = k
    BY <1>3 DEF AcceptWrites
  <2>3. authorization'[Id[s]].sequence = k
    BY <2>2 DEF Record, AcceptWrites
  <2>4. e = LogEntry(k, s, at, IF k = 1 THEN None ELSE log'[k - 1].entry)
    BY <1>3, <2>1 DEF AcceptWrites
  <2> HIDE DEF e
  <2> QED
    BY <2>1, <2>2, <2>3, <2>4 DEF AcceptWrites
<1> QED
  BY <1>1, <1>2, <1>3 DEF AcceptWrites

\* The new record repeats its entry and its intent's hash.
LEMMA AcceptRecords ==
  ASSUME StoreInv, NEW s \in Signed, NEW at \in Times, Accept(s, at), AcceptWrites(s, at)
  PROVE  RecordsInv' /\ IntentsTyped'
<1> DEFINE i == Id[s]
           e == NextEntry(s, at)
<1>0. IntentsTyped /\ i \in Ids /\ IntentId[i] \in IntentIds
  BY DEF StoreInv, IntentIds, AcceptWrites
<1>1. intents' = [intents EXCEPT ![IntentId[i]] = IntentHash[i]]
  BY DEF Accept
<1>2. IntentsTyped'
  BY <1>0, <1>1 DEF IntentsTyped
<1>3. intents[IntentId[i]] \in {None, IntentHash[i]}
  BY DEF Accept, Acceptable, IntentConflicts
<1>4. ASSUME NEW j \in DOMAIN authorization' PROVE RecordInv(j)'
  <2>1. CASE j = i
    <3>1. /\ e.sequence = Len(log) + 1 /\ e.signed = s /\ log'[Len(log) + 1] = e
          /\ Len(log) + 1 \in 1..Len(log')
      BY DEF AcceptWrites
    <3>2. authorization'[j] = Record(e)
      BY <2>1 DEF AcceptWrites
    <3>3. authorization'[j].sequence = Len(log) + 1 /\ authorization'[j].tx = None
      BY <3>1, <3>2 DEF Record
    <3>4. authorization'[j] = [Record(log'[Len(log) + 1]) EXCEPT !.tx = None]
      BY <3>1, <3>2 DEF Record
    <3>5. intents'[IntentId[j]] = IntentHash[j]
      BY <1>0, <1>1, <2>1 DEF IntentsTyped
    <3> HIDE DEF e
    <3> QED
      BY <1>0, <2>1, <3>1, <3>3, <3>4, <3>5 DEF RecordInv
  <2>2. CASE j # i
    <3>1. j \in DOMAIN authorization /\ authorization'[j] = authorization[j]
      BY <2>2, <1>4 DEF AcceptWrites
    <3>2. RecordInv(j)
      BY <3>1 DEF StoreInv, RecordsInv
    <3>3. /\ log'[authorization[j].sequence] = log[authorization[j].sequence]
          /\ authorization[j].sequence \in 1..Len(log')
      BY <3>2 DEF RecordInv, AcceptWrites
    <3>4. intents'[IntentId[j]] = IntentHash[j]
      BY <1>0, <1>1, <1>3, <3>2, SignedAssumption DEF RecordInv, IntentsTyped, IntentIds
    <3> QED
      BY <3>1, <3>2, <3>3, <3>4 DEF RecordInv
  <2> QED
    BY <2>1, <2>2
<1> QED
  BY <1>2, <1>4 DEF RecordsInv

\* The accepted nonce and client order identifier were free.
LEMMA AcceptReservations ==
  ASSUME StoreInv, NEW s \in Signed, NEW at \in Times, Accept(s, at), AcceptWrites(s, at)
  PROVE  ReservationsAreUnique'
<1> DEFINE i == Id[s]
<1>1. \A j \in Ids : Accepted(j)' <=> (Accepted(j) \/ j = i)
  BY DEF Accepted, AcceptWrites
<1>2. \A j \in Ids : Accepted(j) => Nonce[j] # Nonce[i]
  BY DEF Accept, Acceptable, NonceUsed
<1>3. \A j \in Ids : Accepted(j) /\ Cloid[i] # None => Cloid[j] # Cloid[i]
  BY DEF Accept, Acceptable, CloidUsed
<1> QED
  BY <1>1, <1>2, <1>3 DEF StoreInv, ReservationsAreUnique

\* An acceptance adds the subtrees that its entry completes, and rewrites none.
LEMMA AcceptNodes ==
  ASSUME StoreInv, NEW s \in Signed, NEW at \in Times, Accept(s, at), AcceptWrites(s, at)
  PROVE  /\ NodesInv'
         /\ \A n \in DOMAIN nodes : n \in DOMAIN nodes' /\ nodes'[n] = nodes[n]
<1> DEFINE n == Len(log)
           e == NextEntry(s, at)
           grown == Hashes'
           written == Written(merkleAppendNodes(n + 1, grown[n + 1], nodes), nodes)
<1>1. /\ n \in Nat /\ Len(log') = n + 1 /\ e.sequence = n + 1
      /\ log'[n + 1] = e /\ \A k \in 1..n : log'[k] = log[k]
  BY DEF AcceptWrites
<1>2. grown[n + 1] = e.entry /\ \A k \in 1..n : grown[k] = Hashes[k]
  BY <1>1 DEF Hashes
<1>3. nodes' = written
  BY <1>1, <1>2 DEF Accept
<1>4. Subtrees(Hashes, n, nodes)
  BY DEF StoreInv, NodesInv
<1> DEFINE hashes == Hashes
<1> HIDE DEF n, grown, hashes, e
<1>5. /\ Subtrees(grown, n + 1, written)
      /\ \A node \in DOMAIN nodes : node \in DOMAIN written /\ written[node] = nodes[node]
  <2>1. Subtrees(hashes, n, nodes) /\ \A k \in 1..n : grown[k] = hashes[k]
    BY <1>2, <1>4 DEF hashes
  <2>2. LET w == Written(merkleAppendNodes(n + 1, grown[n + 1], nodes), nodes)
        IN Subtrees(grown, n + 1, w) /\ \A node \in DOMAIN nodes : node \in DOMAIN w /\ w[node] = nodes[node]
    BY <1>1, <2>1, SubtreesGrow
  <2> QED
    BY <2>2
<1> HIDE DEF written
<1> QED
  BY <1>1, <1>3, <1>5 DEF NodesInv, grown

-------------------------------------------------------------------------------
(* The other actions *)

\* An intent is only ever stored once, so no record's intent is replaced.
LEMMA SaveIntentStep ==
  ASSUME StoreInv, NEW i \in Ids, SaveIntent(i)
  PROVE  StoreInv'
<1> USE DEF SaveIntent
<1>1. intents[IntentId[i]] \in {None, IntentHash[i]} /\ IntentId[i] \in IntentIds
  BY DEF IntentConflicts, IntentIds
<1>2. IntentsTyped'
  BY <1>1 DEF StoreInv, IntentsTyped
<1>3. ASSUME NEW j \in DOMAIN authorization PROVE RecordInv(j)'
  <2>1. RecordInv(j)
    BY DEF StoreInv, RecordsInv
  <2>2. intents'[IntentId[j]] = intents[IntentId[j]]
    BY <1>1, <2>1, SignedAssumption DEF StoreInv, IntentsTyped, IntentIds, RecordInv
  <2> QED
    BY <2>1, <2>2 DEF RecordInv
<1>4. ChainInv' /\ NodesInv' /\ ReservationsAreUnique'
  BY DEF StoreInv, ChainInv, LogElements, Accepted, NodesInv, Hashes, ReservationsAreUnique
<1> QED
  BY <1>2, <1>3, <1>4 DEF StoreInv, RecordsInv

\* What Bind writes: the transaction of one record that had none.
BindWrites(i, tx) ==
  /\ log' = log /\ nodes' = nodes /\ intents' = intents
  /\ i \in DOMAIN authorization /\ authorization[i].tx = None
  /\ DOMAIN authorization' = DOMAIN authorization
  /\ \A j \in DOMAIN authorization : j # i => authorization'[j] = authorization[j]
  /\ authorization'[i].sequence = authorization[i].sequence
  /\ authorization'[i].tx = tx
  /\ authorization'[i] = [Record(log[authorization[i].sequence]) EXCEPT !.tx = tx]
  /\ authorization[i] = Record(log[authorization[i].sequence])

\* Binding writes one transaction over an unbound record.
LEMMA BindEffect ==
  ASSUME StoreInv, NEW i \in Ids, NEW tx \in TxHashes, Bind(i, tx)
  PROVE  BindWrites(i, tx)
<1>1. i \in DOMAIN authorization /\ authorization[i].tx = None
  BY DEF Bind, Bindable, Accepted
<1>2. authorization' = [authorization EXCEPT ![i].tx = tx]
  BY DEF Bind
<1>3. authorization[i] = [Record(log[authorization[i].sequence]) EXCEPT !.tx = authorization[i].tx]
  BY <1>1 DEF StoreInv, RecordsInv, RecordInv
<1>4. authorization[i] = Record(log[authorization[i].sequence])
  BY <1>1, <1>3 DEF Record
<1>5. authorization'[i] = [authorization[i] EXCEPT !.tx = tx]
  BY <1>1, <1>2
<1>6. authorization'[i] = [Record(log[authorization[i].sequence]) EXCEPT !.tx = tx]
  BY <1>4, <1>5
<1>7. authorization'[i].sequence = authorization[i].sequence /\ authorization'[i].tx = tx
  BY <1>4, <1>5 DEF Record
<1> QED
  BY <1>1, <1>2, <1>4, <1>6, <1>7 DEF BindWrites, Bind

\* Binding preserves the invariant.
LEMMA BindStep ==
  ASSUME StoreInv, NEW i \in Ids, NEW tx \in TxHashes, BindWrites(i, tx)
  PROVE  StoreInv'
<1>1. ASSUME NEW j \in DOMAIN authorization PROVE RecordInv(j)'
  <2>1. RecordInv(j)
    BY DEF StoreInv, RecordsInv
  <2>2. CASE j = i
    BY <2>1, <2>2 DEF RecordInv, BindWrites
  <2>3. CASE j # i
    BY <2>1, <2>3 DEF RecordInv, BindWrites
  <2> QED
    BY <2>2, <2>3
<1>2. RecordsInv'
  BY <1>1 DEF RecordsInv, BindWrites
<1>3. \A j \in DOMAIN authorization : authorization'[j].sequence = authorization[j].sequence
  BY DEF BindWrites
<1>4. ChainInv'
  BY <1>3 DEF StoreInv, ChainInv, LogElements, Accepted, BindWrites
<1>5. NodesInv' /\ IntentsTyped' /\ ReservationsAreUnique'
  BY DEF StoreInv, NodesInv, Hashes, IntentsTyped, ReservationsAreUnique, Accepted, BindWrites
<1> QED
  BY <1>2, <1>4, <1>5 DEF StoreInv

\* Every step preserves the invariant.
LEMMA StoreStep == StoreInv /\ [Next]_storeVars => StoreInv'
<1> SUFFICES ASSUME StoreInv, [Next]_storeVars PROVE StoreInv'
  OBVIOUS
<1>1. ASSUME NEW s \in Signed, NEW at \in Times, Accept(s, at) PROVE StoreInv'
  <2>1. AcceptWrites(s, at)
    BY <1>1, AcceptEffect
  <2> QED
    BY <1>1, <2>1, AcceptChain, AcceptRecords, AcceptReservations, AcceptNodes DEF StoreInv
<1>2. ASSUME NEW i \in Ids, SaveIntent(i) PROVE StoreInv'
  BY <1>2, SaveIntentStep
<1>3. ASSUME NEW i \in Ids, NEW tx \in TxHashes, Bind(i, tx) PROVE StoreInv'
  BY <1>3, BindEffect, BindStep
<1>4. CASE UNCHANGED storeVars
  BY <1>4 DEF storeVars, StoreInv, ChainInv, LogElements, Accepted, RecordsInv, RecordInv,
              IntentsTyped, NodesInv, Hashes, ReservationsAreUnique
<1> QED
  BY <1>1, <1>2, <1>3, <1>4 DEF Next

\* The invariant holds of every behaviour of the store.
LEMMA StoreInvHolds == Spec => []StoreInv
<1> QED
  BY StoreInit, StoreStep, PTL DEF Spec

-------------------------------------------------------------------------------
(* The log and its index *)

\* The index is the table of the log's subtrees.
IndexInv == entries \in Seq(Entries) /\ Subtrees(entries, Len(entries), index)

\* An append adds the subtrees that its entry completes.
LEMMA AppendStep == ASSUME IndexInv, NEW entry \in Entries, AppendEntry(entry) PROVE IndexInv'
<1> DEFINE n == Len(entries)
           grown == Append(entries, entry)
<1>1. /\ n \in Nat /\ grown \in Seq(Entries) /\ Len(grown) = n + 1 /\ grown[n + 1] = entry
      /\ \A s \in 1..n : grown[s] = entries[s]
  BY DEF IndexInv
<1>2. entries' = grown /\ index' = Written(merkleAppendNodes(n + 1, entry, index), index)
  BY DEF AppendEntry
<1>3. Subtrees(entries, n, index)
  BY DEF IndexInv
<1> HIDE DEF n, grown
<1>4. Subtrees(grown, n + 1, index')
  <2>1. LET written == Written(merkleAppendNodes(n + 1, grown[n + 1], index), index)
        IN Subtrees(grown, n + 1, written)
    BY <1>1, <1>3, SubtreesGrow
  <2> QED
    BY <1>1, <1>2, <2>1
<1> QED
  BY <1>1, <1>2, <1>4 DEF IndexInv

\* The invariant holds of every log.
LEMMA IndexInvHolds == IndexSpec => []IndexInv
<1>1. IndexInit => IndexInv
  <2> SUFFICES ASSUME IndexInit PROVE IndexInv
    OBVIOUS
  <2>1. entries = <<>> /\ index = <<>> /\ Len(entries) = 0 /\ entries \in Seq(Entries) /\ DOMAIN index = {}
    BY DEF IndexInit
  <2> QED
    BY <2>1 DEF IndexInv, Subtrees
<1>2. IndexInv /\ [IndexNext]_indexVars => IndexInv'
  <2> SUFFICES ASSUME IndexInv, [IndexNext]_indexVars PROVE IndexInv'
    OBVIOUS
  <2>1. CASE IndexNext
    BY <2>1, AppendStep DEF IndexNext
  <2>2. CASE UNCHANGED indexVars
    BY <2>2 DEF indexVars, IndexInv
  <2> QED
    BY <2>1, <2>2
<1> QED
  BY <1>1, <1>2, PTL DEF IndexSpec

-------------------------------------------------------------------------------
(* Theorems *)

\* The store's tables keep their types.
THEOREM TypeCorrect == Spec => []TypeOK
<1>1. StoreInv => TypeOK
  <2> SUFFICES ASSUME StoreInv PROVE TypeOK
    OBVIOUS
  <2>1. DOMAIN log = 1..Len(log) /\ Len(log) \in Nat
    BY DEF StoreInv, ChainInv
  <2>2. ASSUME NEW k \in 1..Len(log)
        PROVE  log[k] \in [sequence : Nat, signed : Signed, acceptedAt : Times,
                           previous : {None} \cup {log[j].entry : j \in DOMAIN log},
                           entry : {log[k].entry}]
    <3>1. /\ log[k].signed \in Signed /\ log[k].acceptedAt \in Times
          /\ log[k] = LogEntry(k, log[k].signed, log[k].acceptedAt,
                               IF k = 1 THEN None ELSE log[k - 1].entry)
      BY DEF StoreInv, ChainInv
    <3>2. (IF k = 1 THEN None ELSE log[k - 1].entry) \in {None} \cup {log[j].entry : j \in DOMAIN log}
      BY <2>1
    <3> QED
      BY <2>1, <3>1, <3>2 DEF LogEntry
  <2>3. \A i \in DOMAIN authorization : i \in Ids /\ authorization[i].tx \in TxHashes \cup {None}
    BY DEF StoreInv, RecordsInv, RecordInv
  <2> QED
    BY <2>1, <2>2, <2>3 DEF TypeOK, Accepted, StoreInv, IntentsTyped
<1> QED
  BY <1>1, StoreInvHolds, PTL

\* No two accepted authorizations share a nonce or a client order identifier.
THEOREM ReservationsUnique == Spec => []ReservationsAreUnique
<1>1. StoreInv => ReservationsAreUnique
  BY DEF StoreInv
<1> QED
  BY <1>1, StoreInvHolds, PTL

\* The log is one contiguous hash chain that holds each authorization once.
THEOREM LogChained == Spec => []LogIsChained
<1>1. StoreInv => LogIsChained
  <2> SUFFICES ASSUME StoreInv PROVE LogIsChained
    OBVIOUS
  <2>1. DOMAIN log = 1..Len(log)
    BY DEF StoreInv, ChainInv
  <2> QED
    BY <2>1 DEF StoreInv, ChainInv, LogIsChained
<1> QED
  BY <1>1, StoreInvHolds, PTL

\* Records and log entries correspond one to one, and every record's intent is stored.
THEOREM AcceptedLogged == Spec => []AcceptedIsLogged
<1>1. StoreInv => AcceptedIsLogged
  <2> SUFFICES ASSUME StoreInv PROVE AcceptedIsLogged
    OBVIOUS
  <2>1. DOMAIN log = 1..Len(log)
    BY DEF StoreInv, ChainInv
  <2>2. ASSUME NEW i \in DOMAIN authorization
        PROVE  /\ Id[authorization[i].signed] = i
               /\ authorization[i].sequence \in DOMAIN log
               /\ Record(log[authorization[i].sequence]) = [authorization[i] EXCEPT !.tx = None]
               /\ intents[IntentId[i]] = IntentHash[i]
    <3> DEFINE n == authorization[i].sequence
    <3>1. RecordInv(i)
      BY DEF StoreInv, RecordsInv
    <3>2. authorization[i] = [Record(log[n]) EXCEPT !.tx = authorization[i].tx]
      BY <3>1 DEF RecordInv
    <3>3. authorization[i].signed = log[n].signed
      BY <3>2 DEF Record
    <3>4. authorization[i] = [signed |-> log[n].signed, sequence |-> log[n].sequence,
                              acceptedAt |-> log[n].acceptedAt, previous |-> log[n].previous,
                              tx |-> authorization[i].tx]
      BY <3>2 DEF Record
    <3>5. Record(log[n]) = [authorization[i] EXCEPT !.tx = None]
      BY <3>4 DEF Record
    <3> QED
      BY <2>1, <3>1, <3>3, <3>5 DEF RecordInv
  <2>3. \A k \in DOMAIN log : Accepted(Id[log[k].signed])
    BY <2>1 DEF StoreInv, ChainInv
  <2> QED
    BY <2>2, <2>3 DEF AcceptedIsLogged, Accepted
<1> QED
  BY <1>1, StoreInvHolds, PTL

\* The Merkle index holds exactly the complete subtrees of the log, each with the hash of
\* its own entries, and the next append finds every node it reads; at every checkpoint the
\* proof of every entry is created, and verifies for that entry at its position only.
IndexIsSound ==
  /\ Complete(Hashes, nodes)
  /\ ProofsHold(Hashes, nodes, {log[k].entry : k \in DOMAIN log})

\* Appending to the log keeps its Merkle index sound, whatever its length.
THEOREM IndexSound == Spec => []IndexIsSound
<1>1. StoreInv => IndexIsSound
  <2> SUFFICES ASSUME StoreInv PROVE IndexIsSound
    OBVIOUS
  <2> DEFINE hashes == Hashes
             claims == {log[k].entry : k \in DOMAIN log}
  <2>1. hashes \in Seq(claims) /\ Len(hashes) = Len(log)
    BY DEF StoreInv, ChainInv, Hashes
  <2>2. Subtrees(hashes, Len(hashes), nodes)
    BY <2>1 DEF StoreInv, NodesInv
  <2> HIDE DEF hashes, claims
  <2>3. Complete(hashes, nodes)
    BY <2>1, <2>2, TableComplete
  <2>4. ProofsHold(hashes, nodes, claims)
    BY <2>1, <2>2, TableProves
  <2> QED
    BY <2>3, <2>4 DEF IndexIsSound, hashes, claims
<1> QED
  BY <1>1, StoreInvHolds, PTL

\* The index of any log of entries holds exactly its complete subtrees, each with the hash
\* of its own entries, and the next append finds every node it reads.
THEOREM IndexComplete == IndexSpec => []IndexIsComplete
<1>1. IndexInv => IndexIsComplete
  BY TableComplete DEF IndexInv, IndexIsComplete
<1> QED
  BY <1>1, IndexInvHolds, PTL

\* At every checkpoint of any log, past or present, the proof of every entry is created,
\* commits to the root of that prefix, and verifies for that entry at that position only.
THEOREM ProofsVerified == IndexSpec => []ProofsVerify
<1>1. IndexInv => ProofsVerify
  BY TableProves DEF IndexInv, ProofsVerify
<1> QED
  BY <1>1, IndexInvHolds, PTL

\* The log only grows, stored nodes are never rewritten, and a record keeps its
\* acceptance and its first transaction.
THEOREM HistoryImmutable == Spec => HistoryIsImmutable
<1> DEFINE Kept == /\ IsPrefix(log, log')
                   /\ \A node \in DOMAIN nodes : node \in DOMAIN nodes' /\ nodes'[node] = nodes[node]
                   /\ \A i \in Ids : Accepted(i) =>
                        /\ Accepted(i)'
                        /\ \/ authorization'[i] = authorization[i]
                           \/ /\ authorization[i].tx = None
                              /\ [authorization'[i] EXCEPT !.tx = None] = authorization[i]
<1>1. StoreInv /\ [Next]_storeVars => [Kept]_storeVars
  <2> SUFFICES ASSUME StoreInv, Next PROVE Kept
    OBVIOUS
  <2>1. ASSUME NEW s \in Signed, NEW at \in Times, Accept(s, at) PROVE Kept
    <3>1. AcceptWrites(s, at)
      BY <2>1, AcceptEffect
    <3>2. IsPrefix(log, log')
      BY <3>1 DEF AcceptWrites, StoreInv, ChainInv, IsPrefix
    <3>3. \A node \in DOMAIN nodes : node \in DOMAIN nodes' /\ nodes'[node] = nodes[node]
      BY <2>1, <3>1, AcceptNodes
    <3>4. \A i \in DOMAIN authorization : i \in DOMAIN authorization' /\ authorization'[i] = authorization[i]
      BY <3>1 DEF AcceptWrites
    <3> QED
      BY <3>2, <3>3, <3>4 DEF Accepted
  <2>2. ASSUME NEW i \in Ids, SaveIntent(i) PROVE Kept
    BY <2>2 DEF SaveIntent, StoreInv, ChainInv, IsPrefix, Accepted
  <2>3. ASSUME NEW i \in Ids, NEW tx \in TxHashes, Bind(i, tx) PROVE Kept
    <3>1. BindWrites(i, tx)
      BY <2>3, BindEffect
    <3>2. [authorization'[i] EXCEPT !.tx = None] = authorization[i]
      BY <3>1 DEF BindWrites, Record
    <3>3. IsPrefix(log, log')
      BY <3>1 DEF BindWrites, StoreInv, ChainInv, IsPrefix
    <3>4. \A j \in DOMAIN authorization : j # i => authorization'[j] = authorization[j]
      BY <3>1 DEF BindWrites
    <3>5. nodes' = nodes /\ DOMAIN authorization' = DOMAIN authorization /\ authorization[i].tx = None
      BY <3>1 DEF BindWrites
    <3> QED
      BY <3>2, <3>3, <3>4, <3>5 DEF Accepted
  <2> QED
    BY <2>1, <2>2, <2>3 DEF Next
<1> QED
  BY <1>1, StoreInvHolds, PTL DEF Spec, HistoryIsImmutable

===============================================================================
