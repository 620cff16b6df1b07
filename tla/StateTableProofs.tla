-------------------------- MODULE StateTableProofs --------------------------
(***************************************************************************)
(* Proofs about the tables of module StateTable, of any size and after any *)
(* calls: a table holds what was put into it, its epochs are kept, what is *)
(* thrown out is the least recently used, and each loss is counted.  The   *)
(* same invariant is stated for each kind of table, Inv5, Inv9 and Inv3:   *)
(* its keys are there once and at home, in the order of their last uses.   *)
(***************************************************************************)
EXTENDS StateTable, FiniteSetTheorems, SequenceTheorems, WellFoundedInduction, TLAPS

-----------------------------------------------------------------------------
(* Numbers.                                                                *)
Less == {p \in Nat \X Nat : p[1] < p[2]}

LEMMA LessWF == IsWellFoundedOn(Less, Nat)
BY NatLessThanWellFounded, Zenon DEF OpToRel, Less

LEMMA LeastNat ==
    ASSUME NEW T \in SUBSET Nat, T # {}
    PROVE  \E x \in T : \A y \in T : x <= y
<1>1. PICK x \in T : \A y \in T : ~ (<<y, x>> \in Less)
    BY LessWF, WFMin
<1>2. ASSUME NEW y \in T PROVE x <= y
    <2>1. ~ (<<y, x>> \in Less)
        BY <1>1
    <2>2. x \in Nat /\ y \in Nat
        OBVIOUS
    <2>3. ~ (y < x)
        BY <2>1, <2>2 DEF Less
    <2> QED BY <2>2, <2>3
<1> QED BY <1>2

LEMMA DivMod ==
    ASSUME NEW e \in Nat, NEW p \in Nat, p > 0
    PROVE  e = p * (e \div p) + (e % p) /\ e % p \in Nat /\ e % p < p /\ e \div p \in Nat
OBVIOUS

LEMMA Mul ==
    ASSUME NEW x \in Int, NEW m \in Nat, x >= 1 PROVE x * m >= m
<1>1. PICK y : y = x - 1
    OBVIOUS
<1>2. y \in Nat /\ x * m = y * m + m
    BY <1>1
<1>3. y * m >= 0
    BY <1>2
<1> QED BY <1>2, <1>3

LEMMA Unique ==
    ASSUME NEW m \in Nat, NEW q \in Int, NEW u \in Int, NEW r \in Nat, NEW s \in Nat, r < m, s < m, q * m + r = u * m + s
    PROVE  r = s
<1>1. CASE q >= u + 1
    <2>1. (q - u) * m >= m
        BY <1>1, Mul
    <2>2. (q - u) * m = q * m - u * m
        OBVIOUS
    <2> QED BY <2>1, <2>2
<1>2. CASE u >= q + 1
    <2>1. (u - q) * m >= m
        BY <1>2, Mul
    <2>2. (u - q) * m = u * m - q * m
        OBVIOUS
    <2> QED BY <2>1, <2>2
<1>3. CASE u = q
    BY <1>3
<1> QED BY <1>1, <1>2, <1>3

LEMMA HalfStep ==
    ASSUME NEW e \in Nat, NEW p \in Nat, p > 0
    PROVE  e % (2 * p) = (e % p) + ((e \div p) % 2) * p
<1>1. PICK q : q = e \div p
    OBVIOUS
<1>2. PICK r : r = e % p
    OBVIOUS
<1>3. e = p * q + r /\ r \in Nat /\ r < p /\ q \in Nat
    BY <1>1, <1>2, DivMod
<1>4. PICK u : u = q \div 2
    OBVIOUS
<1>5. PICK v : v = q % 2
    OBVIOUS
<1>6. q = 2 * u + v /\ v \in {0, 1} /\ u \in Nat
    BY <1>3, <1>4, <1>5
<1>7. PICK s : s = r + v * p
    OBVIOUS
<1>8. s \in Nat /\ s < 2 * p
    BY <1>3, <1>6, <1>7
<1>9. e = u * (2 * p) + s
    <2>1. p * q = u * (2 * p) + v * p
          BY <1>3, <1>6
    <2>2. e = u * (2 * p) + v * p + r
        BY <1>3, <2>1
    <2>3. PICK a : a = u * (2 * p)
        OBVIOUS
    <2>4. PICK c : c = v * p
        OBVIOUS
    <2>5. a \in Int /\ c \in Int
        BY <1>3, <1>6, <2>3, <2>4
    <2>6. e = a + c + r /\ s = r + c
        BY <1>7, <2>2, <2>3, <2>4
    <2>7. e = a + s
        BY <1>3, <2>5, <2>6
    <2> QED BY <2>3, <2>7
<1>10. PICK w : w = e \div (2 * p)
    OBVIOUS
<1>11. PICK z : z = e % (2 * p)
    OBVIOUS
<1>12. e = (2 * p) * w + z /\ z \in Nat /\ z < 2 * p /\ w \in Nat
    BY <1>10, <1>11, DivMod
<1>13. u * (2 * p) + s = w * (2 * p) + z
    BY <1>9, <1>12
<1>14. s = z
    <2>1. PICK m : m = 2 * p
        OBVIOUS
    <2>2. m \in Nat /\ u * m + s = w * m + z /\ s < m /\ z < m
        BY <1>8, <1>12, <1>13, <2>1
    <2> QED BY <1>6, <1>8, <1>12, <2>2, Unique
<1> QED BY <1>1, <1>2, <1>5, <1>7, <1>11, <1>14

(* Values that follow from one another, the first from nothing. *)
Follows(step, f, n) == \A m \in 1 .. n : f[m] = step[<<m - 1, f[m - 1]>>]

(* They exist: the least n for which they do not would have them for n - 1. *)
LEMMA FollowingValues ==
    ASSUME NEW S, NEW first \in S, NEW top \in Nat, NEW step \in [Nat \X S -> S]
    PROVE  \E f \in [0 .. top -> S] : f[0] = first /\ Follows(step, f, top)
<1>1. PICK bad : bad = {m \in Nat : ~\E f \in [0 .. m -> S] : f[0] = first /\ Follows(step, f, m)}
    OBVIOUS
<1>2. CASE bad # {}
    <2>1. bad \in SUBSET Nat
        BY <1>1
    <2>2. PICK m \in bad : \A l \in bad : m <= l
        BY <1>2, <2>1, LeastNat
    <2>3. m \in Nat
        BY <2>1
    <2>4. CASE m = 0
        <3>1. PICK f : f = [l \in 0 .. 0 |-> first]
            OBVIOUS
        <3>2. f \in [0 .. 0 -> S] /\ f[0] = first /\ Follows(step, f, 0)
            BY <3>1 DEF Follows
        <3> QED BY <1>1, <2>4, <3>2
    <2>5. CASE m # 0
        <3>1. m - 1 \in Nat /\ m - 1 \notin bad
            BY <2>2, <2>3, <2>5
        <3>2. PICK f \in [0 .. m - 1 -> S] : f[0] = first /\ Follows(step, f, m - 1)
            BY <1>1, <3>1
        <3>3. PICK g : g = [l \in 0 .. m |-> IF l = m THEN step[<<m - 1, f[m - 1]>>] ELSE f[l]]
            OBVIOUS
        <3>4. f[m - 1] \in S /\ step[<<m - 1, f[m - 1]>>] \in S
            BY <3>1
        <3>5. g \in [0 .. m -> S] /\ g[0] = first /\ g[m] = step[<<m - 1, f[m - 1]>>]
            BY <2>3, <2>5, <3>2, <3>3, <3>4
        <3>6. \A l \in 0 .. m - 1 : g[l] = f[l]
            BY <2>3, <3>3
        <3>7. \A l \in 1 .. m : g[l] = step[<<l - 1, g[l - 1]>>]
            <4> TAKE l \in 1 .. m
            <4>1. CASE l = m
                <5>1. m - 1 \in 0 .. m - 1
                    BY <3>1
                <5>2. g[m - 1] = f[m - 1]
                    BY <3>6, <5>1
                <5>3. g[m] = step[<<m - 1, g[m - 1]>>]
                    BY <3>5, <5>2
                <5> QED BY <4>1, <5>3
            <4>2. CASE l # m
                <5>1. l \in 1 .. m - 1 /\ l \in 0 .. m - 1 /\ l - 1 \in 0 .. m - 1
                    BY <2>3, <4>2
                <5> QED BY <3>2, <3>6, <5>1 DEF Follows
            <4> QED BY <4>1, <4>2
        <3> QED BY <1>1, <3>5, <3>7 DEF Follows
    <2> QED BY <2>4, <2>5
<1>3. CASE bad = {}
    BY <1>1, <1>3
<1> QED BY <1>2, <1>3

-----------------------------------------------------------------------------
(* The epoch in the bits of a bucket (stringhash5).                        *)
Bits == 1 .. EpochBits

LEMMA Powers ==
    /\ EpochBits \in Nat /\ Depth \in Nat /\ EpochBits < Depth
    /\ SH5!TwoTo[0] = 1
    /\ \A n \in Bits : SH5!TwoTo[n] = 2 * SH5!TwoTo[n - 1]
    /\ \A n \in 0 .. EpochBits : SH5!TwoTo[n] \in Nat /\ SH5!TwoTo[n] > 0
<1>1. EpochBits \in Nat /\ Depth \in Nat /\ EpochBits < Depth
    BY TableAssumption
<1>2. PICK step : step = [p \in Nat \X Nat |-> 2 * p[2]]
    OBVIOUS
<1>3. step \in [Nat \X Nat -> Nat]
    BY <1>2
<1>4. PICK f \in [0 .. EpochBits -> Nat] : f[0] = 1 /\ Follows(step, f, EpochBits)
    BY <1>1, <1>3, FollowingValues
<1>5. f = [n \in 0 .. EpochBits |-> IF n = 0 THEN 1 ELSE 2 * f[n - 1]]
    <2>1. ASSUME NEW n \in 0 .. EpochBits, n # 0 PROVE f[n] = 2 * f[n - 1]
        <3>1. n \in 1 .. EpochBits /\ n - 1 \in Nat /\ n - 1 \in 0 .. EpochBits
            BY <1>1, <2>1
        <3>2. <<n - 1, f[n - 1]>> \in Nat \X Nat
            BY <3>1
        <3> QED BY <1>2, <1>4, <3>1, <3>2 DEF Follows
    <2> QED BY <1>4, <2>1
<1>6. SH5!TwoTo = [n \in 0 .. EpochBits |-> IF n = 0 THEN 1 ELSE 2 * SH5!TwoTo[n - 1]]
    BY <1>5 DEF SH5!TwoTo
<1>7. SH5!TwoTo[0] = 1 /\ \A n \in Bits : SH5!TwoTo[n] = 2 * SH5!TwoTo[n - 1]
    BY <1>1, <1>6 DEF Bits
<1>8. ASSUME NEW n \in 0 .. EpochBits PROVE SH5!TwoTo[n] \in Nat /\ SH5!TwoTo[n] > 0
    <2>1. PICK bad : bad = {m \in 0 .. EpochBits : ~(SH5!TwoTo[m] \in Nat /\ SH5!TwoTo[m] > 0)}
        OBVIOUS
    <2>2. CASE bad # {}
        <3>1. bad \in SUBSET Nat
            BY <2>1
        <3>2. PICK m \in bad : \A l \in bad : m <= l
            BY <2>2, <3>1, LeastNat
        <3>3. m \in 0 .. EpochBits /\ m # 0
            BY <1>7, <2>1
        <3>4. m \in Bits /\ m - 1 \in 0 .. EpochBits /\ m - 1 \notin bad
            BY <1>1, <3>2, <3>3 DEF Bits
        <3> QED BY <1>7, <2>1, <3>2, <3>4
    <2> QED BY <2>1, <2>2
<1> QED BY <1>1, <1>7, <1>8

(* Bits that are those of e spell e. *)
LEMMA BitsSpell ==
    ASSUME NEW b, NEW e \in Nat, e < SH5!Epochs,
           \A n \in Bits : b[SH5!Lender(n)].bit = SH5!EpochBit(e, n)
    PROVE  SH5!sh5_bucket_epoch(b) = e
<1> DEFINE low == CHOOSE f : f = [n \in 0 .. EpochBits |->
                      IF n = 0 THEN 0 ELSE f[n - 1] + b[SH5!Lender(n)].bit * SH5!TwoTo[n - 1]]
<1>1. SH5!sh5_bucket_epoch(b) = low[EpochBits]
    BY DEF SH5!sh5_bucket_epoch
<1>2. PICK g : g = [n \in 0 .. EpochBits |-> e % SH5!TwoTo[n]]
    OBVIOUS
<1>3. ASSUME NEW n \in Bits
      PROVE  g[n] = g[n - 1] + b[SH5!Lender(n)].bit * SH5!TwoTo[n - 1]
    <2>1. n - 1 \in 0 .. EpochBits /\ n \in 0 .. EpochBits
        BY Powers DEF Bits
    <2>2. SH5!TwoTo[n] = 2 * SH5!TwoTo[n - 1] /\ SH5!TwoTo[n - 1] \in Nat /\ SH5!TwoTo[n - 1] > 0
        BY <2>1, Powers
    <2>3. e % (2 * SH5!TwoTo[n - 1]) = (e % SH5!TwoTo[n - 1]) + ((e \div SH5!TwoTo[n - 1]) % 2) * SH5!TwoTo[n - 1]
        BY <2>2, HalfStep
    <2>4. b[SH5!Lender(n)].bit = (e \div SH5!TwoTo[n - 1]) % 2
        BY DEF SH5!EpochBit
    <2> QED BY <1>2, <2>1, <2>2, <2>3, <2>4
<1>4. g[0] = 0
    <2>1. SH5!TwoTo[0] = 1 /\ 0 \in 0 .. EpochBits
        BY Powers
    <2> QED BY <1>2, <2>1
<1>5. g = [n \in 0 .. EpochBits |-> IF n = 0 THEN 0 ELSE g[n - 1] + b[SH5!Lender(n)].bit * SH5!TwoTo[n - 1]]
    <2>1. ASSUME NEW n \in 0 .. EpochBits
          PROVE  g[n] = IF n = 0 THEN 0 ELSE g[n - 1] + b[SH5!Lender(n)].bit * SH5!TwoTo[n - 1]
        <3>1. CASE n = 0
            BY <1>4, <3>1
        <3>2. CASE n # 0
            <4>1. n \in Bits
                BY Powers, <3>2 DEF Bits
            <4> QED BY <1>3, <3>2, <4>1
        <3> QED BY <3>1, <3>2
    <2>2. g = [n \in 0 .. EpochBits |-> g[n]]
        BY <1>2
    <2> QED BY <2>1, <2>2, Zenon
<1>6. low = [n \in 0 .. EpochBits |-> IF n = 0 THEN 0 ELSE low[n - 1] + b[SH5!Lender(n)].bit * SH5!TwoTo[n - 1]]
    BY <1>5
<1> HIDE DEF low
<1>7. low[0] = 0 /\ \A n \in Bits : low[n] = low[n - 1] + b[SH5!Lender(n)].bit * SH5!TwoTo[n - 1]
    BY <1>6, Powers DEF Bits
<1>8. low[EpochBits] = g[EpochBits]
    <2>1. PICK bad : bad = {n \in 0 .. EpochBits : low[n] # g[n]}
        OBVIOUS
    <2>2. CASE bad # {}
        <3>1. bad \in SUBSET Nat
            BY <2>1
        <3>2. PICK m \in bad : \A l \in bad : m <= l
            BY <2>2, <3>1, LeastNat
        <3>3. m \in 0 .. EpochBits /\ m # 0
            BY <1>4, <1>7, <2>1
        <3>4. m \in Bits /\ m - 1 \in 0 .. EpochBits /\ m - 1 \notin bad
            BY Powers, <3>2, <3>3 DEF Bits
        <3> QED BY <1>3, <1>7, <2>1, <3>2, <3>4
    <2>3. EpochBits \in 0 .. EpochBits
        BY Powers
    <2> QED BY <2>1, <2>2, <2>3
<1>9. g[EpochBits] = e
    <2>1. EpochBits \in 0 .. EpochBits /\ SH5!TwoTo[EpochBits] \in Nat /\ e < SH5!TwoTo[EpochBits]
        BY Powers DEF SH5!Epochs
    <2>2. e % SH5!TwoTo[EpochBits] = e
        BY <2>1
    <2> QED BY <1>2, <2>1, <2>2
<1> QED BY <1>1, <1>8, <1>9
-----------------------------------------------------------------------------
(* One bucket (stringhash5): its words, the data d of its bins, its epoch. *)
KeysIn(b) == {b[i].digest : i \in 1 .. Depth} \ {NoKey}

Once(b) == \A i, j \in 1 .. Depth :
    b[i].digest = b[j].digest /\ b[i].digest # NoKey => i = j

Bins(b) == /\ \A i, j \in 1 .. Depth : b[i].bin = b[j].bin => i = j
           /\ \A n \in 1 .. Depth : \E i \in 1 .. Depth : b[i].bin = n

Filled(b, d) == \A i \in 1 .. Depth : b[i].digest # NoKey => d[b[i].bin] = b[i].digest

AtHome(b, h) == \A i \in 1 .. Depth :
    b[i].digest # NoKey => h \in {Home[b[i].digest][1], Home[b[i].digest][2]}

Spells(b, e) == \A n \in Bits : b[SH5!Lender(n)].bit = SH5!EpochBit(e, n)

\* A bucket's keys, the last used first.
InOrder(b, B) == \A i, j \in 1 .. Depth :
    i < j /\ b[i].digest # NoKey /\ b[j].digest # NoKey => <<b[j].digest, b[i].digest>> \in B

\* What D keeps of B, and says of a key that is used after all of K.
Keeps(K, B, D) == \A v, w \in K : <<v, w>> \in B => <<v, w>> \in D
Under(K, k, D) == \A v \in K : <<v, k>> \in D

Buckets == [1 .. Depth -> SH5!Word]

Sound(b, d, h) == b \in Buckets /\ Once(b) /\ Bins(b) /\ Filled(b, d) /\ AtHome(b, h)

\* The words of b in another order: word p[i] is now in place i.
Moved(b, c, p) == \A i \in 1 .. Depth : c[i].digest = b[p[i]].digest /\ c[i].bin = b[p[i]].bin
Permutes(p) == /\ p \in [1 .. Depth -> 1 .. Depth]
               /\ \A i, j \in 1 .. Depth : p[i] = p[j] => i = j
               /\ \A j \in 1 .. Depth : \E i \in 1 .. Depth : p[i] = j
ToFront(m) == [i \in 1 .. Depth |-> IF i = 1 THEN m ELSE IF i > m THEN i ELSE i - 1]
ToBack(m) == [i \in 1 .. Depth |-> IF i < m THEN i ELSE IF i = Depth THEN m ELSE i + 1]

LEMMA Sizes ==
    /\ Depth \in Nat /\ EpochBits \in Nat /\ 1 <= EpochBits /\ EpochBits < Depth
    /\ Rows \in Nat /\ Rows > 0 /\ EinsertMax \in Nat
    /\ NoKey \notin Keys /\ SH5!Epochs \in Nat /\ SH5!Epochs > 0
    /\ \A k \in Keys : Home[k][1] \in 1 .. Rows /\ Home[k][2] \in 1 .. Rows
<1>1. SH5!Epochs \in Nat /\ SH5!Epochs > 0
    BY Powers DEF SH5!Epochs
<1> QED BY <1>1, TableAssumption

LEMMA ToFrontPermutes == ASSUME NEW m \in 1 .. Depth PROVE Permutes(ToFront(m))
<1>1. Depth \in Nat
    BY Sizes
<1>2. ToFront(m) \in [1 .. Depth -> 1 .. Depth]
    BY <1>1 DEF ToFront
<1>3. \A i, j \in 1 .. Depth : ToFront(m)[i] = ToFront(m)[j] => i = j
    BY <1>1 DEF ToFront
<1>4. ASSUME NEW j \in 1 .. Depth PROVE \E i \in 1 .. Depth : ToFront(m)[i] = j
    <2>1. CASE j = m
        <3>1. 1 \in 1 .. Depth /\ ToFront(m)[1] = j
            BY <1>1, <2>1 DEF ToFront
        <3> QED BY <3>1
    <2>2. CASE j > m
        <3>1. ToFront(m)[j] = j
            BY <1>1, <2>2 DEF ToFront
        <3> QED BY <3>1
    <2>3. CASE j < m
        <3>1. j + 1 \in 1 .. Depth /\ ToFront(m)[j + 1] = j
            BY <1>1, <2>3 DEF ToFront
        <3> QED BY <3>1
    <2> QED BY <1>1, <2>1, <2>2, <2>3
<1> QED BY <1>2, <1>3, <1>4 DEF Permutes

LEMMA ToBackPermutes == ASSUME NEW m \in 1 .. Depth PROVE Permutes(ToBack(m))
<1>1. Depth \in Nat
    BY Sizes
<1>2. ToBack(m) \in [1 .. Depth -> 1 .. Depth]
    BY <1>1 DEF ToBack
<1>3. \A i, j \in 1 .. Depth : ToBack(m)[i] = ToBack(m)[j] => i = j
    BY <1>1 DEF ToBack
<1>4. ASSUME NEW j \in 1 .. Depth PROVE \E i \in 1 .. Depth : ToBack(m)[i] = j
    <2>1. CASE j = m
        <3>1. Depth \in 1 .. Depth /\ ToBack(m)[Depth] = j
            BY <1>1, <2>1 DEF ToBack
        <3> QED BY <3>1
    <2>2. CASE j < m
        <3>1. ToBack(m)[j] = j
            BY <1>1, <2>2 DEF ToBack
        <3> QED BY <3>1
    <2>3. CASE j > m
        <3>1. j - 1 \in 1 .. Depth /\ ToBack(m)[j - 1] = j
            BY <1>1, <2>3 DEF ToBack
        <3> QED BY <3>1
    <2> QED BY <1>1, <2>1, <2>2, <2>3
<1> QED BY <1>2, <1>3, <1>4 DEF Permutes

LEMMA MovedSound ==
    ASSUME NEW b, NEW c \in Buckets, NEW d, NEW h, NEW p, Permutes(p), Moved(b, c, p),
           Sound(b, d, h)
    PROVE  Sound(c, d, h) /\ KeysIn(c) = KeysIn(b)
<1>0. \A i \in 1 .. Depth : p[i] \in 1 .. Depth /\ c[i].digest = b[p[i]].digest /\ c[i].bin = b[p[i]].bin
    BY DEF Moved, Permutes
<1>1. Once(c)
    <2> SUFFICES ASSUME NEW i \in 1 .. Depth, NEW j \in 1 .. Depth,
                        c[i].digest = c[j].digest, c[i].digest # NoKey
                 PROVE  i = j
        BY DEF Once
    <2>1. b[p[i]].digest = b[p[j]].digest /\ b[p[i]].digest # NoKey
          /\ p[i] \in 1 .. Depth /\ p[j] \in 1 .. Depth
        BY <1>0
    <2>2. Once(b)
        BY DEF Sound
    <2>3. p[i] = p[j]
        BY <2>1, <2>2 DEF Once
    <2> QED BY <2>3 DEF Permutes
<1>2. Bins(c)
    <2>1. \A i, j \in 1 .. Depth : c[i].bin = c[j].bin => i = j
        <3> SUFFICES ASSUME NEW i \in 1 .. Depth, NEW j \in 1 .. Depth, c[i].bin = c[j].bin
                     PROVE  i = j
            OBVIOUS
        <3>1. b[p[i]].bin = b[p[j]].bin /\ p[i] \in 1 .. Depth /\ p[j] \in 1 .. Depth
            BY <1>0
        <3>2. Bins(b)
            BY DEF Sound
        <3>3. p[i] = p[j]
            BY <3>1, <3>2 DEF Bins
        <3> QED BY <3>3 DEF Permutes
    <2>2. ASSUME NEW n \in 1 .. Depth PROVE \E i \in 1 .. Depth : c[i].bin = n
        <3>1. PICK j \in 1 .. Depth : b[j].bin = n
            BY DEF Sound, Bins
        <3>2. PICK i \in 1 .. Depth : p[i] = j
            BY DEF Permutes
        <3> QED BY <3>1, <3>2 DEF Moved
    <2> QED BY <2>1, <2>2 DEF Bins
<1>3. Filled(c, d)
    BY <1>0 DEF Filled, Sound
<1>4. AtHome(c, h)
    <2> SUFFICES ASSUME NEW i \in 1 .. Depth, c[i].digest # NoKey
                 PROVE  h \in {Home[c[i].digest][1], Home[c[i].digest][2]}
        BY DEF AtHome
    <2>1. p[i] \in 1 .. Depth /\ c[i].digest = b[p[i]].digest
        BY <1>0
    <2>2. AtHome(b, h)
        BY DEF Sound
    <2> QED BY <2>1, <2>2 DEF AtHome
<1>5. ASSUME NEW k PROVE k \in KeysIn(c) <=> k \in KeysIn(b)
    <2>1. ASSUME k \in KeysIn(c) PROVE k \in KeysIn(b)
        <3>1. PICK i \in 1 .. Depth : c[i].digest = k /\ k # NoKey
            BY <2>1 DEF KeysIn
        <3>2. p[i] \in 1 .. Depth /\ b[p[i]].digest = k
            BY <3>1 DEF Moved, Permutes
        <3> QED BY <3>1, <3>2 DEF KeysIn
    <2>2. ASSUME k \in KeysIn(b) PROVE k \in KeysIn(c)
        <3>1. PICK j \in 1 .. Depth : b[j].digest = k /\ k # NoKey
            BY <2>2 DEF KeysIn
        <3>2. PICK i \in 1 .. Depth : p[i] = j
            BY DEF Permutes
        <3>3. c[i].digest = k
            BY <3>1, <3>2 DEF Moved
        <3> QED BY <3>1, <3>3 DEF KeysIn
    <2> QED BY <2>1, <2>2
<1> QED BY <1>1, <1>2, <1>3, <1>4, <1>5 DEF Sound

LEMMA MovedToFrontOrder ==
    ASSUME NEW b, NEW c, NEW m \in 1 .. Depth, Moved(b, c, ToFront(m)), Once(b),
           NEW B, NEW D, InOrder(b, B),
           Keeps(KeysIn(b) \ {b[m].digest}, B, D),
           b[m].digest # NoKey => Under(KeysIn(b) \ {b[m].digest}, b[m].digest, D)
    PROVE  InOrder(c, D)
<1> SUFFICES ASSUME NEW i \in 1 .. Depth, NEW j \in 1 .. Depth, i < j,
                    c[i].digest # NoKey, c[j].digest # NoKey
             PROVE  <<c[j].digest, c[i].digest>> \in D
    BY DEF InOrder
<1>1. Depth \in Nat
    BY Sizes
<1> DEFINE u == ToFront(m)[i]
           v == ToFront(m)[j]
<1>2. Permutes(ToFront(m))
    BY ToFrontPermutes
<1>3. u \in 1 .. Depth /\ v \in 1 .. Depth
    BY <1>2 DEF Permutes
<1>4. c[i].digest = b[u].digest /\ c[j].digest = b[v].digest
    BY DEF Moved
<1>5. v # m /\ (u # m => u < v)
    BY <1>1 DEF ToFront
<1> HIDE DEF u, v
<1>6. b[v].digest \in KeysIn(b) \ {b[m].digest}
    BY <1>3, <1>4, <1>5 DEF KeysIn, Once
<1>7. CASE u = m
    BY <1>4, <1>6, <1>7 DEF Under
<1>8. CASE u # m
    <2>1. u < v
        BY <1>5, <1>8
    <2>2. b[u].digest \in KeysIn(b) \ {b[m].digest}
        BY <1>3, <1>4, <1>8 DEF KeysIn, Once
    <2>3. <<b[v].digest, b[u].digest>> \in B
        BY <1>3, <1>4, <2>1 DEF InOrder
    <2> QED BY <1>4, <1>6, <2>2, <2>3 DEF Keeps
<1> QED BY <1>7, <1>8

LEMMA MovedToBackOrder ==
    ASSUME NEW b, NEW c, NEW m \in 1 .. Depth, Moved(b, c, ToBack(m)), b[m].digest = NoKey,
           NEW B, InOrder(b, B)
    PROVE  InOrder(c, B)
<1> SUFFICES ASSUME NEW i \in 1 .. Depth, NEW j \in 1 .. Depth, i < j,
                    c[i].digest # NoKey, c[j].digest # NoKey
             PROVE  <<c[j].digest, c[i].digest>> \in B
    BY DEF InOrder
<1>1. Depth \in Nat
    BY Sizes
<1> DEFINE u == ToBack(m)[i]
           v == ToBack(m)[j]
<1>2. Permutes(ToBack(m))
    BY ToBackPermutes
<1>3. u \in 1 .. Depth /\ v \in 1 .. Depth
    BY <1>2 DEF Permutes
<1>4. c[i].digest = b[u].digest /\ c[j].digest = b[v].digest
    BY DEF Moved
<1>5. u # m /\ v # m
    BY <1>4
<1>6. u < v
    BY <1>1, <1>5 DEF ToBack
<1> HIDE DEF u, v
<1> QED BY <1>3, <1>4, <1>6 DEF InOrder

(* The words that lend a bit are at the end, and there is one before them.  *)
LEMMA Lenders ==
    ASSUME NEW n \in Bits
    PROVE  /\ SH5!Lender(n) \in 1 .. Depth /\ SH5!Lender(n) > 1
           /\ SH5!HasBit(SH5!Lender(n))
           /\ SH5!Lender(n) - (Depth - EpochBits) = n
BY Sizes DEF Bits, SH5!Lender, SH5!HasBit

LEMMA BitOfEpoch == ASSUME NEW e \in Nat, NEW n \in Bits PROVE SH5!EpochBit(e, n) \in {0, 1}
<1>1. n - 1 \in 0 .. EpochBits
    BY Sizes DEF Bits
<1>2. PICK q : q = SH5!TwoTo[n - 1]
    OBVIOUS
<1>3. q \in Nat /\ q > 0
    BY <1>1, <1>2, Powers
<1>4. e \div q \in Nat
    BY <1>3
<1>5. (e \div q) % 2 \in {0, 1}
    BY <1>4
<1> QED BY <1>2, <1>5 DEF SH5!EpochBit

LEMMA BitsOfNothing == ASSUME NEW n \in Bits PROVE SH5!EpochBit(0, n) = 0
<1>1. n - 1 \in 0 .. EpochBits
    BY Sizes DEF Bits
<1>2. PICK q : q = SH5!TwoTo[n - 1]
    OBVIOUS
<1>3. q \in Nat /\ q > 0
    BY <1>1, <1>2, Powers
<1>4. (0 \div q) % 2 = 0
    BY <1>3
<1> QED BY <1>2, <1>4 DEF SH5!EpochBit

LEMMA WordParts ==
    ASSUME NEW b \in Buckets, NEW i \in 1 .. Depth
    PROVE  /\ b[i] \in SH5!Word /\ b[i].digest \in Keys \cup {NoKey}
           /\ b[i].bin \in 1 .. Depth /\ b[i].bit \in {0, 1}
BY DEF Buckets, SH5!Word

(* Word m is moved to the front: for a find, the bits of the epoch stay.   *)
LEMMA SortLru ==
    ASSUME NEW b \in Buckets, NEW m \in 1 .. Depth
    PROVE  /\ SH5!sh5_sort_lru(b, m) \in Buckets
           /\ Moved(b, SH5!sh5_sort_lru(b, m), ToFront(m))
           /\ \A n \in Bits : SH5!sh5_sort_lru(b, m)[SH5!Lender(n)].bit = b[SH5!Lender(n)].bit
<1> DEFINE c == SH5!sh5_sort_lru(b, m)
<1>1. Depth \in Nat
    BY Sizes
<1>2. c = [i \in 1 .. Depth |->
              CASE i = 1 -> b[m]
                [] i > m -> b[i]
                [] i \in 2 .. m -> IF SH5!HasBit(i) THEN [b[i - 1] EXCEPT !.bit = b[i].bit]
                                                  ELSE b[i - 1]]
    BY DEF SH5!sh5_sort_lru
<1> HIDE DEF c
<1>3. ASSUME NEW i \in 1 .. Depth
      PROVE  /\ c[i] \in SH5!Word
             /\ c[i].digest = b[ToFront(m)[i]].digest /\ c[i].bin = b[ToFront(m)[i]].bin
             /\ i > 1 /\ SH5!HasBit(i) => c[i].bit = b[i].bit
    <2>1. CASE i = 1
        <3>1. c[i] = b[m] /\ ToFront(m)[i] = m
            BY <1>1, <1>2, <2>1 DEF ToFront
        <3> QED BY <2>1, <3>1, WordParts
    <2>2. CASE i > m /\ i # 1
        <3>1. c[i] = b[i] /\ ToFront(m)[i] = i
            BY <1>1, <1>2, <2>2 DEF ToFront
        <3> QED BY <3>1, WordParts
    <2>3. CASE i <= m /\ i # 1
        <3>1. i \in 2 .. m /\ i - 1 \in 1 .. Depth /\ ~ (i > m)
            BY <1>1, <2>3
        <3>2. c[i] = (IF SH5!HasBit(i) THEN [b[i - 1] EXCEPT !.bit = b[i].bit] ELSE b[i - 1])
              /\ ToFront(m)[i] = i - 1
            BY <1>1, <1>2, <2>3, <3>1 DEF ToFront
        <3>3. b[i - 1] \in SH5!Word /\ b[i].bit \in {0, 1}
            BY <3>1, WordParts
        <3>4. CASE SH5!HasBit(i)
            <4>1. c[i] = [b[i - 1] EXCEPT !.bit = b[i].bit]
                BY <3>2, <3>4
            <4> QED BY <3>2, <3>3, <4>1 DEF SH5!Word
        <3>5. CASE ~SH5!HasBit(i)
            BY <3>2, <3>3, <3>5
        <3> QED BY <3>4, <3>5
    <2> QED BY <1>1, <2>1, <2>2, <2>3
<1>4. c \in Buckets
    <2>1. c = [i \in 1 .. Depth |-> c[i]]
        BY <1>2
    <2> QED BY <1>3, <2>1 DEF Buckets
<1>5. Moved(b, c, ToFront(m))
    BY <1>3 DEF Moved
<1>6. \A n \in Bits : c[SH5!Lender(n)].bit = b[SH5!Lender(n)].bit
    BY <1>3, Lenders
<1> QED BY <1>4, <1>5, <1>6 DEF c

(* For an insert they go along, and are written anew.                      *)
LEMMA SortNoepoch ==
    ASSUME NEW b \in Buckets, NEW m \in 1 .. Depth
    PROVE  /\ SH5!sh5_sort_lru_noepoch(b, m) \in Buckets
           /\ Moved(b, SH5!sh5_sort_lru_noepoch(b, m), ToFront(m))
<1> DEFINE c == SH5!sh5_sort_lru_noepoch(b, m)
<1>1. Depth \in Nat
    BY Sizes
<1>2. c = [i \in 1 .. Depth |->
              CASE i = 1 -> b[m] [] i > m -> b[i] [] i \in 2 .. m -> b[i - 1]]
    BY DEF SH5!sh5_sort_lru_noepoch
<1> HIDE DEF c
<1>3. ASSUME NEW i \in 1 .. Depth PROVE c[i] = b[ToFront(m)[i]] /\ ToFront(m)[i] \in 1 .. Depth
    <2>1. CASE i = 1
        BY <1>1, <1>2, <2>1 DEF ToFront
    <2>2. CASE i > m /\ i # 1
        BY <1>1, <1>2, <2>2 DEF ToFront
    <2>3. CASE i <= m /\ i # 1
        <3>1. i \in 2 .. m /\ i - 1 \in 1 .. Depth /\ ~ (i > m)
            BY <1>1, <2>3
        <3> QED BY <1>1, <1>2, <2>3, <3>1 DEF ToFront
    <2> QED BY <1>1, <2>1, <2>2, <2>3
<1>4. c \in Buckets
    <2>1. c = [i \in 1 .. Depth |-> c[i]]
        BY <1>2
    <2>2. \A i \in 1 .. Depth : c[i] \in SH5!Word
        BY <1>3, WordParts
    <2> QED BY <2>1, <2>2 DEF Buckets
<1>5. Moved(b, c, ToFront(m))
    BY <1>3 DEF Moved
<1> QED BY <1>4, <1>5 DEF c

(* The words of the keys in gone are freed where they are.                 *)
Cleared(b, gone) == [i \in 1 .. Depth |->
    IF b[i].digest \in gone THEN [b[i] EXCEPT !.digest = NoKey] ELSE b[i]]

LEMMA ClearedWord ==
    ASSUME NEW b \in Buckets, NEW gone, NEW i \in 1 .. Depth
    PROVE  /\ Cleared(b, gone)[i] \in SH5!Word
           /\ Cleared(b, gone)[i].digest = IF b[i].digest \in gone THEN NoKey ELSE b[i].digest
           /\ Cleared(b, gone)[i].bin = b[i].bin /\ Cleared(b, gone)[i].bit = b[i].bit
<1>1. b[i] \in SH5!Word
    BY WordParts
<1>2. Cleared(b, gone)[i] = IF b[i].digest \in gone THEN [b[i] EXCEPT !.digest = NoKey] ELSE b[i]
    BY DEF Cleared
<1> QED BY <1>1, <1>2 DEF SH5!Word

ClearedFacts(b, d, h, gone) ==
    /\ Sound(Cleared(b, gone), d, h)
    /\ KeysIn(Cleared(b, gone)) = KeysIn(b) \ gone
    /\ \A e : Spells(b, e) => Spells(Cleared(b, gone), e)
    /\ \A B, D : /\ InOrder(b, B)
                 /\ Keeps(KeysIn(b) \ gone, B, D)
                 => InOrder(Cleared(b, gone), D)

LEMMA ClearedSound ==
    ASSUME NEW b, NEW d, NEW h, NEW gone, Sound(b, d, h)
    PROVE  ClearedFacts(b, d, h, gone)
<1> DEFINE c == Cleared(b, gone)
<1>1. b \in Buckets
    BY DEF Sound
<1>2. \A i \in 1 .. Depth :
          /\ c[i] \in SH5!Word
          /\ c[i].digest = IF b[i].digest \in gone THEN NoKey ELSE b[i].digest
          /\ c[i].bin = b[i].bin /\ c[i].bit = b[i].bit
    BY <1>1, ClearedWord
<1>3. c = [i \in 1 .. Depth |-> c[i]]
    BY DEF Cleared
<1> HIDE DEF c
<1>4. c \in Buckets
    BY <1>2, <1>3 DEF Buckets
<1>5. Once(c)
    BY <1>2 DEF Sound, Once
<1>6. Bins(c)
    BY <1>2 DEF Sound, Bins
<1>7. Filled(c, d)
    BY <1>2 DEF Sound, Filled
<1>8. AtHome(c, h)
    <2>1. AtHome(b, h)
        BY DEF Sound
    <2> QED BY <1>2, <2>1 DEF AtHome
<1>9. KeysIn(c) = KeysIn(b) \ gone
    BY <1>2 DEF KeysIn
<1>10. ASSUME NEW e, Spells(b, e) PROVE Spells(c, e)
    BY <1>2, <1>10, Lenders DEF Spells
<1>11. ASSUME NEW B, NEW D, InOrder(b, B),
              Keeps(KeysIn(b) \ gone, B, D)
       PROVE  InOrder(c, D)
    <2> SUFFICES ASSUME NEW i \in 1 .. Depth, NEW j \in 1 .. Depth, i < j,
                        c[i].digest # NoKey, c[j].digest # NoKey
                 PROVE  <<c[j].digest, c[i].digest>> \in D
        BY DEF InOrder
    <2>1. /\ c[i].digest = b[i].digest /\ c[j].digest = b[j].digest
          /\ c[i].digest \in KeysIn(b) \ gone /\ c[j].digest \in KeysIn(b) \ gone
        BY <1>2 DEF KeysIn
    <2>2. <<b[j].digest, b[i].digest>> \in B
        BY <1>11, <2>1 DEF InOrder
    <2> QED BY <1>11, <2>1, <2>2 DEF Keeps
<1>12. Sound(c, d, h)
    BY <1>4, <1>5, <1>6, <1>7, <1>8 DEF Sound
<1> QED BY <1>9, <1>10, <1>11, <1>12 DEF c, ClearedFacts

(* A delete frees the word of a key and moves it to the end.               *)
LEMMA DeleteLru ==
    ASSUME NEW b, NEW d, NEW h, Sound(b, d, h), NEW m \in 1 .. Depth, b[m].digest # NoKey
    PROVE  /\ Sound(SH5!sh5_delete_lru(b, m), d, h)
           /\ KeysIn(SH5!sh5_delete_lru(b, m)) = KeysIn(b) \ {b[m].digest}
           /\ \A e : Spells(b, e) => Spells(SH5!sh5_delete_lru(b, m), e)
           /\ \A B, D : /\ InOrder(b, B)
                        /\ Keeps(KeysIn(b) \ {b[m].digest}, B, D)
                        => InOrder(SH5!sh5_delete_lru(b, m), D)
<1> DEFINE c == SH5!sh5_delete_lru(b, m)
           a == Cleared(b, {b[m].digest})
<1>1. Depth \in Nat /\ Depth \in 1 .. Depth
    BY Sizes
<1> DEFINE word(i) ==
             CASE i < m -> b[i]
               [] i = Depth -> [b[m] EXCEPT !.digest = NoKey, !.bit = b[Depth].bit]
               [] i \in m .. (Depth - 1) -> [b[i + 1] EXCEPT !.bit = b[i].bit]
<1>2. c = [i \in 1 .. Depth |-> word(i)]
    BY DEF SH5!sh5_delete_lru
<1>3. b \in Buckets /\ Once(b)
    BY DEF Sound
<1>4. \A i \in 1 .. Depth : /\ a[i].digest = IF i = m THEN NoKey ELSE b[i].digest
                            /\ a[i].bin = b[i].bin
    <2> SUFFICES ASSUME NEW i \in 1 .. Depth
                 PROVE  /\ a[i].digest = IF i = m THEN NoKey ELSE b[i].digest
                        /\ a[i].bin = b[i].bin
        OBVIOUS
    <2>1. /\ a[i].digest = IF b[i].digest = b[m].digest THEN NoKey ELSE b[i].digest
          /\ a[i].bin = b[i].bin
        BY <1>3, ClearedWord
    <2>2. b[i].digest = b[m].digest <=> i = m
        BY <1>3 DEF Once
    <2> QED BY <2>1, <2>2
<1> HIDE DEF c, a
<1>5. ASSUME NEW i \in 1 .. Depth
      PROVE  /\ c[i] \in SH5!Word /\ c[i].bit = b[i].bit
             /\ c[i].digest = a[ToBack(m)[i]].digest /\ c[i].bin = a[ToBack(m)[i]].bin
    <2>1. CASE i < m
        <3>1. c[i] = b[i] /\ ToBack(m)[i] = i
            BY <1>1, <1>2, <2>1 DEF ToBack
        <3> QED BY <1>1, <1>3, <1>4, <2>1, <3>1, WordParts
    <2>2. CASE i >= m /\ i = Depth
        <3>1. c[i] = [b[m] EXCEPT !.digest = NoKey, !.bit = b[Depth].bit] /\ ToBack(m)[i] = m
            BY <1>1, <1>2, <2>2 DEF ToBack
        <3>2. b[m] \in SH5!Word /\ b[Depth].bit \in {0, 1}
            BY <1>1, <1>3, WordParts
        <3> QED BY <1>4, <2>2, <3>1, <3>2 DEF SH5!Word
    <2>3. CASE i >= m /\ i # Depth
        <3>1. i \in m .. (Depth - 1) /\ i + 1 \in 1 .. Depth /\ ~ (i < m) /\ i + 1 # m
            BY <1>1, <2>3
        <3>2. c[i] = [b[i + 1] EXCEPT !.bit = b[i].bit] /\ ToBack(m)[i] = i + 1
            BY <1>1, <1>2, <2>3, <3>1 DEF ToBack
        <3>3. b[i + 1] \in SH5!Word /\ b[i].bit \in {0, 1}
            BY <1>3, <3>1, WordParts
        <3> QED BY <1>4, <3>1, <3>2, <3>3 DEF SH5!Word
    <2> QED BY <1>1, <2>1, <2>2, <2>3
<1>6. c \in Buckets
    <2>1. c = [i \in 1 .. Depth |-> c[i]]
        <3> HIDE DEF word
        <3> QED BY <1>2
    <2> QED BY <1>5, <2>1 DEF Buckets
<1>7. Moved(a, c, ToBack(m))
    BY <1>5 DEF Moved
<1>8. Sound(a, d, h) /\ KeysIn(a) = KeysIn(b) \ {b[m].digest}
    <2>1. ClearedFacts(b, d, h, {b[m].digest})
        BY ClearedSound
    <2> QED BY <2>1 DEF a, ClearedFacts
<1>9. Sound(c, d, h) /\ KeysIn(c) = KeysIn(a)
    BY <1>6, <1>7, <1>8, ToBackPermutes, MovedSound
<1>10. ASSUME NEW e, Spells(b, e) PROVE Spells(c, e)
    BY <1>5, <1>10, Lenders DEF Spells
<1>11. ASSUME NEW B, NEW D, InOrder(b, B),
              Keeps(KeysIn(b) \ {b[m].digest}, B, D)
       PROVE  InOrder(c, D)
    <2>1. ClearedFacts(b, d, h, {b[m].digest})
        BY ClearedSound
    <2>2. a[m].digest = NoKey
        BY <1>4
    <2>3. InOrder(a, D)
        BY <1>11, <2>1 DEF a, ClearedFacts
    <2> QED BY <1>7, <2>2, <2>3, MovedToBackOrder
<1> QED BY <1>8, <1>9, <1>10, <1>11 DEF c

(* An insert writes over the last word of a bucket and its data.           *)
Overwrites(b, d, k, f, g) == /\ f = [b EXCEPT ![Depth].digest = k]
                             /\ g = [d EXCEPT ![b[Depth].bin] = k]

LEMMA FilledBucket ==
    ASSUME NEW b, NEW d \in [1 .. Depth -> Keys \cup {NoKey}], NEW h, Sound(b, d, h),
           NEW k \in Keys, k \notin KeysIn(b), h \in {Home[k][1], Home[k][2]},
           NEW B, NEW D, InOrder(b, B),
           Keeps(KeysIn(b) \ {b[Depth].digest}, B, D), Under(KeysIn(b) \ {b[Depth].digest}, k, D),
           NEW f, NEW d2, Overwrites(b, d, k, f, d2),
           NEW c, c = SH5!sh5_sort_lru_noepoch(f, Depth)
    PROVE  /\ Sound(c, d2, h)
           /\ KeysIn(c) = (KeysIn(b) \ {b[Depth].digest}) \cup {k}
           /\ InOrder(c, D)
<1>1. Depth \in Nat /\ Depth \in 1 .. Depth /\ k # NoKey
    BY Sizes
<1>2. b \in Buckets /\ Once(b) /\ Bins(b) /\ Filled(b, d) /\ AtHome(b, h)
    BY DEF Sound
<1>3. ASSUME NEW i \in 1 .. Depth
      PROVE  /\ f[i] \in SH5!Word /\ f[i].bin = b[i].bin
             /\ f[i].digest = IF i = Depth THEN k ELSE b[i].digest
    <2>1. b[i] \in SH5!Word /\ b \in [1 .. Depth -> SH5!Word]
        BY <1>2 DEF Buckets
    <2>2. CASE i = Depth
        <3>1. f[i] = [b[i] EXCEPT !.digest = k]
            BY <2>1, <2>2 DEF Overwrites
        <3> QED BY <2>1, <2>2, <3>1 DEF SH5!Word
    <2>3. CASE i # Depth
        <3>1. f[i] = b[i]
            BY <2>1, <2>3 DEF Overwrites
        <3> QED BY <2>1, <2>3, <3>1
    <2> QED BY <2>2, <2>3
<1>4. f \in Buckets
    <2>1. f = [i \in 1 .. Depth |-> f[i]]
        BY <1>2 DEF Buckets, Overwrites
    <2> QED BY <1>3, <2>1 DEF Buckets
<1>5. /\ d2[b[Depth].bin] = k
      /\ \A n \in 1 .. Depth : n # b[Depth].bin => d2[n] = d[n]
    BY <1>1, <1>2, WordParts DEF Overwrites
<1>6. Sound(f, d2, h)
    <2>1. Once(f)
        BY <1>2, <1>3 DEF Once, KeysIn
    <2>2. Bins(f)
        BY <1>2, <1>3 DEF Bins
    <2>3. ASSUME NEW i \in 1 .. Depth, f[i].digest # NoKey
          PROVE  d2[f[i].bin] = f[i].digest
        <3>1. CASE i = Depth
            BY <1>3, <1>5, <3>1
        <3>2. CASE i # Depth
            <4>1. b[i].bin # b[Depth].bin
                BY <1>1, <1>2, <3>2 DEF Bins
            <4>2. b[i].bin \in 1 .. Depth
                BY <1>2, WordParts
            <4>3. f[i].digest = b[i].digest /\ f[i].bin = b[i].bin
                BY <1>3, <3>2
            <4>4. d[b[i].bin] = b[i].digest
                BY <1>2, <2>3, <4>3 DEF Filled
            <4> QED BY <1>5, <4>1, <4>2, <4>3, <4>4
        <3> QED BY <3>1, <3>2
    <2>4. AtHome(f, h)
        BY <1>2, <1>3 DEF AtHome
    <2> QED BY <1>4, <2>1, <2>2, <2>3, <2>4 DEF Sound, Filled
<1>7. KeysIn(f) = (KeysIn(b) \ {b[Depth].digest}) \cup {k}
    <2>1. ASSUME NEW v, v \in KeysIn(f) PROVE v \in (KeysIn(b) \ {b[Depth].digest}) \cup {k}
        <3>1. PICK i \in 1 .. Depth : f[i].digest = v /\ v # NoKey
            BY <2>1 DEF KeysIn
        <3>2. CASE i = Depth
            BY <1>3, <3>1, <3>2
        <3>3. CASE i # Depth
            BY <1>1, <1>2, <1>3, <3>1, <3>3 DEF KeysIn, Once
        <3> QED BY <3>2, <3>3
    <2>2. k \in KeysIn(f)
        BY <1>1, <1>3 DEF KeysIn
    <2>3. ASSUME NEW v, v \in KeysIn(b) \ {b[Depth].digest} PROVE v \in KeysIn(f)
        <3>1. PICK i \in 1 .. Depth : b[i].digest = v /\ v # NoKey
            BY <2>3 DEF KeysIn
        <3>2. f[i].digest = v
            BY <1>3, <2>3, <3>1
        <3> QED BY <3>1, <3>2 DEF KeysIn
    <2> QED BY <2>1, <2>2, <2>3
<1>8. c \in Buckets /\ Moved(f, c, ToFront(Depth))
    BY <1>1, <1>4, SortNoepoch
<1>9. Sound(c, d2, h) /\ KeysIn(c) = KeysIn(f)
    BY <1>1, <1>6, <1>8, ToFrontPermutes, MovedSound
<1>10. InOrder(c, D)
    <2> DEFINE A == B \cup ({k} \X KeysIn(b))
    <2>1. InOrder(f, A)
        <3> SUFFICES ASSUME NEW i \in 1 .. Depth, NEW j \in 1 .. Depth, i < j,
                            f[i].digest # NoKey, f[j].digest # NoKey
                     PROVE  <<f[j].digest, f[i].digest>> \in A
            BY DEF InOrder
        <3>1. f[i].digest = b[i].digest /\ b[i].digest \in KeysIn(b)
            BY <1>1, <1>3 DEF KeysIn
        <3>2. CASE j = Depth
            <4>1. f[j].digest = k
                BY <1>3, <3>2
            <4> QED BY <3>1, <4>1
        <3>3. CASE j # Depth
            <4>1. f[j].digest = b[j].digest
                BY <1>3, <3>3
            <4>2. <<b[j].digest, b[i].digest>> \in B
                BY <3>1, <4>1 DEF InOrder
            <4> QED BY <3>1, <4>1, <4>2
        <3> QED BY <3>2, <3>3
    <2>2. f[Depth].digest = k
        BY <1>1, <1>3
    <2>3. KeysIn(f) \ {f[Depth].digest} = KeysIn(b) \ {b[Depth].digest}
        BY <1>7, <2>2
    <2>4. Keeps(KeysIn(f) \ {f[Depth].digest}, A, D)
        BY <2>2, <2>3 DEF Keeps
    <2>5. Under(KeysIn(f) \ {f[Depth].digest}, f[Depth].digest, D)
        BY <2>2, <2>3 DEF Under
    <2>6. Once(f)
        BY <1>6 DEF Sound
    <2> HIDE DEF A
    <2> QED BY <1>1, <1>8, <2>1, <2>4, <2>5, <2>6, MovedToFrontOrder
<1> QED BY <1>7, <1>9, <1>10

(* Then the epoch is written in it.                                        *)
Stamped(c, e) == [i \in 1 .. Depth |->
    IF SH5!HasBit(i) THEN [c[i] EXCEPT !.bit = SH5!EpochBit(e, i - (Depth - EpochBits))]
                     ELSE c[i]]

LEMMA StampedBucket ==
    ASSUME NEW c, NEW d, NEW h, Sound(c, d, h), NEW e \in Nat, NEW a, a = Stamped(c, e)
    PROVE  /\ Sound(a, d, h) /\ KeysIn(a) = KeysIn(c) /\ Spells(a, e)
           /\ \A D : InOrder(c, D) => InOrder(a, D)
<1>1. c \in Buckets
    BY DEF Sound
<1>2. ASSUME NEW i \in 1 .. Depth
      PROVE  /\ a[i] \in SH5!Word /\ a[i].digest = c[i].digest /\ a[i].bin = c[i].bin
             /\ SH5!HasBit(i) => a[i].bit = SH5!EpochBit(e, i - (Depth - EpochBits))
    <2>1. c[i] \in SH5!Word
        BY <1>1, WordParts
    <2>2. a[i] = IF SH5!HasBit(i) THEN [c[i] EXCEPT !.bit = SH5!EpochBit(e, i - (Depth - EpochBits))]
                                  ELSE c[i]
        BY DEF Stamped
    <2>3. CASE SH5!HasBit(i)
        <3>1. i - (Depth - EpochBits) \in Bits
            BY <2>3, Sizes DEF SH5!HasBit, Bits
        <3>2. SH5!EpochBit(e, i - (Depth - EpochBits)) \in {0, 1}
            BY <3>1, BitOfEpoch
        <3>3. a[i] = [c[i] EXCEPT !.bit = SH5!EpochBit(e, i - (Depth - EpochBits))]
            BY <2>2, <2>3
        <3> QED BY <2>1, <3>2, <3>3 DEF SH5!Word
    <2>4. CASE ~SH5!HasBit(i)
        BY <2>1, <2>2, <2>4
    <2> QED BY <2>3, <2>4
<1>3. a \in Buckets
    <2>1. a = [i \in 1 .. Depth |-> a[i]]
        BY DEF Stamped
    <2> QED BY <1>2, <2>1 DEF Buckets
<1>4. Sound(a, d, h) /\ KeysIn(a) = KeysIn(c)
    <2> DEFINE p == [i \in 1 .. Depth |-> i]
    <2>1. Permutes(p)
        BY DEF Permutes
    <2>2. Moved(c, a, p)
        BY <1>2 DEF Moved
    <2> HIDE DEF p
    <2> QED BY <1>3, <2>1, <2>2, MovedSound
<1>5. Spells(a, e)
    <2> SUFFICES ASSUME NEW n \in Bits PROVE a[SH5!Lender(n)].bit = SH5!EpochBit(e, n)
        BY DEF Spells
    <2>1. PICK i \in 1 .. Depth : i = SH5!Lender(n) /\ SH5!HasBit(i) /\ i - (Depth - EpochBits) = n
        BY Lenders
    <2> QED BY <1>2, <2>1
<1>6. ASSUME NEW D, InOrder(c, D) PROVE InOrder(a, D)
    BY <1>2, <1>6 DEF InOrder
<1> QED BY <1>4, <1>5, <1>6

(* A bucket that nothing has been put into.                                *)
LEMMA EmptyBucket ==
    ASSUME NEW d, NEW h
    PROVE  /\ Sound(SH5!NewBucket, d, h) /\ KeysIn(SH5!NewBucket) = {}
           /\ Spells(SH5!NewBucket, 0) /\ \A D : InOrder(SH5!NewBucket, D)
<1> DEFINE b == SH5!NewBucket
<1>1. \A i \in 1 .. Depth : b[i].digest = NoKey /\ b[i].bin = i /\ b[i].bit = 0
    BY DEF SH5!NewBucket
<1>2. b \in Buckets
    BY DEF Buckets, SH5!NewBucket, SH5!Word
<1> HIDE DEF b
<1>3. Once(b) /\ Filled(b, d) /\ AtHome(b, h) /\ \A D : InOrder(b, D)
    BY <1>1 DEF Once, Filled, AtHome, InOrder
<1>4. Bins(b)
    BY <1>1 DEF Bins
<1>5. KeysIn(b) = {}
    BY <1>1 DEF KeysIn
<1>6. Spells(b, 0)
    BY <1>1, Lenders, BitsOfNothing DEF Spells
<1> QED BY <1>2, <1>3, <1>4, <1>5, <1>6 DEF b, Sound
-----------------------------------------------------------------------------
(* A table of stringhash5, x, beside the epochs s stamped on its buckets,  *)
(* the order B in which its keys were used and the set H of them.          *)
Tables5 == [buckets : [1 .. Rows -> Buckets], data : [1 .. Rows -> [1 .. Depth -> Keys \cup {NoKey}]],
            epoch : 0 .. (SH5!Epochs - 1), einserts : Nat]

Inv5(x, s, B, H) ==
    /\ x \in Tables5 /\ s \in [1 .. Rows -> 0 .. (SH5!Epochs - 1)]
    /\ \A h \in 1 .. Rows : Sound(x.buckets[h], x.data[h], h)
    /\ \A h \in 1 .. Rows : Spells(x.buckets[h], s[h])
    /\ \A h \in 1 .. Rows : InOrder(x.buckets[h], B)
    /\ \A h, g \in 1 .. Rows : h # g => KeysIn(x.buckets[h]) \cap KeysIn(x.buckets[g]) = {}
    /\ H = SH5!sh5_present(x)

\* The order after key k is used and those in gone are thrown out of H.
Later(B, H, k, gone) ==
    {p \in B : p[1] \notin gone \cup {k} /\ p[2] \notin gone \cup {k}}
        \cup {<<v, k>> : v \in H \ (gone \cup {k})}

LEMMA KeysAreKeys == ASSUME NEW b \in Buckets PROVE KeysIn(b) \subseteq Keys
BY WordParts DEF KeysIn

LEMMA PresentIs ==
    ASSUME NEW x \in Tables5, NEW k
    PROVE  k \in SH5!sh5_present(x) <=> \E h \in 1 .. Rows : k \in KeysIn(x.buckets[h])
<1>1. \A h \in 1 .. Rows : KeysIn(x.buckets[h]) \subseteq Keys
    BY KeysAreKeys DEF Tables5
<1>2. ASSUME k \in SH5!sh5_present(x) PROVE \E h \in 1 .. Rows : k \in KeysIn(x.buckets[h])
    BY <1>2, Sizes DEF SH5!sh5_present, KeysIn
<1>3. ASSUME NEW h \in 1 .. Rows, k \in KeysIn(x.buckets[h]) PROVE k \in SH5!sh5_present(x)
    BY <1>1, <1>3 DEF SH5!sh5_present, KeysIn
<1> QED BY <1>2, <1>3

LEMMA RowReplaced ==
    ASSUME NEW x, NEW s, NEW B, NEW H, Inv5(x, s, B, H), NEW h \in 1 .. Rows, NEW y \in Tables5,
           NEW b, NEW d, y.buckets = [x.buckets EXCEPT ![h] = b], y.data = [x.data EXCEPT ![h] = d],
           NEW e \in 0 .. (SH5!Epochs - 1), NEW D,
           Sound(b, d, h), Spells(b, e), InOrder(b, D),
           \A g \in 1 .. Rows : g # h => InOrder(x.buckets[g], D),
           \A g \in 1 .. Rows : g # h => KeysIn(b) \cap KeysIn(x.buckets[g]) = {}
    PROVE  Inv5(y, [s EXCEPT ![h] = e], D, (H \ KeysIn(x.buckets[h])) \cup KeysIn(b))
<1> DEFINE z == [s EXCEPT ![h] = e]
           G == (H \ KeysIn(x.buckets[h])) \cup KeysIn(b)
<1>1. x \in Tables5 /\ s \in [1 .. Rows -> 0 .. (SH5!Epochs - 1)]
    BY DEF Inv5
<1>2. z \in [1 .. Rows -> 0 .. (SH5!Epochs - 1)] /\ z[h] = e
      /\ \A g \in 1 .. Rows : g # h => z[g] = s[g]
    BY <1>1
<1>3. x.buckets \in [1 .. Rows -> Buckets] /\ x.data \in [1 .. Rows -> [1 .. Depth -> Keys \cup {NoKey}]]
    BY <1>1 DEF Tables5
<1>4. /\ y.buckets[h] = b /\ y.data[h] = d
      /\ \A g \in 1 .. Rows : g # h => y.buckets[g] = x.buckets[g] /\ y.data[g] = x.data[g]
    BY <1>3
<1> HIDE DEF z
<1>5. \A g \in 1 .. Rows : Sound(y.buckets[g], y.data[g], g)
    <2> TAKE g \in 1 .. Rows
    <2>1. Sound(x.buckets[g], x.data[g], g)
        BY DEF Inv5
    <2> QED BY <1>4, <2>1
<1>6. \A g \in 1 .. Rows : Spells(y.buckets[g], z[g])
    <2> TAKE g \in 1 .. Rows
    <2>1. Spells(x.buckets[g], s[g])
        BY DEF Inv5
    <2> QED BY <1>2, <1>4, <2>1
<1>7. \A g \in 1 .. Rows : InOrder(y.buckets[g], D)
    BY <1>4
<1>8. \A f, g \in 1 .. Rows : f # g => KeysIn(y.buckets[f]) \cap KeysIn(y.buckets[g]) = {}
    <2> SUFFICES ASSUME NEW f \in 1 .. Rows, NEW g \in 1 .. Rows, f # g
                 PROVE  KeysIn(y.buckets[f]) \cap KeysIn(y.buckets[g]) = {}
        OBVIOUS
    <2>1. KeysIn(x.buckets[f]) \cap KeysIn(x.buckets[g]) = {}
        BY DEF Inv5
    <2>2. CASE f = h
        <3>1. KeysIn(b) \cap KeysIn(x.buckets[g]) = {}
            BY <2>2
        <3> QED BY <1>4, <2>2, <3>1
    <2>3. CASE g = h
        <3>1. KeysIn(b) \cap KeysIn(x.buckets[f]) = {}
            BY <2>3
        <3> QED BY <1>4, <2>3, <3>1
    <2>4. CASE f # h /\ g # h
        BY <1>4, <2>1, <2>4
    <2> QED BY <2>2, <2>3, <2>4
<1>9. ASSUME NEW k PROVE k \in G <=> k \in SH5!sh5_present(y)
    <2>1. k \in H <=> \E g \in 1 .. Rows : k \in KeysIn(x.buckets[g])
        BY <1>1, PresentIs DEF Inv5
    <2>2. \A g \in 1 .. Rows : g # h => KeysIn(x.buckets[h]) \cap KeysIn(x.buckets[g]) = {}
        BY DEF Inv5
    <2>3. k \in SH5!sh5_present(y) <=> \E g \in 1 .. Rows : k \in KeysIn(y.buckets[g])
        BY PresentIs
    <2>4. ASSUME k \in G PROVE \E g \in 1 .. Rows : k \in KeysIn(y.buckets[g])
        <3>1. CASE k \in KeysIn(b)
            BY <1>4, <3>1
        <3>2. CASE k \in H /\ k \notin KeysIn(x.buckets[h])
            <4>1. PICK g \in 1 .. Rows : k \in KeysIn(x.buckets[g])
                BY <2>1, <3>2
            <4>2. g # h
                BY <3>2, <4>1
            <4> QED BY <1>4, <4>1, <4>2
        <3> QED BY <2>4, <3>1, <3>2
    <2>5. ASSUME NEW g \in 1 .. Rows, k \in KeysIn(y.buckets[g]) PROVE k \in G
        <3>1. CASE g = h
            BY <1>4, <2>5, <3>1
        <3>2. CASE g # h
            <4>1. k \in KeysIn(x.buckets[g])
                BY <1>4, <2>5, <3>2
            <4>2. k \in H /\ k \notin KeysIn(x.buckets[h])
                BY <2>1, <2>2, <3>2, <4>1
            <4> QED BY <4>2
        <3> QED BY <3>1, <3>2
    <2> QED BY <2>3, <2>4, <2>5
<1>10. G = SH5!sh5_present(y)
    BY <1>9
<1> QED BY <1>2, <1>5, <1>6, <1>7, <1>8, <1>10 DEF Inv5, z

(* A use of a key leaves the order of the others as it was.                *)
LEMMA LaterKeeps ==
    ASSUME NEW B, NEW H, NEW k, NEW gone, NEW K, K \cap (gone \cup {k}) = {}
    PROVE  /\ Keeps(K, B, Later(B, H, k, gone))
           /\ K \subseteq H => Under(K, k, Later(B, H, k, gone))
BY DEF Keeps, Under, Later

LEMMA OrderKept ==
    ASSUME NEW b, NEW B, NEW D, InOrder(b, B), Keeps(KeysIn(b), B, D)
    PROVE  InOrder(b, D)
BY DEF InOrder, Keeps, KeysIn

LEMMA KeysHeld ==
    ASSUME NEW x, NEW s, NEW B, NEW H, Inv5(x, s, B, H)
    PROVE  /\ H \subseteq Keys
           /\ \A h \in 1 .. Rows : KeysIn(x.buckets[h]) \subseteq H
           /\ \A k \in H : \E h \in 1 .. Rows : k \in KeysIn(x.buckets[h])
<1>1. x \in Tables5 /\ H = SH5!sh5_present(x)
    BY DEF Inv5
<1> QED BY <1>1, PresentIs DEF SH5!sh5_present

\* Where a key is found.
LEMMA FoundWhere ==
    ASSUME NEW x, NEW s, NEW B, NEW H, Inv5(x, s, B, H), NEW h \in 1 .. Rows, NEW i \in 1 .. Depth,
           NEW k \in Keys, x.buckets[h][i].digest = k
    PROVE  /\ SH5!sh5_where(x, k) = {h}
           /\ SH5!sh5_lookup_bucket(x.buckets[h], k) = {i} /\ SH5!FirstOf({i}) = i
           /\ x.data[h][x.buckets[h][i].bin] = k
<1>1. k # NoKey
    BY Sizes
<1>2. Sound(x.buckets[h], x.data[h], h)
    BY DEF Inv5
<1>3. SH5!sh5_lookup_bucket(x.buckets[h], k) = {i}
    BY <1>1, <1>2 DEF SH5!sh5_lookup_bucket, Sound, Once
<1>4. h \in {Home[k][1], Home[k][2]}
    BY <1>1, <1>2 DEF Sound, AtHome
<1>5. ASSUME NEW g \in 1 .. Rows, g # h PROVE SH5!sh5_lookup_bucket(x.buckets[g], k) = {}
    <2>1. k \in KeysIn(x.buckets[h])
        BY <1>1 DEF KeysIn
    <2>2. k \notin KeysIn(x.buckets[g])
        BY <1>5, <2>1 DEF Inv5
    <2> QED BY <1>1, <2>2 DEF KeysIn, SH5!sh5_lookup_bucket
<1>6. {g \in {Home[k][1], Home[k][2]} : SH5!sh5_lookup_bucket(x.buckets[g], k) # {}} = {h}
    <2>1. Home[k][1] \in 1 .. Rows /\ Home[k][2] \in 1 .. Rows
        BY Sizes
    <2> QED BY <1>3, <1>4, <1>5, <2>1
<1>7. SH5!sh5_where(x, k) = {h}
    BY <1>6 DEF SH5!sh5_where
<1>8. SH5!FirstOf({i}) = i
    BY DEF SH5!FirstOf
<1>9. x.data[h][x.buckets[h][i].bin] = k
    BY <1>1, <1>2 DEF Sound, Filled
<1> QED BY <1>3, <1>7, <1>8, <1>9

LEMMA FoundNowhere ==
    ASSUME NEW x, NEW s, NEW B, NEW H, Inv5(x, s, B, H), NEW k \in Keys, k \notin H
    PROVE  SH5!sh5_where(x, k) = {} /\ \A h \in 1 .. Rows : k \notin KeysIn(x.buckets[h])
<1>1. \A h \in 1 .. Rows : k \notin KeysIn(x.buckets[h])
    BY KeysHeld
<1>2. ASSUME NEW h \in 1 .. Rows PROVE SH5!sh5_lookup_bucket(x.buckets[h], k) = {}
    BY <1>1, Sizes DEF SH5!sh5_lookup_bucket, KeysIn
<1>3. {g \in {Home[k][1], Home[k][2]} : SH5!sh5_lookup_bucket(x.buckets[g], k) # {}} = {}
    BY <1>2, Sizes
<1> QED BY <1>1, <1>3 DEF SH5!sh5_where

-----------------------------------------------------------------------------
(* The calls of stringhash5 keep the invariant.                            *)
Now(H, k, gone) == (H \ (gone \cup {k})) \cup {k}
Gone(B, gone) == {p \in B : p[1] \notin gone /\ p[2] \notin gone}

LEMMA UsedAgain ==
    ASSUME NEW x, NEW s, NEW B, NEW H, Inv5(x, s, B, H), NEW h \in 1 .. Rows, NEW i \in 1 .. Depth,
           NEW y, y = [x EXCEPT !.buckets[h] = SH5!sh5_sort_lru(x.buckets[h], i)],
           NEW k, k = x.buckets[h][i].digest
    PROVE  /\ k = NoKey => Inv5(y, s, B, H)
           /\ k # NoKey => Inv5(y, s, Later(B, H, k, {}), Now(H, k, {}))
<1> DEFINE b == x.buckets[h]
           c == SH5!sh5_sort_lru(b, i)
<1>1. /\ x \in Tables5 /\ s \in [1 .. Rows -> 0 .. (SH5!Epochs - 1)]
      /\ Sound(b, x.data[h], h) /\ Spells(b, s[h]) /\ InOrder(b, B)
    BY DEF Inv5
<1>2. b \in Buckets /\ Once(b)
    BY <1>1 DEF Sound
<1> HIDE DEF b, c
<1>3. /\ c \in Buckets /\ Moved(b, c, ToFront(i))
      /\ \A n \in Bits : c[SH5!Lender(n)].bit = b[SH5!Lender(n)].bit
    BY <1>2, SortLru DEF c
<1>4. Sound(c, x.data[h], h) /\ KeysIn(c) = KeysIn(b)
    BY <1>1, <1>3, ToFrontPermutes, MovedSound
<1>5. Spells(c, s[h])
    BY <1>1, <1>3 DEF Spells
<1>6. /\ y \in Tables5 /\ y.buckets = [x.buckets EXCEPT ![h] = c]
      /\ y.data = [x.data EXCEPT ![h] = x.data[h]] /\ s = [s EXCEPT ![h] = s[h]]
      /\ s[h] \in 0 .. (SH5!Epochs - 1)
    <2>1. y = [x EXCEPT !.buckets = [x.buckets EXCEPT ![h] = c]]
        BY DEF b, c
    <2>2. [x.buckets EXCEPT ![h] = c] \in [1 .. Rows -> Buckets]
        BY <1>1, <1>3 DEF Tables5
    <2>3. x.data = [x.data EXCEPT ![h] = x.data[h]]
        BY <1>1 DEF Tables5
    <2>4. s = [s EXCEPT ![h] = s[h]] /\ s[h] \in 0 .. (SH5!Epochs - 1)
        BY <1>1
    <2>5. y \in Tables5 /\ y.buckets = [x.buckets EXCEPT ![h] = c] /\ y.data = x.data
        BY <1>1, <2>1, <2>2 DEF Tables5
    <2> QED BY <2>3, <2>4, <2>5
<1>7. \A g \in 1 .. Rows : g # h => KeysIn(c) \cap KeysIn(x.buckets[g]) = {}
    BY <1>4 DEF Inv5, b
<1>8. b[i].digest = k
    BY DEF b
<1>9. CASE k = NoKey
    <2>1. InOrder(c, B)
        <3>1. Keeps(KeysIn(b) \ {b[i].digest}, B, B)
            BY DEF Keeps
        <3> QED BY <1>1, <1>2, <1>3, <1>8, <1>9, <3>1, MovedToFrontOrder
    <2>2. \A g \in 1 .. Rows : InOrder(x.buckets[g], B)
        BY DEF Inv5
    <2>3. Inv5(y, [s EXCEPT ![h] = s[h]], B, (H \ KeysIn(x.buckets[h])) \cup KeysIn(c))
        BY <1>4, <1>5, <1>6, <1>7, <2>1, <2>2, RowReplaced
    <2>4. (H \ KeysIn(x.buckets[h])) \cup KeysIn(c) = H
        BY <1>4, KeysHeld DEF b
    <2> QED BY <1>6, <1>9, <2>3, <2>4
<1>10. CASE k # NoKey
    <2> DEFINE D == Later(B, H, k, {})
    <2>1. k \in KeysIn(b)
        BY <1>8, <1>10 DEF KeysIn
    <2>2. KeysIn(b) \subseteq H /\ \A g \in 1 .. Rows : KeysIn(x.buckets[g]) \subseteq H
        BY KeysHeld DEF b
    <2>3. Keeps(KeysIn(b) \ {k}, B, D) /\ Under(KeysIn(b) \ {k}, k, D)
        <3>1. (KeysIn(b) \ {k}) \cap ({} \cup {k}) = {} /\ KeysIn(b) \ {k} \subseteq H
            BY <2>2
        <3> QED BY <3>1, LaterKeeps
    <2>4. \A g \in 1 .. Rows : g # h => InOrder(x.buckets[g], D)
        <3> SUFFICES ASSUME NEW g \in 1 .. Rows, g # h PROVE InOrder(x.buckets[g], D)
            OBVIOUS
        <3>1. KeysIn(x.buckets[g]) \cap ({} \cup {k}) = {}
            BY <1>4, <1>7, <2>1
        <3>2. Keeps(KeysIn(x.buckets[g]), B, D)
            BY <3>1, LaterKeeps
        <3>3. InOrder(x.buckets[g], B)
            BY DEF Inv5
        <3> QED BY <3>2, <3>3, OrderKept
    <2> HIDE DEF D
    <2>5. InOrder(c, D)
        BY <1>1, <1>2, <1>3, <1>8, <2>3, MovedToFrontOrder
    <2>6. Inv5(y, [s EXCEPT ![h] = s[h]], D, (H \ KeysIn(x.buckets[h])) \cup KeysIn(c))
        BY <1>4, <1>5, <1>6, <1>7, <2>4, <2>5, RowReplaced
    <2>7. (H \ KeysIn(x.buckets[h])) \cup KeysIn(c) = Now(H, k, {})
        BY <1>4, <2>1, <2>2 DEF b, Now
    <2> QED BY <1>6, <1>10, <2>6, <2>7 DEF D
<1> QED BY <1>9, <1>10

(* The key in the last word of bucket h, if there is one: an insert there  *)
(* throws it out, and tells so.                                            *)
LastIn(x, h) == {x.buckets[h][Depth].digest} \ {NoKey}

(* An insert moves the clock, and stamps its bucket with it.               *)
LEMMA EpochSet ==
    ASSUME NEW z \in Tables5, NEW h \in 1 .. Rows, NEW over,
           over = (z.einserts + 1 > EinsertMax), NEW e,
           e = IF over THEN (z.epoch + 1) % SH5!Epochs ELSE z.epoch
    PROVE  SH5!sh5_set_epoch(z, h) =
               [buckets |-> [z.buckets EXCEPT ![h] = Stamped(z.buckets[h], e)], data |-> z.data,
                epoch |-> e, einserts |-> IF over THEN 0 ELSE z.einserts + 1]
<1>1. PICK a : a = Stamped(z.buckets[h], e)
    OBVIOUS
<1>2. SH5!sh5_set_epoch(z, h) =
          [z EXCEPT !.epoch = e, !.einserts = IF over THEN 0 ELSE z.einserts + 1, !.buckets[h] = a]
    BY <1>1 DEF SH5!sh5_set_epoch, Stamped
<1> QED BY <1>1, <1>2 DEF Tables5

LEMMA Inserted ==
    ASSUME NEW x, NEW s, NEW B, NEW H, Inv5(x, s, B, H), NEW k \in Keys, k \notin H,
           NEW h \in {Home[k][1], Home[k][2]}, NEW r, r = SH5!AttachAt(x, h, k)
    PROVE  /\ r.told = LastIn(x, h) /\ ~r.found /\ k \in KeysIn(r.t.buckets[h])
           /\ r.t.epoch \in 0 .. (SH5!Epochs - 1)
           /\ Inv5(r.t, [s EXCEPT ![h] = r.t.epoch], Later(B, H, k, LastIn(x, h)), Now(H, k, LastIn(x, h)))
           /\ r.dropped = IF \A i \in {1, 2} : SH5!sh5_depth(x.buckets[Home[k][i]]) = Depth THEN 1 ELSE 0
<1> DEFINE b == x.buckets[h]
           d == x.data[h]
           old == b[Depth]
           f == [b EXCEPT ![Depth].digest = k]
           c == SH5!sh5_sort_lru_noepoch(f, Depth)
           d2 == [d EXCEPT ![old.bin] = k]
           over == x.einserts + 1 > EinsertMax
           e == IF over THEN (x.epoch + 1) % SH5!Epochs ELSE x.epoch
           a == Stamped(c, e)
           y == [buckets |-> [x.buckets EXCEPT ![h] = a], data |-> [x.data EXCEPT ![h] = d2],
                 epoch |-> e, einserts |-> IF over THEN 0 ELSE x.einserts + 1]
           D == Later(B, H, k, LastIn(x, h))
<1>1. h \in 1 .. Rows
    BY Sizes
<1>2. /\ x \in Tables5 /\ s \in [1 .. Rows -> 0 .. (SH5!Epochs - 1)]
      /\ Sound(b, d, h) /\ InOrder(b, B) /\ d \in [1 .. Depth -> Keys \cup {NoKey}]
    BY <1>1 DEF Inv5, Tables5
<1>3. b \in Buckets /\ Filled(b, d) /\ Depth \in 1 .. Depth /\ k # NoKey
    BY <1>2, Sizes DEF Sound
<1>4. r.told = LastIn(x, h) /\ ~r.found
    <2>1. r.told = IF old.digest # NoKey THEN {d[old.bin]} ELSE {}
        BY DEF SH5!AttachAt, SH5!Result
    <2>2. old.digest # NoKey => d[old.bin] = old.digest
        BY <1>3 DEF Filled
    <2>3. ~r.found
        BY DEF SH5!AttachAt, SH5!Result
    <2> QED BY <2>1, <2>2, <2>3 DEF LastIn
<1>5. r.dropped = IF \A i \in {1, 2} : SH5!sh5_depth(x.buckets[Home[k][i]]) = Depth THEN 1 ELSE 0
    BY DEF SH5!AttachAt, SH5!Result
<1>6. e \in 0 .. (SH5!Epochs - 1) /\ (IF over THEN 0 ELSE x.einserts + 1) \in Nat
    <2>1. x.epoch \in 0 .. (SH5!Epochs - 1) /\ x.einserts \in Nat
        BY <1>2 DEF Tables5
    <2>2. (x.epoch + 1) % SH5!Epochs \in 0 .. (SH5!Epochs - 1)
        BY <2>1, Sizes
    <2> QED BY <2>1, <2>2
<1>7. r.t = y
    <2> DEFINE new == [x EXCEPT !.data[h][old.bin] = k, !.buckets[h] = c]
    <2>1. x.buckets \in [1 .. Rows -> Buckets] /\ x.data \in [1 .. Rows -> [1 .. Depth -> Keys \cup {NoKey}]]
        BY <1>2 DEF Tables5
    <2>2. r.t = SH5!sh5_set_epoch(new, h)
        BY DEF SH5!AttachAt, SH5!Result
    <2>3. c \in Buckets /\ d2 \in [1 .. Depth -> Keys \cup {NoKey}]
        <3>1. f \in Buckets
            <4>1. b[Depth] \in SH5!Word
                BY <1>3, WordParts
            <4>2. [b[Depth] EXCEPT !.digest = k] \in SH5!Word
                BY <4>1 DEF SH5!Word
            <4>3. f = [b EXCEPT ![Depth] = [b[Depth] EXCEPT !.digest = k]]
                OBVIOUS
            <4> HIDE DEF b, f
            <4> QED BY <1>3, <4>2, <4>3 DEF Buckets
        <3> HIDE DEF f
        <3>2. c \in Buckets
            BY <1>3, <3>1, SortNoepoch
        <3> QED BY <1>2, <3>2
    <2>4. new = [buckets |-> [x.buckets EXCEPT ![h] = c], data |-> [x.data EXCEPT ![h] = d2],
                 epoch |-> x.epoch, einserts |-> x.einserts]
        <3>1. PICK bb : bb = [x.buckets EXCEPT ![h] = c]
            OBVIOUS
        <3>2. PICK dd : dd = [x.data EXCEPT ![h] = d2]
            OBVIOUS
        <3>3. new = [x EXCEPT !.data = dd, !.buckets = bb]
            <4> HIDE DEF c
            <4> QED BY <1>2, <3>1, <3>2 DEF Tables5
        <3> HIDE DEF new
        <3>4. new \in [buckets : {bb}, data : {dd}, epoch : {x.epoch}, einserts : {x.einserts}]
            BY <1>2, <3>3 DEF Tables5
        <3>5. /\ new = [buckets |-> new.buckets, data |-> new.data, epoch |-> new.epoch, einserts |-> new.einserts]
              /\ new.buckets = bb /\ new.data = dd /\ new.epoch = x.epoch /\ new.einserts = x.einserts
            <4> HIDE DEF over, e, a, y, D, c, d2
            <4> QED BY <3>4
        <3> HIDE DEF c, d2
        <3> QED BY <3>1, <3>2, <3>5
    <2> HIDE DEF new, c, d2
    <2>5. new.buckets[h] = c /\ new.einserts = x.einserts /\ new.epoch = x.epoch
          /\ new.buckets = [x.buckets EXCEPT ![h] = c] /\ new.data = [x.data EXCEPT ![h] = d2]
        BY <1>1, <2>1, <2>4
    <2>6. new \in Tables5
        <3>1. [x.buckets EXCEPT ![h] = c] \in [1 .. Rows -> Buckets]
            BY <2>1, <2>3
        <3>2. [x.data EXCEPT ![h] = d2] \in [1 .. Rows -> [1 .. Depth -> Keys \cup {NoKey}]]
            BY <2>1, <2>3
        <3>3. x.epoch \in 0 .. (SH5!Epochs - 1) /\ x.einserts \in Nat
            BY <1>2 DEF Tables5
        <3> QED BY <2>4, <3>1, <3>2, <3>3 DEF Tables5
    <2>7. over = (new.einserts + 1 > EinsertMax) /\ e = IF over THEN (new.epoch + 1) % SH5!Epochs ELSE new.epoch
        BY <2>5
    <2> HIDE DEF e, over
    <2>8. SH5!sh5_set_epoch(new, h) =
               [buckets |-> [new.buckets EXCEPT ![h] = Stamped(new.buckets[h], e)], data |-> new.data,
                epoch |-> e, einserts |-> IF over THEN 0 ELSE new.einserts + 1]
        BY <1>1, <2>6, <2>7, EpochSet
    <2>9. [[x.buckets EXCEPT ![h] = c] EXCEPT ![h] = a] = [x.buckets EXCEPT ![h] = a]
        <3> HIDE DEF a
        <3> QED BY <1>1, <2>1
    <2>10. a = Stamped(new.buckets[h], e)
        BY <2>5
    <2> HIDE DEF a
    <2> QED BY <2>2, <2>5, <2>8, <2>9, <2>10
<1>8. k \notin KeysIn(b) /\ KeysIn(b) \subseteq H /\ KeysIn(b) \subseteq Keys
    BY <1>1, <1>3, KeysHeld, KeysAreKeys
<1>9. KeysIn(b) \ {old.digest} = KeysIn(b) \ LastIn(x, h)
    BY DEF LastIn, KeysIn
<1>10. Keeps(KeysIn(b) \ {old.digest}, B, D) /\ Under(KeysIn(b) \ {old.digest}, k, D)
    <2>1. (KeysIn(b) \ {old.digest}) \cap (LastIn(x, h) \cup {k}) = {} /\ KeysIn(b) \ {old.digest} \subseteq H
        BY <1>8, <1>9
    <2> HIDE DEF b, old
    <2> QED BY <2>1, LaterKeeps
<1>11. \A g \in 1 .. Rows : g # h => InOrder(x.buckets[g], D)
    <2> SUFFICES ASSUME NEW g \in 1 .. Rows, g # h PROVE InOrder(x.buckets[g], D)
        OBVIOUS
    <2>1. KeysIn(x.buckets[g]) \cap (LastIn(x, h) \cup {k}) = {}
        <3>1. LastIn(x, h) \subseteq KeysIn(b)
            BY <1>3 DEF LastIn, KeysIn
        <3>2. KeysIn(b) \cap KeysIn(x.buckets[g]) = {}
            BY <1>1 DEF Inv5
        <3>3. k \notin KeysIn(x.buckets[g])
            BY KeysHeld
        <3> QED BY <3>1, <3>2, <3>3
    <2>2. Keeps(KeysIn(x.buckets[g]), B, D)
        BY <2>1, LaterKeeps
    <2>3. InOrder(x.buckets[g], B)
        BY DEF Inv5
    <2> HIDE DEF D
    <2> QED BY <2>2, <2>3, OrderKept
<1> HIDE DEF D
<1>12. /\ Sound(c, d2, h) /\ KeysIn(c) = (KeysIn(b) \ {old.digest}) \cup {k}
       /\ InOrder(c, D)
    <2>1. c = SH5!sh5_sort_lru_noepoch(f, Depth) /\ old = b[Depth]
        OBVIOUS
    <2>2. Overwrites(b, d, k, f, d2)
        BY DEF Overwrites
    <2> HIDE DEF c, b, d, f, d2, old
    <2>3. Keeps(KeysIn(b) \ {b[Depth].digest}, B, D) /\ Under(KeysIn(b) \ {b[Depth].digest}, k, D)
        BY <1>10, <2>1
    <2>4. /\ Sound(c, d2, h) /\ KeysIn(c) = (KeysIn(b) \ {b[Depth].digest}) \cup {k}
          /\ InOrder(c, D)
        BY <1>2, <1>8, <2>1, <2>2, <2>3, FilledBucket
    <2> QED BY <2>1, <2>4
<1> HIDE DEF c, d2, e
<1>13. Sound(a, d2, h) /\ KeysIn(a) = KeysIn(c) /\ Spells(a, e) /\ InOrder(a, D)
    <2>1. e \in Nat /\ a = Stamped(c, e)
        BY <1>6
    <2> HIDE DEF a
    <2> QED BY <1>12, <2>1, StampedBucket
<1> HIDE DEF a
<1>14. y \in Tables5 /\ y.buckets = [x.buckets EXCEPT ![h] = a] /\ y.data = [x.data EXCEPT ![h] = d2]
    <2>1. a \in Buckets
        BY <1>13 DEF Sound
    <2>2. d2 \in [1 .. Depth -> Keys \cup {NoKey}]
        BY <1>2 DEF d2
    <2>3. [x.buckets EXCEPT ![h] = a] \in [1 .. Rows -> Buckets]
        BY <1>2, <2>1 DEF Tables5
    <2>4. [x.data EXCEPT ![h] = d2] \in [1 .. Rows -> [1 .. Depth -> Keys \cup {NoKey}]]
        BY <1>2, <2>2 DEF Tables5
    <2> HIDE DEF over
    <2> QED BY <1>6, <2>3, <2>4 DEF Tables5
<1>15. \A g \in 1 .. Rows : g # h => KeysIn(a) \cap KeysIn(x.buckets[g]) = {}
    <2> SUFFICES ASSUME NEW g \in 1 .. Rows, g # h PROVE KeysIn(a) \cap KeysIn(x.buckets[g]) = {}
        OBVIOUS
    <2>1. KeysIn(b) \cap KeysIn(x.buckets[g]) = {}
        BY <1>1 DEF Inv5
    <2>2. k \notin KeysIn(x.buckets[g])
        BY KeysHeld
    <2> QED BY <1>12, <1>13, <2>1, <2>2
<1>16. Inv5(y, [s EXCEPT ![h] = e], D, (H \ KeysIn(x.buckets[h])) \cup KeysIn(a))
    <2> HIDE DEF y
    <2> QED BY <1>1, <1>6, <1>11, <1>13, <1>14, <1>15, RowReplaced
<1>17. (H \ KeysIn(x.buckets[h])) \cup KeysIn(a) = Now(H, k, LastIn(x, h))
    <2>1. KeysIn(a) = (KeysIn(b) \ LastIn(x, h)) \cup {k}
        BY <1>9, <1>12, <1>13
    <2>2. LastIn(x, h) \subseteq KeysIn(b)
        BY <1>3 DEF LastIn, KeysIn
    <2> QED BY <1>8, <2>1, <2>2 DEF Now
<1>18. k \in KeysIn(r.t.buckets[h]) /\ r.t.epoch = e
    <2>1. r.t.buckets[h] = a
        BY <1>1, <1>2, <1>7, <1>14 DEF Tables5
    <2> QED BY <1>7, <1>12, <1>13, <2>1
<1> QED BY <1>4, <1>5, <1>6, <1>7, <1>16, <1>17, <1>18 DEF D

(* The keys in gone are taken out of bucket h, and nothing else changes.   *)
LEMMA TakenOut ==
    ASSUME NEW x, NEW s, NEW B, NEW H, Inv5(x, s, B, H), NEW h \in 1 .. Rows, NEW gone,
           NEW c, Sound(c, x.data[h], h), KeysIn(c) = KeysIn(x.buckets[h]) \ gone,
           gone \cap H \subseteq KeysIn(x.buckets[h]), Spells(c, s[h]), InOrder(c, Gone(B, gone)),
           NEW y, y = [x EXCEPT !.buckets[h] = c]
    PROVE  Inv5(y, s, Gone(B, gone), H \ gone)
<1>1. /\ x \in Tables5 /\ s \in [1 .. Rows -> 0 .. (SH5!Epochs - 1)]
    BY DEF Inv5
<1>2. c \in Buckets
    BY DEF Sound
<1>3. /\ y \in Tables5 /\ y.buckets = [x.buckets EXCEPT ![h] = c]
      /\ y.data = [x.data EXCEPT ![h] = x.data[h]] /\ s = [s EXCEPT ![h] = s[h]]
      /\ s[h] \in 0 .. (SH5!Epochs - 1)
    <2>1. y = [x EXCEPT !.buckets = [x.buckets EXCEPT ![h] = c]]
        OBVIOUS
    <2>2. [x.buckets EXCEPT ![h] = c] \in [1 .. Rows -> Buckets]
        BY <1>1, <1>2 DEF Tables5
    <2>3. x.data = [x.data EXCEPT ![h] = x.data[h]]
        BY <1>1 DEF Tables5
    <2>4. s = [s EXCEPT ![h] = s[h]] /\ s[h] \in 0 .. (SH5!Epochs - 1)
        BY <1>1
    <2>5. y \in Tables5 /\ y.buckets = [x.buckets EXCEPT ![h] = c] /\ y.data = x.data
        BY <1>1, <2>1, <2>2 DEF Tables5
    <2> QED BY <2>3, <2>4, <2>5
<1>4. \A g \in 1 .. Rows : g # h => KeysIn(c) \cap KeysIn(x.buckets[g]) = {}
    BY DEF Inv5
<1>5. \A g \in 1 .. Rows : g # h => InOrder(x.buckets[g], Gone(B, gone))
    <2> SUFFICES ASSUME NEW g \in 1 .. Rows, g # h PROVE InOrder(x.buckets[g], Gone(B, gone))
        OBVIOUS
    <2>1. KeysIn(x.buckets[g]) \subseteq H /\ KeysIn(x.buckets[g]) \cap KeysIn(x.buckets[h]) = {}
        BY KeysHeld DEF Inv5
    <2>2. Keeps(KeysIn(x.buckets[g]), B, Gone(B, gone))
        BY <2>1 DEF Keeps, Gone
    <2>3. InOrder(x.buckets[g], B)
        BY DEF Inv5
    <2> QED BY <2>2, <2>3, OrderKept
<1>6. Inv5(y, [s EXCEPT ![h] = s[h]], Gone(B, gone), (H \ KeysIn(x.buckets[h])) \cup KeysIn(c))
    BY <1>3, <1>4, <1>5, RowReplaced
<1>7. (H \ KeysIn(x.buckets[h])) \cup KeysIn(c) = H \ gone
    BY KeysHeld
<1> QED BY <1>3, <1>6, <1>7

LEMMA GoneKeeps == ASSUME NEW B, NEW K, NEW gone PROVE Keeps(K \ gone, B, Gone(B, gone))
BY DEF Keeps, Gone

LEMMA Deleted5 ==
    ASSUME NEW x, NEW s, NEW B, NEW H, Inv5(x, s, B, H), NEW k \in Keys
    PROVE  Inv5(SH5!stringhash5_delete(x, k).t, s, Gone(B, {k}), H \ {k})
<1>1. CASE k \notin H
    <2>1. SH5!sh5_where(x, k) = {}
        BY <1>1, FoundNowhere
    <2>2. SH5!stringhash5_delete(x, k).t = x
        BY <2>1 DEF SH5!stringhash5_delete, SH5!Result
    <2>3. \A h \in 1 .. Rows : InOrder(x.buckets[h], Gone(B, {k}))
        <3> TAKE h \in 1 .. Rows
        <3>1. KeysIn(x.buckets[h]) = KeysIn(x.buckets[h]) \ {k}
            BY <1>1, KeysHeld
        <3>2. Keeps(KeysIn(x.buckets[h]), B, Gone(B, {k}))
            BY <3>1, GoneKeeps
        <3>3. InOrder(x.buckets[h], B)
            BY DEF Inv5
        <3> QED BY <3>2, <3>3, OrderKept
    <2>4. H \ {k} = H
        BY <1>1
    <2> QED BY <2>2, <2>3, <2>4 DEF Inv5
<1>2. CASE k \in H
    <2>1. PICK h \in 1 .. Rows : k \in KeysIn(x.buckets[h])
        BY <1>2, KeysHeld
    <2>2. PICK i \in 1 .. Depth : x.buckets[h][i].digest = k
        BY <2>1 DEF KeysIn
    <2> DEFINE b == x.buckets[h]
               c == SH5!sh5_delete_lru(b, i)
    <2>3. SH5!sh5_where(x, k) = {h} /\ SH5!sh5_lookup_bucket(b, k) = {i} /\ SH5!FirstOf({i}) = i
        BY <2>2, FoundWhere
    <2>4. SH5!stringhash5_delete(x, k).t = [x EXCEPT !.buckets[h] = c]
        <3>1. (CHOOSE g \in {h} : TRUE) = h
            OBVIOUS
        <3> QED BY <2>3, <3>1 DEF SH5!stringhash5_delete, SH5!Result
    <2>5. Sound(b, x.data[h], h) /\ Spells(b, s[h]) /\ InOrder(b, B)
        BY DEF Inv5
    <2>6. b[i].digest = k /\ k # NoKey
        BY <2>2, Sizes
    <2>7. Keeps(KeysIn(b) \ {k}, B, Gone(B, {k}))
        BY GoneKeeps
    <2>8. {k} \cap H \subseteq KeysIn(b)
        BY <2>1
    <2> HIDE DEF b
    <2>9. /\ Sound(c, x.data[h], h) /\ KeysIn(c) = KeysIn(b) \ {b[i].digest}
          /\ \A e : Spells(b, e) => Spells(c, e)
          /\ \A D : InOrder(b, B) /\ Keeps(KeysIn(b) \ {b[i].digest}, B, D) => InOrder(c, D)
        BY <2>5, <2>6, DeleteLru
    <2>10. Sound(c, x.data[h], h) /\ KeysIn(c) = KeysIn(b) \ {k} /\ Spells(c, s[h]) /\ InOrder(c, Gone(B, {k}))
        BY <2>5, <2>6, <2>7, <2>9
    <2> HIDE DEF c
    <2>11. KeysIn(c) = KeysIn(x.buckets[h]) \ {k} /\ {k} \cap H \subseteq KeysIn(x.buckets[h])
        BY <2>8, <2>10 DEF b
    <2> QED BY <2>4, <2>10, <2>11, TakenOut
<1> QED BY <1>1, <1>2

LEMMA Walked5 ==
    ASSUME NEW x, NEW s, NEW B, NEW H, Inv5(x, s, B, H), NEW h \in 1 .. Rows,
           NEW gone, gone \subseteq KeysIn(x.buckets[h])
    PROVE  Inv5(SH5!stringhash5_walker_next(x, h, gone), s, Gone(B, gone), H \ gone)
<1> DEFINE b == x.buckets[h]
           c == Cleared(b, gone)
<1>1. SH5!stringhash5_walker_next(x, h, gone) = [x EXCEPT !.buckets[h] = c]
    BY DEF SH5!stringhash5_walker_next, Cleared
<1>2. Sound(b, x.data[h], h) /\ Spells(b, s[h]) /\ InOrder(b, B)
    BY DEF Inv5
<1>3. ClearedFacts(b, x.data[h], h, gone)
    BY <1>2, ClearedSound
<1>4. Keeps(KeysIn(b) \ gone, B, Gone(B, gone))
    BY GoneKeeps
<1>5. Sound(c, x.data[h], h) /\ KeysIn(c) = KeysIn(b) \ gone /\ Spells(c, s[h]) /\ InOrder(c, Gone(B, gone))
    BY <1>2, <1>3, <1>4 DEF ClearedFacts
<1> HIDE DEF c
<1>6. KeysIn(c) = KeysIn(x.buckets[h]) \ gone /\ gone \cap H \subseteq KeysIn(x.buckets[h])
    BY <1>5
<1> QED BY <1>1, <1>5, <1>6, TakenOut

LEMMA Empty5 ==
    ASSUME NEW x \in Tables5, x.buckets = [h \in 1 .. Rows |-> SH5!NewBucket]
    PROVE  Inv5(x, [h \in 1 .. Rows |-> 0], {}, {})
<1> DEFINE s == [h \in 1 .. Rows |-> 0]
<1>1. s \in [1 .. Rows -> 0 .. (SH5!Epochs - 1)] /\ \A h \in 1 .. Rows : s[h] = 0
    BY Sizes
<1>2. \A h \in 1 .. Rows : x.buckets[h] = SH5!NewBucket
    OBVIOUS
<1> HIDE DEF s
<1>3. \A h \in 1 .. Rows : Sound(x.buckets[h], x.data[h], h)
    BY <1>2, EmptyBucket
<1>4. \A h \in 1 .. Rows : Spells(x.buckets[h], s[h])
    BY <1>1, <1>2, EmptyBucket
<1>5. \A h \in 1 .. Rows : InOrder(x.buckets[h], {}) /\ KeysIn(x.buckets[h]) = {}
    BY <1>2, EmptyBucket
<1>6. SH5!sh5_present(x) = {}
    BY <1>5, PresentIs
<1> QED BY <1>1, <1>3, <1>4, <1>5, <1>6 DEF Inv5, s

LEMMA Created5 == Inv5(SH5!sh5_create, [h \in 1 .. Rows |-> 0], {}, {})
<1>1. SH5!NewBucket \in Buckets
    BY EmptyBucket DEF Sound
<1>2. 1 % SH5!Epochs \in 0 .. (SH5!Epochs - 1)
    BY Sizes
<1>3. SH5!sh5_create \in Tables5
    BY <1>1, <1>2 DEF SH5!sh5_create, Tables5
<1>4. SH5!sh5_create.buckets = [h \in 1 .. Rows |-> SH5!NewBucket]
    BY DEF SH5!sh5_create
<1> QED BY <1>3, <1>4, Empty5

LEMMA Flushed5 ==
    ASSUME NEW x \in Tables5
    PROVE  Inv5(SH5!stringhash5_flush(x), [h \in 1 .. Rows |-> 0], {}, {})
<1> DEFINE y == SH5!stringhash5_flush(x)
<1>1. SH5!NewBucket \in Buckets
    BY EmptyBucket DEF Sound
<1>2. PICK bb : bb = [h \in 1 .. Rows |-> SH5!NewBucket]
    OBVIOUS
<1>3. y = [x EXCEPT !.buckets = bb]
    BY <1>2 DEF SH5!stringhash5_flush
<1>4. bb \in [1 .. Rows -> Buckets]
    BY <1>1, <1>2
<1> HIDE DEF y
<1>5. y \in Tables5 /\ y.buckets = bb
    BY <1>3, <1>4 DEF Tables5
<1> QED BY <1>2, <1>5, Empty5 DEF y

LEMMA Reread5 ==
    ASSUME NEW x, NEW s, NEW B, NEW H, Inv5(x, s, B, H)
    PROVE  Inv5(SH5!stringhash5_read(SH5!stringhash5_dump(x)), s, B, H)
<1> DEFINE y == SH5!stringhash5_read(SH5!stringhash5_dump(x))
<1>1. /\ y = [buckets |-> x.buckets, data |-> x.data, epoch |-> x.epoch, einserts |-> 0]
      /\ x \in Tables5
    BY DEF Inv5, SH5!stringhash5_read, SH5!stringhash5_dump
<1> HIDE DEF y
<1>2. y \in Tables5 /\ y.buckets = x.buckets /\ y.data = x.data
    BY <1>1 DEF Tables5
<1>3. SH5!sh5_present(y) = SH5!sh5_present(x)
    BY <1>2 DEF SH5!sh5_present
<1>4. Inv5(y, s, B, H)
    BY <1>2, <1>3 DEF Inv5
<1> QED BY <1>4 DEF y

(* A bucket is as deep as can be when its last word is used: an insert     *)
(* goes to a bucket with a last word to throw out only if both are so.     *)
LEMMA DepthIs ==
    ASSUME NEW b \in Buckets
    PROVE  /\ SH5!sh5_depth(b) \in 0 .. Depth
           /\ SH5!sh5_depth(b) = Depth <=> b[Depth].digest # NoKey
<1> DEFINE used == {i \in 1 .. Depth : b[i].digest # NoKey}
<1>1. Depth \in Nat /\ Depth \in 1 .. Depth
    BY Sizes
<1>2. SH5!sh5_depth(b) = IF used = {} THEN 0 ELSE CHOOSE i \in used : \A j \in used : j <= i
    BY DEF SH5!sh5_depth
<1>3. CASE used = {}
    <2>1. SH5!sh5_depth(b) = 0
        BY <1>2, <1>3
    <2>2. b[Depth].digest = NoKey
        BY <1>1, <1>3
    <2> QED BY <1>1, <2>1, <2>2
<1>4. CASE used # {}
    <2>1. PICK T : T = {Depth - i : i \in used}
        OBVIOUS
    <2>2. T \in SUBSET Nat /\ T # {}
        BY <1>1, <1>4, <2>1
    <2>3. PICK v \in T : \A w \in T : v <= w
        BY <2>2, LeastNat
    <2>4. PICK m \in used : v = Depth - m
        BY <2>1
    <2>5. ASSUME NEW j \in used PROVE j <= m
        <3>1. Depth - j \in T
            BY <2>1
        <3>2. Depth - m <= Depth - j
            BY <2>3, <2>4, <3>1
        <3> QED BY <1>1, <3>2
    <2>6. \E i \in used : \A j \in used : j <= i
        BY <2>5
    <2>7. SH5!sh5_depth(b) \in used /\ \A j \in used : j <= SH5!sh5_depth(b)
        <3> HIDE DEF used
        <3> QED BY <1>2, <1>4, <2>6
    <2> QED BY <1>1, <2>7
<1> QED BY <1>3, <1>4

LEMMA BestBucket ==
    ASSUME NEW x, NEW s, NEW B, NEW H, Inv5(x, s, B, H), NEW k \in Keys
    PROVE  /\ SH5!sh5_find_best_bucket(x, k) \in {Home[k][1], Home[k][2]}
           /\ LastIn(x, SH5!sh5_find_best_bucket(x, k)) # {}
                  <=> \A i \in {1, 2} : SH5!sh5_depth(x.buckets[Home[k][i]]) = Depth
<1> DEFINE g == Home[k][1]
           h == Home[k][2]
           d == SH5!sh5_depth(x.buckets[g])
           e == SH5!sh5_depth(x.buckets[h])
           best == SH5!sh5_find_best_bucket(x, k)
<1>1. g \in 1 .. Rows /\ h \in 1 .. Rows /\ Depth \in Nat
    BY Sizes
<1>2. x.buckets[g] \in Buckets /\ x.buckets[h] \in Buckets
    BY <1>1 DEF Inv5, Tables5
<1>3. /\ d \in 0 .. Depth /\ (d = Depth <=> x.buckets[g][Depth].digest # NoKey)
      /\ e \in 0 .. Depth /\ (e = Depth <=> x.buckets[h][Depth].digest # NoKey)
    BY <1>2, DepthIs
<1>4. (\A i \in {1, 2} : SH5!sh5_depth(x.buckets[Home[k][i]]) = Depth) <=> d = Depth /\ e = Depth
    OBVIOUS
<1>5. \E older \in BOOLEAN : best = IF e < d \/ (d = e /\ d = Depth /\ older) THEN h ELSE g
    <2> DEFINE older == SH5!sh5_get_epoch(x, x.buckets[h]) > SH5!sh5_get_epoch(x, x.buckets[g])
    <2>1. best = IF e < d \/ (d = e /\ d = Depth /\ older) THEN h ELSE g
        BY DEF SH5!sh5_find_best_bucket
    <2> HIDE DEF older, best, d, e, g, h
    <2>2. CASE older
        <3>1. best = IF e < d \/ (d = e /\ d = Depth /\ TRUE) THEN h ELSE g
            BY <2>1, <2>2
        <3> QED BY <3>1
    <2>3. CASE ~older
        <3>1. best = IF e < d \/ (d = e /\ d = Depth /\ FALSE) THEN h ELSE g
            BY <2>1, <2>3
        <3> QED BY <3>1
    <2> QED BY <2>2, <2>3
<1> HIDE DEF best, d, e
<1>6. PICK older \in BOOLEAN : best = IF e < d \/ (d = e /\ d = Depth /\ older) THEN h ELSE g
    BY <1>5
<1>7. best \in {g, h}
    BY <1>6
<1>8. x.buckets[best][Depth].digest # NoKey <=> d = Depth /\ e = Depth
    BY <1>1, <1>3, <1>6
<1>9. LastIn(x, best) # {} <=> x.buckets[best][Depth].digest # NoKey
    BY DEF LastIn
<1> QED BY <1>4, <1>7, <1>8, <1>9 DEF best
-----------------------------------------------------------------------------
(* A table of stringhash9a: the slots of its buckets, most recent first.   *)
Size9 == SH9A!Lower + Upper
Lines == [1 .. Size9 -> Keys \cup {NoKey}]
Tables9 == [buckets : [1 .. Rows -> [slot : Lines, epoch : Nat]], epoch : Nat, insert_cnt : Nat]

KeysAt(l) == {l[i] : i \in 1 .. Size9} \ {NoKey}
Once9(l) == \A i, j \in 1 .. Size9 : l[i] = l[j] /\ l[i] # NoKey => i = j
AtHome9(l, h) == \A i \in 1 .. Size9 : l[i] # NoKey => h \in {Home[l[i]][1], Home[l[i]][2]}
\* Free slots are at the end.
Packed(l) == \A i, j \in 1 .. Size9 : i < j /\ l[i] = NoKey => l[j] = NoKey
InOrder9(l, B) == \A i, j \in 1 .. Size9 :
    i < j /\ l[i] # NoKey /\ l[j] # NoKey => <<l[j], l[i]>> \in B
Sound9(l, h) == l \in Lines /\ Once9(l) /\ AtHome9(l, h) /\ Packed(l)

Inv9(x, B, H) ==
    /\ x \in Tables9
    /\ \A h \in 1 .. Rows : Sound9(x.buckets[h].slot, h)
    /\ \A h \in 1 .. Rows : InOrder9(x.buckets[h].slot, B)
    /\ \A h, g \in 1 .. Rows :
           h # g => KeysAt(x.buckets[h].slot) \cap KeysAt(x.buckets[g].slot) = {}
    /\ H = SH9A!sh9a_present(x)

LEMMA Sizes9 ==
    /\ Size9 \in Nat /\ Size9 > 1 /\ SH9A!Slots = 1 .. Size9
    /\ Rows \in Nat /\ Rows > 0 /\ NoKey \notin Keys
    /\ EpochValues \in Nat /\ EpochValues > 0 /\ MaxInsertCnt \in Nat
    /\ \A k \in Keys : Home[k][1] \in 1 .. Rows /\ Home[k][2] \in 1 .. Rows
<1>1. /\ Upper \in Nat /\ Upper > 0 /\ Bytes \in Nat /\ Bytes > 0
      /\ EpochValues \in Nat /\ EpochValues > 0
    BY TableAssumption
<1>2. PICK n : n = Upper * Bytes
    OBVIOUS
<1>3. n \in Nat
    BY <1>1, <1>2
<1>4. SH9A!Lower = n + 1
    BY <1>2 DEF SH9A!Lower
<1>5. Size9 \in Nat /\ Size9 > 1
    BY <1>1, <1>3, <1>4 DEF Size9
<1>6. SH9A!Slots = 1 .. Size9
    BY DEF SH9A!Slots, Size9
<1> QED BY <1>1, <1>5, <1>6, TableAssumption

LEMMA SlotParts ==
    ASSUME NEW l \in Lines, NEW i \in 1 .. Size9
    PROVE  l[i] \in Keys \cup {NoKey} /\ (l[i] # NoKey => l[i] \in KeysAt(l) /\ l[i] \in Keys)
BY DEF Lines, KeysAt

\* Slot m is moved to the front.
Front9(l, m) == [i \in 1 .. Size9 |-> IF i = 1 THEN l[m] ELSE IF i > m THEN l[i] ELSE l[i - 1]]

LEMMA FrontSlots ==
    ASSUME NEW l, NEW h, Sound9(l, h), NEW m \in 1 .. Size9, l[m] # NoKey,
           NEW c, c = Front9(l, m), NEW B, NEW D, InOrder9(l, B),
           Keeps(KeysAt(l) \ {l[m]}, B, D), Under(KeysAt(l) \ {l[m]}, l[m], D)
    PROVE  Sound9(c, h) /\ KeysAt(c) = KeysAt(l) /\ InOrder9(c, D)
<1> DEFINE at(i) == IF i = 1 THEN m ELSE IF i > m THEN i ELSE i - 1
<1>1. Size9 \in Nat /\ Size9 > 1
    BY Sizes9
<1>2. l \in Lines /\ Once9(l) /\ AtHome9(l, h) /\ Packed(l)
    BY DEF Sound9
<1>3. \A i \in 1 .. Size9 : at(i) \in 1 .. Size9 /\ c[i] = l[at(i)]
    BY <1>1 DEF Front9
<1>4. \A i, j \in 1 .. Size9 : at(i) = at(j) => i = j
    BY <1>1
<1>5. \A i, j \in 1 .. Size9 : i < j => at(j) # m /\ at(j) # at(i) /\ (at(i) # m => at(i) < at(j))
    BY <1>1
<1>6. \A j \in 1 .. Size9 : \E i \in 1 .. Size9 : at(i) = j
    <2> SUFFICES ASSUME NEW j \in 1 .. Size9 PROVE \E i \in 1 .. Size9 : at(i) = j
        OBVIOUS
    <2>1. CASE j = m
        <3>1. 1 \in 1 .. Size9 /\ at(1) = j
            BY <1>1, <2>1
        <3> QED BY <3>1
    <2>2. CASE j > m
        <3>1. at(j) = j
            BY <1>1, <2>2
        <3> QED BY <3>1
    <2>3. CASE j < m
        <3>1. j + 1 \in 1 .. Size9 /\ at(j + 1) = j
            BY <1>1, <2>3
        <3> QED BY <3>1
    <2> QED BY <1>1, <2>1, <2>2, <2>3
<1>7. c \in Lines
    <2>1. c = [i \in 1 .. Size9 |-> c[i]]
        BY DEF Front9
    <2>2. \A i \in 1 .. Size9 : c[i] \in Keys \cup {NoKey}
        <3> HIDE DEF at
        <3> QED BY <1>2, <1>3, SlotParts
    <2> QED BY <2>1, <2>2 DEF Lines
<1> HIDE DEF at
<1>8. Once9(c)
    <2> SUFFICES ASSUME NEW i \in 1 .. Size9, NEW j \in 1 .. Size9, c[i] = c[j], c[i] # NoKey
                 PROVE  i = j
        BY DEF Once9
    <2>1. l[at(i)] = l[at(j)] /\ l[at(i)] # NoKey /\ at(i) \in 1 .. Size9 /\ at(j) \in 1 .. Size9
        BY <1>3
    <2>2. at(i) = at(j)
        BY <1>2, <2>1 DEF Once9
    <2> QED BY <1>4, <2>2
<1>9. AtHome9(c, h)
    <2> SUFFICES ASSUME NEW i \in 1 .. Size9, c[i] # NoKey
                 PROVE  h \in {Home[c[i]][1], Home[c[i]][2]}
        BY DEF AtHome9
    <2>1. at(i) \in 1 .. Size9 /\ c[i] = l[at(i)]
        BY <1>3
    <2> QED BY <1>2, <2>1 DEF AtHome9
<1>10. KeysAt(c) = KeysAt(l)
    <2>1. ASSUME NEW k, k \in KeysAt(c) PROVE k \in KeysAt(l)
        <3>1. PICK i \in 1 .. Size9 : c[i] = k /\ k # NoKey
            BY <2>1 DEF KeysAt
        <3>2. at(i) \in 1 .. Size9 /\ l[at(i)] = k
            BY <1>3, <3>1
        <3> QED BY <3>1, <3>2 DEF KeysAt
    <2>2. ASSUME NEW k, k \in KeysAt(l) PROVE k \in KeysAt(c)
        <3>1. PICK j \in 1 .. Size9 : l[j] = k /\ k # NoKey
            BY <2>2 DEF KeysAt
        <3>2. PICK i \in 1 .. Size9 : at(i) = j
            BY <1>6
        <3>3. c[i] = k
            BY <1>3, <3>1, <3>2
        <3> QED BY <3>1, <3>3 DEF KeysAt
    <2> QED BY <2>1, <2>2
<1>11. Packed(c)
    <2> SUFFICES ASSUME NEW i \in 1 .. Size9, NEW j \in 1 .. Size9, i < j, c[i] = NoKey
                 PROVE  c[j] = NoKey
        BY DEF Packed
    <2>1. /\ at(i) \in 1 .. Size9 /\ at(j) \in 1 .. Size9 /\ at(i) # m /\ at(i) < at(j)
          /\ l[at(i)] = NoKey /\ c[j] = l[at(j)]
        BY <1>3, <1>5
    <2> QED BY <1>2, <2>1 DEF Packed
<1>12. InOrder9(c, D)
    <2> SUFFICES ASSUME NEW i \in 1 .. Size9, NEW j \in 1 .. Size9, i < j, c[i] # NoKey, c[j] # NoKey
                 PROVE  <<c[j], c[i]>> \in D
        BY DEF InOrder9
    <2>1. PICK u \in 1 .. Size9, v \in 1 .. Size9 :
              u = at(i) /\ v = at(j) /\ c[i] = l[u] /\ c[j] = l[v]
        BY <1>3
    <2>2. v # m /\ (u # m => u < v)
        BY <1>5, <2>1
    <2>3. l[v] \in KeysAt(l) \ {l[m]}
        BY <1>2, <2>1, <2>2 DEF KeysAt, Once9
    <2>4. CASE u = m
        BY <2>1, <2>3, <2>4 DEF Under
    <2>5. CASE u # m
        <3>1. l[u] \in KeysAt(l) \ {l[m]}
            BY <1>2, <2>1, <2>5 DEF KeysAt, Once9
        <3>2. <<l[v], l[u]>> \in B
            BY <2>1, <2>2, <2>5 DEF InOrder9
        <3> QED BY <2>1, <2>3, <3>1, <3>2 DEF Keeps
    <2> QED BY <2>4, <2>5
<1> QED BY <1>7, <1>8, <1>9, <1>10, <1>11, <1>12 DEF Sound9

\* A key is put in front, and the last slot falls out.
Shift9(l, k) == [i \in 1 .. Size9 |-> IF i = 1 THEN k ELSE l[i - 1]]

LEMMA ShiftSlots ==
    ASSUME NEW l, NEW h, Sound9(l, h), NEW k \in Keys, k \notin KeysAt(l),
           h \in {Home[k][1], Home[k][2]},
           NEW c, c = Shift9(l, k), NEW B, NEW D, InOrder9(l, B),
           Keeps(KeysAt(l) \ {l[Size9]}, B, D), Under(KeysAt(l) \ {l[Size9]}, k, D)
    PROVE  Sound9(c, h) /\ KeysAt(c) = (KeysAt(l) \ {l[Size9]}) \cup {k} /\ InOrder9(c, D)
<1>1. Size9 \in Nat /\ Size9 > 1 /\ k # NoKey
    BY Sizes9
<1>2. l \in Lines /\ Once9(l) /\ AtHome9(l, h) /\ Packed(l)
    BY DEF Sound9
<1>3. /\ c[1] = k /\ 1 \in 1 .. Size9
      /\ \A i \in 1 .. Size9 : i # 1 => i - 1 \in 1 .. Size9 /\ i - 1 # Size9 /\ c[i] = l[i - 1]
    BY <1>1 DEF Shift9
<1>4. c \in Lines
    <2>1. c = [i \in 1 .. Size9 |-> c[i]]
        BY DEF Shift9
    <2>2. \A i \in 1 .. Size9 : c[i] \in Keys \cup {NoKey}
        BY <1>2, <1>3, SlotParts
    <2> QED BY <2>1, <2>2 DEF Lines
<1>5. \A i \in 1 .. Size9 : i # 1 => c[i] # k
    BY <1>1, <1>3 DEF KeysAt
<1>6. Once9(c)
    <2> SUFFICES ASSUME NEW i \in 1 .. Size9, NEW j \in 1 .. Size9, c[i] = c[j], c[i] # NoKey
                 PROVE  i = j
        BY DEF Once9
    <2>1. CASE i = 1 \/ j = 1
        BY <1>3, <1>5, <2>1
    <2>2. CASE i # 1 /\ j # 1
        <3>1. i - 1 = j - 1
            BY <1>2, <1>3, <2>2 DEF Once9
        <3> QED BY <3>1
    <2> QED BY <2>1, <2>2
<1>7. AtHome9(c, h)
    <2> SUFFICES ASSUME NEW i \in 1 .. Size9, c[i] # NoKey
                 PROVE  h \in {Home[c[i]][1], Home[c[i]][2]}
        BY DEF AtHome9
    <2>1. CASE i = 1
        BY <1>3, <2>1
    <2>2. CASE i # 1
        BY <1>2, <1>3, <2>2 DEF AtHome9
    <2> QED BY <2>1, <2>2
<1>8. Packed(c)
    <2> SUFFICES ASSUME NEW i \in 1 .. Size9, NEW j \in 1 .. Size9, i < j, c[i] = NoKey
                 PROVE  c[j] = NoKey
        BY DEF Packed
    <2>1. i # 1 /\ j # 1 /\ i - 1 < j - 1
        BY <1>1, <1>3
    <2> QED BY <1>2, <1>3, <2>1 DEF Packed
<1>9. KeysAt(c) = (KeysAt(l) \ {l[Size9]}) \cup {k}
    <2>1. ASSUME NEW v, v \in KeysAt(c) PROVE v \in (KeysAt(l) \ {l[Size9]}) \cup {k}
        <3>1. PICK i \in 1 .. Size9 : c[i] = v /\ v # NoKey
            BY <2>1 DEF KeysAt
        <3>2. CASE i = 1
            BY <1>3, <3>1, <3>2
        <3>3. CASE i # 1
            <4>1. i - 1 \in 1 .. Size9 /\ i - 1 # Size9 /\ l[i - 1] = v /\ Size9 \in 1 .. Size9
                BY <1>1, <1>3, <3>1, <3>3
            <4>2. v # l[Size9]
                BY <1>2, <3>1, <4>1 DEF Once9
            <4> QED BY <3>1, <4>1, <4>2 DEF KeysAt
        <3> QED BY <3>2, <3>3
    <2>2. k \in KeysAt(c)
        BY <1>1, <1>3 DEF KeysAt
    <2>3. ASSUME NEW v, v \in KeysAt(l) \ {l[Size9]} PROVE v \in KeysAt(c)
        <3>1. PICK i \in 1 .. Size9 : l[i] = v /\ v # NoKey
            BY <2>3 DEF KeysAt
        <3>2. i + 1 \in 1 .. Size9 /\ i + 1 # 1 /\ (i + 1) - 1 = i
            BY <1>1, <2>3, <3>1
        <3>3. c[i + 1] = v
            BY <1>3, <3>1, <3>2
        <3> QED BY <3>1, <3>2, <3>3 DEF KeysAt
    <2> QED BY <2>1, <2>2, <2>3
<1>10. InOrder9(c, D)
    <2> SUFFICES ASSUME NEW i \in 1 .. Size9, NEW j \in 1 .. Size9, i < j, c[i] # NoKey, c[j] # NoKey
                 PROVE  <<c[j], c[i]>> \in D
        BY DEF InOrder9
    <2>1. j # 1 /\ c[j] # k
        BY <1>1, <1>5
    <2>2. c[j] \in KeysAt(l) \ {l[Size9]}
        <3>1. c[j] \in KeysAt(c)
            BY DEF KeysAt
        <3> QED BY <1>9, <2>1, <3>1
    <2>3. CASE i = 1
        BY <1>3, <2>2, <2>3 DEF Under
    <2>4. CASE i # 1
        <3>1. c[i] \in KeysAt(l) \ {l[Size9]}
            <4>1. c[i] \in KeysAt(c) /\ c[i] # k
                BY <1>5, <2>4 DEF KeysAt
            <4> QED BY <1>9, <4>1
        <3>2. i - 1 < j - 1 /\ i - 1 \in 1 .. Size9 /\ j - 1 \in 1 .. Size9 /\ c[i] = l[i - 1] /\ c[j] = l[j - 1]
            BY <1>3, <2>1, <2>4
        <3>3. <<c[j], c[i]>> \in B
            BY <3>2 DEF InOrder9
        <3> QED BY <2>2, <3>1, <3>3 DEF Keeps
    <2> QED BY <2>3, <2>4
<1> QED BY <1>4, <1>6, <1>7, <1>8, <1>9, <1>10 DEF Sound9

LEMMA PresentIs9 ==
    ASSUME NEW x \in Tables9, NEW k
    PROVE  k \in SH9A!sh9a_present(x) <=> \E h \in 1 .. Rows : k \in KeysAt(x.buckets[h].slot)
<1>1. \A h \in 1 .. Rows : x.buckets[h].slot \in Lines
    BY DEF Tables9
<1>2. ASSUME k \in SH9A!sh9a_present(x) PROVE \E h \in 1 .. Rows : k \in KeysAt(x.buckets[h].slot)
    BY <1>2, Sizes9 DEF SH9A!sh9a_present, KeysAt
<1>3. ASSUME NEW h \in 1 .. Rows, k \in KeysAt(x.buckets[h].slot) PROVE k \in SH9A!sh9a_present(x)
    <2>1. PICK i \in 1 .. Size9 : x.buckets[h].slot[i] = k /\ k # NoKey
        BY <1>3 DEF KeysAt
    <2>2. k \in Keys
        BY <1>1, <2>1, SlotParts
    <2> QED BY <2>1, <2>2, Sizes9 DEF SH9A!sh9a_present
<1> QED BY <1>2, <1>3

LEMMA KeysHeld9 ==
    ASSUME NEW x, NEW B, NEW H, Inv9(x, B, H)
    PROVE  /\ H \subseteq Keys
           /\ \A h \in 1 .. Rows : KeysAt(x.buckets[h].slot) \subseteq H
           /\ \A k \in H : \E h \in 1 .. Rows : k \in KeysAt(x.buckets[h].slot)
<1>1. x \in Tables9 /\ H = SH9A!sh9a_present(x)
    BY DEF Inv9
<1> QED BY <1>1, PresentIs9 DEF SH9A!sh9a_present

LEMMA OrderKept9 ==
    ASSUME NEW l, NEW B, NEW D, InOrder9(l, B), Keeps(KeysAt(l), B, D)
    PROVE  InOrder9(l, D)
BY DEF InOrder9, Keeps, KeysAt

LEMMA RowReplaced9 ==
    ASSUME NEW x, NEW B, NEW H, Inv9(x, B, H), NEW h \in 1 .. Rows, NEW y \in Tables9,
           NEW l, y.buckets[h].slot = l,
           \A g \in 1 .. Rows : g # h => y.buckets[g] = x.buckets[g],
           NEW D, Sound9(l, h), InOrder9(l, D),
           \A g \in 1 .. Rows : g # h => InOrder9(x.buckets[g].slot, D),
           \A g \in 1 .. Rows : g # h => KeysAt(l) \cap KeysAt(x.buckets[g].slot) = {}
    PROVE  Inv9(y, D, (H \ KeysAt(x.buckets[h].slot)) \cup KeysAt(l))
<1> DEFINE G == (H \ KeysAt(x.buckets[h].slot)) \cup KeysAt(l)
<1>1. x \in Tables9
    BY DEF Inv9
<1>2. \A g \in 1 .. Rows : Sound9(y.buckets[g].slot, g)
    <2> TAKE g \in 1 .. Rows
    <2>1. Sound9(x.buckets[g].slot, g)
        BY DEF Inv9
    <2> QED BY <2>1
<1>3. \A g \in 1 .. Rows : InOrder9(y.buckets[g].slot, D)
    OBVIOUS
<1>4. \A f, g \in 1 .. Rows : f # g => KeysAt(y.buckets[f].slot) \cap KeysAt(y.buckets[g].slot) = {}
    <2> SUFFICES ASSUME NEW f \in 1 .. Rows, NEW g \in 1 .. Rows, f # g
                 PROVE  KeysAt(y.buckets[f].slot) \cap KeysAt(y.buckets[g].slot) = {}
        OBVIOUS
    <2>1. KeysAt(x.buckets[f].slot) \cap KeysAt(x.buckets[g].slot) = {}
        BY DEF Inv9
    <2>2. CASE f = h
        <3>1. KeysAt(l) \cap KeysAt(x.buckets[g].slot) = {}
            BY <2>2
        <3> QED BY <2>2, <3>1
    <2>3. CASE g = h
        <3>1. KeysAt(l) \cap KeysAt(x.buckets[f].slot) = {}
            BY <2>3
        <3> QED BY <2>3, <3>1
    <2>4. CASE f # h /\ g # h
        BY <2>1, <2>4
    <2> QED BY <2>2, <2>3, <2>4
<1>5. ASSUME NEW k PROVE k \in G <=> k \in SH9A!sh9a_present(y)
    <2>1. k \in H <=> \E g \in 1 .. Rows : k \in KeysAt(x.buckets[g].slot)
        BY <1>1, PresentIs9 DEF Inv9
    <2>2. \A g \in 1 .. Rows : g # h => KeysAt(x.buckets[h].slot) \cap KeysAt(x.buckets[g].slot) = {}
        BY DEF Inv9
    <2>3. k \in SH9A!sh9a_present(y) <=> \E g \in 1 .. Rows : k \in KeysAt(y.buckets[g].slot)
        BY PresentIs9
    <2>4. ASSUME k \in G PROVE \E g \in 1 .. Rows : k \in KeysAt(y.buckets[g].slot)
        <3>1. CASE k \in KeysAt(l)
            BY <3>1
        <3>2. CASE k \in H /\ k \notin KeysAt(x.buckets[h].slot)
            <4>1. PICK g \in 1 .. Rows : k \in KeysAt(x.buckets[g].slot)
                BY <2>1, <3>2
            <4>2. g # h
                BY <3>2, <4>1
            <4> QED BY <4>1, <4>2
        <3> QED BY <2>4, <3>1, <3>2
    <2>5. ASSUME NEW g \in 1 .. Rows, k \in KeysAt(y.buckets[g].slot) PROVE k \in G
        <3>1. CASE g = h
            BY <2>5, <3>1
        <3>2. CASE g # h
            <4>1. k \in KeysAt(x.buckets[g].slot)
                BY <2>5, <3>2
            <4>2. k \in H /\ k \notin KeysAt(x.buckets[h].slot)
                BY <2>1, <2>2, <3>2, <4>1
            <4> QED BY <4>2
        <3> QED BY <3>1, <3>2
    <2> QED BY <2>3, <2>4, <2>5
<1>6. G = SH9A!sh9a_present(y)
    BY <1>5
<1> QED BY <1>2, <1>3, <1>4, <1>6 DEF Inv9

LEMMA FoundWhere9 ==
    ASSUME NEW x, NEW B, NEW H, Inv9(x, B, H), NEW h \in 1 .. Rows, NEW i \in 1 .. Size9,
           NEW k \in Keys, x.buckets[h].slot[i] = k
    PROVE  /\ SH9A!sh9a_where(x, k) = {h}
           /\ SH9A!sh9a_lookup_bucket(x.buckets[h], k) = {i} /\ SH9A!FirstOf({i}) = i
<1>1. k # NoKey
    BY Sizes9
<1>2. Sound9(x.buckets[h].slot, h)
    BY DEF Inv9
<1>3. SH9A!sh9a_lookup_bucket(x.buckets[h], k) = {i}
    BY <1>1, <1>2, Sizes9 DEF SH9A!sh9a_lookup_bucket, Sound9, Once9
<1>4. h \in {Home[k][1], Home[k][2]}
    BY <1>1, <1>2 DEF Sound9, AtHome9
<1>5. ASSUME NEW g \in 1 .. Rows, g # h PROVE SH9A!sh9a_lookup_bucket(x.buckets[g], k) = {}
    <2>1. k \in KeysAt(x.buckets[h].slot)
        BY <1>1 DEF KeysAt
    <2>2. k \notin KeysAt(x.buckets[g].slot)
        BY <1>5, <2>1 DEF Inv9
    <2> QED BY <1>1, <2>2, Sizes9 DEF KeysAt, SH9A!sh9a_lookup_bucket
<1>6. {g \in {Home[k][1], Home[k][2]} : SH9A!sh9a_lookup_bucket(x.buckets[g], k) # {}} = {h}
    <2>1. Home[k][1] \in 1 .. Rows /\ Home[k][2] \in 1 .. Rows
        BY Sizes9
    <2> QED BY <1>3, <1>4, <1>5, <2>1
<1>7. SH9A!sh9a_where(x, k) = {h}
    BY <1>6 DEF SH9A!sh9a_where
<1>8. SH9A!FirstOf({i}) = i
    BY DEF SH9A!FirstOf
<1> QED BY <1>3, <1>7, <1>8

LEMMA FoundNowhere9 ==
    ASSUME NEW x, NEW B, NEW H, Inv9(x, B, H), NEW k \in Keys, k \notin H
    PROVE  SH9A!sh9a_where(x, k) = {} /\ \A h \in 1 .. Rows : k \notin KeysAt(x.buckets[h].slot)
<1>1. \A h \in 1 .. Rows : k \notin KeysAt(x.buckets[h].slot)
    BY KeysHeld9
<1>2. ASSUME NEW h \in 1 .. Rows PROVE SH9A!sh9a_lookup_bucket(x.buckets[h], k) = {}
    BY <1>1, Sizes9 DEF SH9A!sh9a_lookup_bucket, KeysAt
<1>3. {g \in {Home[k][1], Home[k][2]} : SH9A!sh9a_lookup_bucket(x.buckets[g], k) # {}} = {}
    BY <1>2, Sizes9
<1> QED BY <1>1, <1>3 DEF SH9A!sh9a_where

LEMMA FoundAgain9 ==
    ASSUME NEW x, NEW B, NEW H, Inv9(x, B, H), NEW h \in 1 .. Rows, NEW k \in Keys,
           k \in KeysAt(x.buckets[h].slot), NEW r, r = SH9A!FoundAt(x, h, k)
    PROVE  Inv9(r.t, Later(B, H, k, {}), Now(H, k, {})) /\ r.found /\ r.dropped = 0
<1>1. PICK i \in 1 .. Size9 : x.buckets[h].slot[i] = k /\ k # NoKey
    BY DEF KeysAt
<1> DEFINE b == x.buckets[h]
           l == b.slot
           c == Front9(l, i)
           y == [x EXCEPT !.buckets[h] = SH9A!sh9a_sort_lru(b, i)]
           D == Later(B, H, k, {})
<1>2. SH9A!sh9a_lookup_bucket(b, k) = {i} /\ SH9A!FirstOf({i}) = i
    BY <1>1, FoundWhere9
<1>3. r.t = y /\ r.found /\ r.dropped = 0
    BY <1>2 DEF SH9A!FoundAt, SH9A!Result
<1>4. /\ x \in Tables9 /\ b \in [slot : Lines, epoch : Nat]
      /\ Sound9(l, h) /\ InOrder9(l, B) /\ l[i] = k
    BY <1>1 DEF Inv9, Tables9
<1>5. SH9A!sh9a_sort_lru(b, i) = [b EXCEPT !.slot = c]
    <2>1. Size9 \in Nat /\ SH9A!Slots = 1 .. Size9
        BY Sizes9
    <2>2. [j \in SH9A!Slots |-> CASE j = 1 -> b.slot[i] [] j > i -> b.slot[j] [] j \in 2 .. i -> b.slot[j - 1]] = c
        BY <2>1 DEF Front9
    <2> HIDE DEF c
    <2> QED BY <2>2 DEF SH9A!sh9a_sort_lru
<1>6. KeysAt(l) \subseteq H /\ \A g \in 1 .. Rows : g # h => KeysAt(l) \cap KeysAt(x.buckets[g].slot) = {}
    BY KeysHeld9 DEF Inv9
<1> HIDE DEF l, b
<1>7. Keeps(KeysAt(l) \ {k}, B, D) /\ Under(KeysAt(l) \ {k}, k, D)
    <2>1. (KeysAt(l) \ {k}) \cap ({} \cup {k}) = {} /\ KeysAt(l) \ {k} \subseteq H
        BY <1>6
    <2> QED BY <2>1, LaterKeeps
<1>8. \A g \in 1 .. Rows : g # h => InOrder9(x.buckets[g].slot, D)
    <2> SUFFICES ASSUME NEW g \in 1 .. Rows, g # h PROVE InOrder9(x.buckets[g].slot, D)
        OBVIOUS
    <2>1. KeysAt(x.buckets[g].slot) \cap ({} \cup {k}) = {}
        BY <1>6 DEF l, b
    <2>2. Keeps(KeysAt(x.buckets[g].slot), B, D)
        BY <2>1, LaterKeeps
    <2>3. InOrder9(x.buckets[g].slot, B)
        BY DEF Inv9
    <2> QED BY <2>2, <2>3, OrderKept9
<1> HIDE DEF D, c
<1>9. Sound9(c, h) /\ KeysAt(c) = KeysAt(l) /\ InOrder9(c, D)
    <2>1. c = Front9(l, i) /\ l[i] # NoKey
        BY <1>1, <1>4 DEF c
    <2> QED BY <1>4, <1>7, <2>1, FrontSlots
<1>10. /\ y \in Tables9 /\ y.buckets[h].slot = c
       /\ \A g \in 1 .. Rows : g # h => y.buckets[g] = x.buckets[g]
    <2>1. PICK a : a = [b EXCEPT !.slot = c]
        OBVIOUS
    <2>2. a \in [slot : Lines, epoch : Nat] /\ a.slot = c
        BY <1>4, <1>9, <2>1 DEF Sound9
    <2>3. y = [x EXCEPT !.buckets = [x.buckets EXCEPT ![h] = a]]
        BY <1>5, <2>1
    <2>4. x.buckets \in [1 .. Rows -> [slot : Lines, epoch : Nat]]
        BY <1>4 DEF Tables9
    <2>5. PICK bb : bb = [x.buckets EXCEPT ![h] = a]
        OBVIOUS
    <2>6. /\ bb \in [1 .. Rows -> [slot : Lines, epoch : Nat]] /\ bb[h] = a
          /\ \A g \in 1 .. Rows : g # h => bb[g] = x.buckets[g]
        BY <2>2, <2>4, <2>5
    <2> HIDE DEF y
    <2>7. y \in Tables9 /\ y.buckets = bb
        BY <1>4, <2>3, <2>5, <2>6 DEF Tables9
    <2> QED BY <2>2, <2>6, <2>7
<1> HIDE DEF y
<1>11. \A g \in 1 .. Rows : g # h => KeysAt(c) \cap KeysAt(x.buckets[g].slot) = {}
    BY <1>6, <1>9
<1>12. Inv9(y, D, (H \ KeysAt(x.buckets[h].slot)) \cup KeysAt(c))
    BY <1>8, <1>9, <1>10, <1>11, RowReplaced9
<1>13. (H \ KeysAt(x.buckets[h].slot)) \cup KeysAt(c) = Now(H, k, {})
    <2>1. k \in KeysAt(l)
        BY <1>1 DEF l, b, KeysAt
    <2> QED BY <1>6, <1>9, <2>1 DEF Now, l, b
<1> QED BY <1>3, <1>12, <1>13 DEF D

(* The free slots are counted: none are left when the last is used.        *)
LEMMA Counted9 == ASSUME NEW S PROVE SH9A!Cardinality(S) = Cardinality(S)
BY DEF SH9A!Cardinality, Cardinality

LEMMA ZerosIs ==
    ASSUME NEW b, NEW h, Sound9(b.slot, h)
    PROVE  /\ SH9A!sh9a_zeros(b) \in Nat
           /\ SH9A!sh9a_zeros(b) = 0 <=> b.slot[Size9] # NoKey
<1> DEFINE S == SH9A!sh9a_lookup_bucket(b, NoKey)
<1>1. S = {i \in 1 .. Size9 : b.slot[i] = NoKey} /\ Size9 \in Nat /\ Size9 \in 1 .. Size9
    BY Sizes9 DEF SH9A!sh9a_lookup_bucket
<1>2. IsFiniteSet(1 .. Size9)
    BY <1>1, FS_Interval
<1>3. S \subseteq 1 .. Size9
    BY <1>1
<1> HIDE DEF S
<1>4. IsFiniteSet(S)
    BY <1>2, <1>3, FS_Subset
<1>5. Cardinality(S) \in Nat /\ (Cardinality(S) = 0 <=> S = {})
    BY <1>4, FS_CardinalityType, FS_EmptySet
<1>6. S = {} <=> b.slot[Size9] # NoKey
    <2>1. ASSUME NEW i \in S, b.slot[Size9] # NoKey PROVE FALSE
        <3>1. i \in 1 .. Size9 /\ b.slot[i] = NoKey
            BY <1>1
        <3>2. i < Size9
            BY <1>1, <2>1, <3>1
        <3> QED BY <1>1, <2>1, <3>1, <3>2 DEF Sound9, Packed
    <2>2. b.slot[Size9] = NoKey => Size9 \in S
        BY <1>1
    <2> QED BY <2>1, <2>2
<1>7. SH9A!sh9a_zeros(b) = Cardinality(S)
    BY Counted9 DEF SH9A!sh9a_zeros, S
<1> QED BY <1>5, <1>6, <1>7

(* The key in the last slot of bucket h, if there is one.                  *)
LastAt(x, h) == {x.buckets[h].slot[Size9]} \ {NoKey}

Stamped9(z, h, e, n) == [z EXCEPT !.epoch = e, !.insert_cnt = n, !.buckets[h].epoch = e]

LEMMA EpochSet9 ==
    ASSUME NEW z, NEW h, NEW over, over = (z.insert_cnt + 1 > MaxInsertCnt), NEW e,
           e = IF over THEN (z.epoch + 1) % EpochValues ELSE z.epoch
    PROVE  SH9A!sh9a_update_bucket_epoch(z, h) =
               Stamped9(z, h, e, IF over THEN 0 ELSE z.insert_cnt + 1)
BY DEF SH9A!sh9a_update_bucket_epoch, Stamped9

LEMMA Inserted9 ==
    ASSUME NEW x, NEW B, NEW H, Inv9(x, B, H), NEW k \in Keys, k \notin H,
           NEW h \in {Home[k][1], Home[k][2]}, NEW y,
           y = SH9A!sh9a_update_bucket_epoch(
                   [x EXCEPT !.buckets[h] = SH9A!sh9a_shift_new(x.buckets[h], k)], h)
    PROVE  Inv9(y, Later(B, H, k, LastAt(x, h)), Now(H, k, LastAt(x, h)))
<1> DEFINE b == x.buckets[h]
           l == b.slot
           c == Shift9(l, k)
           D == Later(B, H, k, LastAt(x, h))
<1>1. h \in 1 .. Rows /\ Size9 \in Nat /\ Size9 \in 1 .. Size9 /\ k # NoKey
    BY Sizes9
<1>2. /\ x \in Tables9 /\ b \in [slot : Lines, epoch : Nat] /\ Sound9(l, h) /\ InOrder9(l, B)
    BY <1>1 DEF Inv9, Tables9
<1>3. k \notin KeysAt(l) /\ KeysAt(l) \subseteq H
    BY <1>1, KeysHeld9
<1>4. KeysAt(l) \ {l[Size9]} = KeysAt(l) \ LastAt(x, h)
    BY DEF LastAt, KeysAt
<1>5. LastAt(x, h) \subseteq KeysAt(l)
    BY <1>1 DEF LastAt, KeysAt
<1>6. Keeps(KeysAt(l) \ {l[Size9]}, B, D) /\ Under(KeysAt(l) \ {l[Size9]}, k, D)
    <2>1. (KeysAt(l) \ {l[Size9]}) \cap (LastAt(x, h) \cup {k}) = {} /\ KeysAt(l) \ {l[Size9]} \subseteq H
        BY <1>3, <1>4
    <2> HIDE DEF l, b
    <2> QED BY <2>1, LaterKeeps
<1>7. \A g \in 1 .. Rows : g # h => InOrder9(x.buckets[g].slot, D)
    <2> SUFFICES ASSUME NEW g \in 1 .. Rows, g # h PROVE InOrder9(x.buckets[g].slot, D)
        OBVIOUS
    <2>1. KeysAt(x.buckets[g].slot) \cap (LastAt(x, h) \cup {k}) = {}
        <3>1. KeysAt(l) \cap KeysAt(x.buckets[g].slot) = {}
            BY <1>1 DEF Inv9
        <3>2. k \notin KeysAt(x.buckets[g].slot)
            BY KeysHeld9
        <3> QED BY <1>5, <3>1, <3>2
    <2>2. Keeps(KeysAt(x.buckets[g].slot), B, D)
        BY <2>1, LaterKeeps
    <2>3. InOrder9(x.buckets[g].slot, B)
        BY DEF Inv9
    <2> HIDE DEF D
    <2> QED BY <2>2, <2>3, OrderKept9
<1> HIDE DEF D
<1>8. Sound9(c, h) /\ KeysAt(c) = (KeysAt(l) \ {l[Size9]}) \cup {k} /\ InOrder9(c, D)
    <2> HIDE DEF l, b, c
    <2>1. c = Shift9(l, k)
        BY DEF c
    <2> QED BY <1>2, <1>3, <1>6, <2>1, ShiftSlots
<1>9. SH9A!sh9a_shift_new(b, k) = [b EXCEPT !.slot = c]
    BY Sizes9 DEF SH9A!sh9a_shift_new, Shift9
<1> HIDE DEF c
<1>10. y \in Tables9 /\ y.buckets[h].slot = c /\ \A g \in 1 .. Rows : g # h => y.buckets[g] = x.buckets[g]
    <2>1. PICK a : a = [b EXCEPT !.slot = c]
        OBVIOUS
    <2>2. a \in [slot : Lines, epoch : Nat] /\ a.slot = c
        BY <1>2, <1>8, <2>1 DEF Sound9
    <2>3. x.buckets \in [1 .. Rows -> [slot : Lines, epoch : Nat]] /\ x.epoch \in Nat /\ x.insert_cnt \in Nat
        BY <1>2 DEF Tables9
    <2>4. PICK z : z = [x EXCEPT !.buckets[h] = SH9A!sh9a_shift_new(x.buckets[h], k)]
        OBVIOUS
    <2>5. z = [x EXCEPT !.buckets = [x.buckets EXCEPT ![h] = a]]
        BY <1>9, <2>1, <2>4
    <2>6. /\ z \in Tables9 /\ z.buckets[h] = a
          /\ \A g \in 1 .. Rows : g # h => z.buckets[g] = x.buckets[g]
        <3>1. PICK bb : bb = [x.buckets EXCEPT ![h] = a]
            OBVIOUS
        <3>2. /\ bb \in [1 .. Rows -> [slot : Lines, epoch : Nat]] /\ bb[h] = a
              /\ \A g \in 1 .. Rows : g # h => bb[g] = x.buckets[g]
            BY <1>1, <2>2, <2>3, <3>1
        <3>3. z \in Tables9 /\ z.buckets = bb
            BY <1>2, <2>5, <3>1, <3>2 DEF Tables9
        <3> QED BY <3>2, <3>3
    <2>7. PICK over : over = (z.insert_cnt + 1 > MaxInsertCnt)
        OBVIOUS
    <2>8. PICK e : e = IF over THEN (z.epoch + 1) % EpochValues ELSE z.epoch
        OBVIOUS
    <2>9. PICK n : n = IF over THEN 0 ELSE z.insert_cnt + 1
        OBVIOUS
    <2>10. z.epoch \in Nat /\ z.insert_cnt \in Nat /\ z.buckets \in [1 .. Rows -> [slot : Lines, epoch : Nat]]
        BY <2>6 DEF Tables9
    <2>11. e \in Nat /\ n \in Nat
        <3>1. (z.epoch + 1) % EpochValues \in Nat
            BY <2>10, Sizes9
        <3> QED BY <2>8, <2>9, <2>10, <3>1
    <2>12. y = [z EXCEPT !.epoch = e, !.insert_cnt = n, !.buckets[h].epoch = e]
        <3>1. y = SH9A!sh9a_update_bucket_epoch(z, h)
            BY <2>4
        <3>2. SH9A!sh9a_update_bucket_epoch(z, h) =
               Stamped9(z, h, e, IF over THEN 0 ELSE z.insert_cnt + 1)
            BY <2>7, <2>8, EpochSet9
        <3> QED BY <2>9, <3>1, <3>2 DEF Stamped9
    <2>13. PICK w : w = [a EXCEPT !.epoch = e]
        OBVIOUS
    <2>14. w \in [slot : Lines, epoch : Nat] /\ w.slot = c
        BY <2>2, <2>11, <2>13
    <2>15. PICK cc : cc = [z.buckets EXCEPT ![h] = w]
        OBVIOUS
    <2>16. /\ cc \in [1 .. Rows -> [slot : Lines, epoch : Nat]] /\ cc[h] = w
           /\ \A g \in 1 .. Rows : g # h => cc[g] = z.buckets[g]
        BY <1>1, <2>10, <2>14, <2>15
    <2>17. y = [z EXCEPT !.epoch = e, !.insert_cnt = n, !.buckets = cc]
        <3>1. [z.buckets EXCEPT ![h].epoch = e] = cc
            BY <2>6, <2>13, <2>15
        <3> QED BY <2>6, <2>12, <3>1 DEF Tables9
    <2>18. y \in Tables9 /\ y.buckets = cc
        BY <2>6, <2>11, <2>16, <2>17 DEF Tables9
    <2> QED BY <2>6, <2>14, <2>16, <2>18
<1>11. \A g \in 1 .. Rows : g # h => KeysAt(c) \cap KeysAt(x.buckets[g].slot) = {}
    <2> SUFFICES ASSUME NEW g \in 1 .. Rows, g # h PROVE KeysAt(c) \cap KeysAt(x.buckets[g].slot) = {}
        OBVIOUS
    <2>1. KeysAt(l) \cap KeysAt(x.buckets[g].slot) = {}
        BY <1>1 DEF Inv9
    <2>2. k \notin KeysAt(x.buckets[g].slot)
        BY KeysHeld9
    <2> QED BY <1>8, <2>1, <2>2
<1>12. Inv9(y, D, (H \ KeysAt(x.buckets[h].slot)) \cup KeysAt(c))
    <2> HIDE DEF l, b
    <2> QED BY <1>1, <1>7, <1>8, <1>10, <1>11, RowReplaced9
<1>13. (H \ KeysAt(x.buckets[h].slot)) \cup KeysAt(c) = Now(H, k, LastAt(x, h))
    <2>1. KeysAt(c) = (KeysAt(l) \ LastAt(x, h)) \cup {k}
        BY <1>4, <1>8
    <2> QED BY <1>3, <1>5, <2>1 DEF Now
<1> QED BY <1>12, <1>13 DEF D

(* A key that is not there is put into one of its buckets; a key is lost   *)
(* only if both are full, and then one drop is counted.                    *)
LEMMA Set9 ==
    ASSUME NEW x, NEW B, NEW H, Inv9(x, B, H), NEW k \in Keys, k \notin H,
           NEW r, r = SH9A!stringhash9a_set(x, k)
    PROVE  \E h \in 1 .. Rows :
               /\ Inv9(r.t, Later(B, H, k, LastAt(x, h)), Now(H, k, LastAt(x, h)))
               /\ r.dropped = IF LastAt(x, h) = {} THEN 0 ELSE 1
<1> DEFINE h1 == Home[k][1]
           h2 == Home[k][2]
           z1 == SH9A!sh9a_zeros(x.buckets[h1])
           z2 == SH9A!sh9a_zeros(x.buckets[h2])
           full == z1 = 0 /\ z2 = 0
           h == IF full THEN (IF SH9A!sh9a_cmp_epoch(x, h1, h2) THEN h1 ELSE h2)
                        ELSE (IF z1 >= z2 THEN h1 ELSE h2)
           y == SH9A!sh9a_update_bucket_epoch(
                    [x EXCEPT !.buckets[h] = SH9A!sh9a_shift_new(x.buckets[h], k)], h)
<1>1. SH9A!sh9a_where(x, k) = {}
    BY FoundNowhere9
<1>2. r.t = y /\ r.dropped = IF full THEN 1 ELSE 0
    BY <1>1 DEF SH9A!stringhash9a_set, SH9A!Result
<1>3. h1 \in 1 .. Rows /\ h2 \in 1 .. Rows
    BY Sizes9
<1>4. /\ z1 \in Nat /\ (z1 = 0 <=> x.buckets[h1].slot[Size9] # NoKey)
      /\ z2 \in Nat /\ (z2 = 0 <=> x.buckets[h2].slot[Size9] # NoKey)
    BY <1>3, ZerosIs DEF Inv9
<1>5. h \in {h1, h2}
    OBVIOUS
<1>6. LastAt(x, h) = {} <=> ~full
    <2>1. LastAt(x, h) = {} <=> x.buckets[h].slot[Size9] = NoKey
        BY DEF LastAt
    <2>2. CASE full
        <3>1. x.buckets[h].slot[Size9] # NoKey
            BY <1>4, <1>5, <2>2
        <3> QED BY <2>1, <2>2, <3>1
    <2>3. CASE ~full
        <3>1. h = IF z1 >= z2 THEN h1 ELSE h2
            BY <2>3
        <3> HIDE DEF h, z1, z2
        <3>2. x.buckets[h].slot[Size9] = NoKey
            <4>1. ~(z1 = 0 /\ z2 = 0)
                BY <2>3
            <4> HIDE DEF full
            <4> QED BY <1>4, <3>1, <4>1
        <3> QED BY <2>1, <2>3, <3>2
    <2> QED BY <2>2, <2>3
<1>7. Inv9(y, Later(B, H, k, LastAt(x, h)), Now(H, k, LastAt(x, h)))
    <2> HIDE DEF h
    <2>1. h \in {Home[k][1], Home[k][2]}
        BY <1>5
    <2> HIDE DEF y
    <2>2. y = SH9A!sh9a_update_bucket_epoch(
                    [x EXCEPT !.buckets[h] = SH9A!sh9a_shift_new(x.buckets[h], k)], h)
        BY DEF y
    <2> QED BY <2>1, <2>2, Inserted9
<1> HIDE DEF h, y, full
<1>8. h \in 1 .. Rows
    BY <1>3, <1>5
<1>9. r.dropped = IF LastAt(x, h) = {} THEN 0 ELSE 1
    BY <1>2, <1>6
<1> QED BY <1>2, <1>7, <1>8, <1>9

LEMMA Empty9 ==
    ASSUME NEW x \in Tables9, x.buckets = [h \in 1 .. Rows |-> SH9A!NewBucket]
    PROVE  Inv9(x, {}, {})
<1>1. \A i \in 1 .. Size9 : SH9A!NewBucket.slot[i] = NoKey
    BY Sizes9 DEF SH9A!NewBucket
<1>2. SH9A!NewBucket.slot \in Lines
    BY Sizes9 DEF SH9A!NewBucket, Lines
<1>3. \A h \in 1 .. Rows : x.buckets[h].slot = SH9A!NewBucket.slot
    OBVIOUS
<1> DEFINE l == SH9A!NewBucket.slot
<1> HIDE DEF l
<1>4. \A i \in 1 .. Size9 : l[i] = NoKey
    BY <1>1 DEF l
<1>5. \A h \in 1 .. Rows : Sound9(l, h)
    BY <1>2, <1>4 DEF Sound9, Once9, AtHome9, Packed, l
<1>6. InOrder9(l, {}) /\ KeysAt(l) = {}
    BY <1>4 DEF InOrder9, KeysAt
<1>7. \A h \in 1 .. Rows : x.buckets[h].slot = l
    BY <1>3 DEF l
<1>8. SH9A!sh9a_present(x) = {}
    BY <1>6, <1>7, PresentIs9
<1> QED BY <1>5, <1>6, <1>7, <1>8 DEF Inv9

LEMMA Created9 == Inv9(SH9A!sh9a_create_ibits, {}, {})
<1>1. SH9A!NewBucket \in [slot : Lines, epoch : Nat]
    BY Sizes9 DEF SH9A!NewBucket, Lines
<1>2. 1 % EpochValues \in Nat
    BY Sizes9
<1>3. SH9A!sh9a_create_ibits \in Tables9
    BY <1>1, <1>2 DEF SH9A!sh9a_create_ibits, Tables9
<1>4. SH9A!sh9a_create_ibits.buckets = [h \in 1 .. Rows |-> SH9A!NewBucket]
    BY DEF SH9A!sh9a_create_ibits
<1> QED BY <1>3, <1>4, Empty9

LEMMA Flushed9 ==
    ASSUME NEW x \in Tables9
    PROVE  Inv9(SH9A!stringhash9a_flush(x), {}, {})
<1> DEFINE y == SH9A!stringhash9a_flush(x)
<1>1. SH9A!NewBucket \in [slot : Lines, epoch : Nat]
    BY Sizes9 DEF SH9A!NewBucket, Lines
<1>2. PICK bb : bb = [h \in 1 .. Rows |-> SH9A!NewBucket]
    OBVIOUS
<1>3. PICK e : e = 1 % EpochValues
    OBVIOUS
<1>4. e \in Nat
    BY <1>3, Sizes9
<1>5. y = [x EXCEPT !.buckets = bb, !.epoch = e]
    BY <1>2, <1>3 DEF SH9A!stringhash9a_flush
<1>6. bb \in [1 .. Rows -> [slot : Lines, epoch : Nat]]
    BY <1>1, <1>2
<1> HIDE DEF y
<1>7. y \in Tables9 /\ y.buckets = bb
    BY <1>4, <1>5, <1>6 DEF Tables9
<1> QED BY <1>2, <1>7, Empty9 DEF y

LEMMA Reread9 ==
    ASSUME NEW x, NEW B, NEW H, Inv9(x, B, H)
    PROVE  Inv9(SH9A!stringhash9a_read(SH9A!stringhash9a_dump(x)), B, H)
<1> DEFINE y == SH9A!stringhash9a_read(SH9A!stringhash9a_dump(x))
<1>1. 1 % EpochValues \in Nat
    BY Sizes9
<1>2. x \in Tables9 /\ y = [SH9A!sh9a_create_ibits EXCEPT !.buckets = x.buckets]
    BY DEF Inv9, SH9A!stringhash9a_read, SH9A!stringhash9a_dump
<1>3. SH9A!sh9a_create_ibits \in Tables9
    <2>1. SH9A!NewBucket \in [slot : Lines, epoch : Nat]
        BY Sizes9 DEF SH9A!NewBucket, Lines
    <2> QED BY <1>1, <2>1 DEF SH9A!sh9a_create_ibits, Tables9
<1> HIDE DEF y
<1>4. y \in Tables9 /\ y.buckets = x.buckets
    BY <1>2, <1>3 DEF Tables9
<1>5. SH9A!sh9a_present(y) = SH9A!sh9a_present(x)
    BY <1>4 DEF SH9A!sh9a_present
<1>6. Inv9(y, B, H)
    BY <1>4, <1>5 DEF Inv9
<1> QED BY <1>6 DEF y
-----------------------------------------------------------------------------
(* Lists of keys (stringhash3): their entries, and that none is there      *)
(* twice; an order in which they were used, the first the longest ago.     *)
EntriesOf(s) == {s[i] : i \in 1 .. Len(s)}
Single(s) == \A i, j \in 1 .. Len(s) : s[i] = s[j] => i = j
Queued(s, B) == \A i, j \in 1 .. Len(s) : i < j => <<s[i], s[j]>> \in B

LEMMA Removed ==
    ASSUME NEW s \in Seq(Keys), NEW n \in 1 .. Len(s), NEW r, r = SH3!RemoveAt(s, n)
    PROVE  /\ r \in Seq(Keys) /\ Len(r) = Len(s) - 1
           /\ \A i \in 1 .. Len(r) : r[i] = s[IF i < n THEN i ELSE i + 1]
<1>1. PICK len \in Nat : len = Len(s)
    BY LenProperties
<1>2. PICK u : u = SubSeq(s, 1, n - 1)
    OBVIOUS
<1>3. PICK v : v = SubSeq(s, n + 1, len)
    OBVIOUS
<1>4. n \in 1 .. len /\ n \in Nat
    BY <1>1
<1>5. u \in Seq(Keys) /\ Len(u) = n - 1 /\ \A i \in 1 .. n - 1 : u[i] = s[i]
    <2>1. \A i \in 1 .. n - 1 : s[i] \in Keys
        BY <1>1, <1>4, ElementOfSeq
    <2>2. /\ SubSeq(s, 1, n - 1) \in Seq(Keys)
          /\ Len(SubSeq(s, 1, n - 1)) = IF 1 <= n - 1 THEN (n - 1) - 1 + 1 ELSE 0
          /\ \A i \in 1 .. (n - 1) - 1 + 1 : SubSeq(s, 1, n - 1)[i] = s[1 + i - 1]
        BY <1>4, <2>1, SubSeqProperties
    <2> QED BY <1>2, <1>4, <2>2
<1>6. v \in Seq(Keys) /\ Len(v) = len - n /\ \A i \in 1 .. len - n : v[i] = s[n + i]
    <2>1. \A i \in n + 1 .. len : s[i] \in Keys
        BY <1>1, <1>4, ElementOfSeq
    <2>2. /\ SubSeq(s, n + 1, len) \in Seq(Keys)
          /\ Len(SubSeq(s, n + 1, len)) = IF n + 1 <= len THEN len - (n + 1) + 1 ELSE 0
          /\ \A i \in 1 .. len - (n + 1) + 1 : SubSeq(s, n + 1, len)[i] = s[(n + 1) + i - 1]
        BY <1>4, <2>1, SubSeqProperties
    <2> QED BY <1>3, <1>4, <2>2
<1>7. r = u \o v
    BY <1>1, <1>2, <1>3 DEF SH3!RemoveAt
<1>8. /\ u \o v \in Seq(Keys) /\ Len(u \o v) = Len(u) + Len(v)
      /\ \A i \in 1 .. Len(u) + Len(v) : (u \o v)[i] = IF i <= Len(u) THEN u[i] ELSE v[i - Len(u)]
    BY <1>5, <1>6, ConcatProperties
<1>9. r \in Seq(Keys) /\ Len(r) = len - 1
    BY <1>4, <1>5, <1>6, <1>7, <1>8
<1>10. ASSUME NEW i \in 1 .. len - 1 PROVE r[i] = s[IF i < n THEN i ELSE i + 1]
    <2>1. r[i] = IF i <= n - 1 THEN u[i] ELSE v[i - (n - 1)]
        BY <1>4, <1>5, <1>6, <1>7, <1>8
    <2>2. CASE i < n
        BY <1>4, <1>5, <2>1, <2>2
    <2>3. CASE ~(i < n)
        <3>1. i - (n - 1) \in 1 .. len - n /\ n + (i - (n - 1)) = i + 1
            BY <1>4, <2>3
        <3> QED BY <1>4, <1>6, <2>1, <2>3, <3>1
    <2> QED BY <2>2, <2>3
<1> QED BY <1>1, <1>9, <1>10

LEMMA Unlinked ==
    ASSUME NEW s \in Seq(Keys), Single(s), NEW k \in EntriesOf(s), NEW r, r = SH3!Unlink(s, k)
    PROVE  /\ r \in Seq(Keys) /\ Single(r) /\ EntriesOf(r) = EntriesOf(s) \ {k}
           /\ \A B, D : Queued(s, B) /\ Keeps(EntriesOf(s) \ {k}, B, D) => Queued(r, D)
<1>1. PICK len \in Nat : len = Len(s) /\ DOMAIN s = 1 .. len
    BY LenProperties
<1>2. PICK n \in 1 .. len : s[n] = k
    BY <1>1 DEF EntriesOf
<1>3. (CHOOSE i \in DOMAIN s : s[i] = k) = n
    BY <1>1, <1>2 DEF Single
<1>4. r = SH3!RemoveAt(s, n)
    BY <1>3 DEF SH3!Unlink
<1> DEFINE at(i) == IF i < n THEN i ELSE i + 1
<1>5. r \in Seq(Keys) /\ Len(r) = len - 1 /\ \A i \in 1 .. len - 1 : r[i] = s[at(i)]
    <2>1. n \in 1 .. Len(s)
        BY <1>1, <1>2
    <2>2. /\ r \in Seq(Keys) /\ Len(r) = Len(s) - 1
          /\ \A i \in 1 .. Len(r) : r[i] = s[IF i < n THEN i ELSE i + 1]
        BY <1>4, <2>1, Removed
    <2> QED BY <1>1, <2>2
<1>6. \A i \in 1 .. len - 1 : at(i) \in 1 .. len /\ at(i) # n
    BY <1>1, <1>2
<1>7. \A i, j \in 1 .. len - 1 : (at(i) = at(j) => i = j) /\ (i < j => at(i) < at(j))
    BY <1>1, <1>2
<1>8. \A j \in 1 .. len : j # n => \E i \in 1 .. len - 1 : at(i) = j
    <2> SUFFICES ASSUME NEW j \in 1 .. len, j # n PROVE \E i \in 1 .. len - 1 : at(i) = j
        OBVIOUS
    <2>1. CASE j < n
        <3>1. j \in 1 .. len - 1 /\ at(j) = j
            BY <1>1, <1>2, <2>1
        <3> QED BY <3>1
    <2>2. CASE j > n
        <3>1. j - 1 \in 1 .. len - 1 /\ at(j - 1) = j
            BY <1>1, <1>2, <2>2
        <3> QED BY <3>1
    <2> QED BY <1>1, <1>2, <2>1, <2>2
<1> HIDE DEF at
<1>9. Single(r)
    <2> SUFFICES ASSUME NEW i \in 1 .. len - 1, NEW j \in 1 .. len - 1, r[i] = r[j] PROVE i = j
        BY <1>5 DEF Single
    <2>1. at(i) \in 1 .. len /\ at(j) \in 1 .. len /\ s[at(i)] = s[at(j)]
        BY <1>5, <1>6
    <2>2. at(i) = at(j)
        BY <1>1, <2>1 DEF Single
    <2> QED BY <1>7, <2>2
<1>10. \A i \in 1 .. len - 1 : r[i] \in EntriesOf(s) \ {k}
    <2> TAKE i \in 1 .. len - 1
    <2>1. at(i) \in 1 .. len /\ at(i) # n /\ r[i] = s[at(i)]
        BY <1>5, <1>6
    <2>2. s[at(i)] # s[n]
        BY <1>1, <1>2, <2>1 DEF Single
    <2> QED BY <1>1, <1>2, <2>1, <2>2 DEF EntriesOf
<1>11. EntriesOf(r) = EntriesOf(s) \ {k}
    <2>1. ASSUME NEW v, v \in EntriesOf(r) PROVE v \in EntriesOf(s) \ {k}
        BY <1>5, <1>10, <2>1 DEF EntriesOf
    <2>2. ASSUME NEW v, v \in EntriesOf(s) \ {k} PROVE v \in EntriesOf(r)
        <3>1. PICK j \in 1 .. len : s[j] = v
            BY <1>1, <2>2 DEF EntriesOf
        <3>2. PICK i \in 1 .. len - 1 : at(i) = j
            BY <1>2, <1>8, <2>2, <3>1
        <3>3. r[i] = v
            BY <1>5, <3>1, <3>2
        <3> QED BY <1>5, <3>3 DEF EntriesOf
    <2> QED BY <2>1, <2>2
<1>12. ASSUME NEW B, NEW D, Queued(s, B), Keeps(EntriesOf(s) \ {k}, B, D) PROVE Queued(r, D)
    <2> SUFFICES ASSUME NEW i \in 1 .. len - 1, NEW j \in 1 .. len - 1, i < j
                 PROVE  <<r[i], r[j]>> \in D
        BY <1>5 DEF Queued
    <2>1. /\ at(i) \in 1 .. len /\ at(j) \in 1 .. len /\ at(i) < at(j)
          /\ r[i] = s[at(i)] /\ r[j] = s[at(j)]
        BY <1>5, <1>6, <1>7
    <2>2. <<s[at(i)], s[at(j)]>> \in B
        BY <1>1, <1>12, <2>1 DEF Queued
    <2>3. <<r[i], r[j]>> \in B /\ r[i] \in EntriesOf(s) \ {k} /\ r[j] \in EntriesOf(s) \ {k}
        BY <1>10, <2>1, <2>2
    <2> QED BY <1>12, <2>3 DEF Keeps
<1> QED BY <1>5, <1>9, <1>11, <1>12

LEMMA Appended ==
    ASSUME NEW s \in Seq(Keys), Single(s), NEW k \in Keys, k \notin EntriesOf(s), NEW r, r = Append(s, k)
    PROVE  /\ r \in Seq(Keys) /\ Single(r) /\ EntriesOf(r) = EntriesOf(s) \cup {k}
           /\ \A B, D : Queued(s, B) /\ Keeps(EntriesOf(s), B, D) /\ Under(EntriesOf(s), k, D)
                            => Queued(r, D)
<1>1. PICK len \in Nat : len = Len(s)
    BY LenProperties
<1>2. r \in Seq(Keys) /\ Len(r) = len + 1 /\ r[len + 1] = k /\ \A i \in 1 .. len : r[i] = s[i]
    BY <1>1
<1>3. \A i \in 1 .. len : s[i] \in EntriesOf(s) /\ s[i] # k
    BY <1>1 DEF EntriesOf
<1>4. \A i \in 1 .. len + 1 : i = len + 1 \/ i \in 1 .. len
    BY <1>1
<1>5. Single(r)
    BY <1>1, <1>2, <1>3, <1>4 DEF Single
<1>6. EntriesOf(r) = EntriesOf(s) \cup {k}
    <2>1. ASSUME NEW v, v \in EntriesOf(r) PROVE v \in EntriesOf(s) \cup {k}
        BY <1>2, <1>3, <1>4, <2>1 DEF EntriesOf
    <2>2. ASSUME NEW v, v \in EntriesOf(s) PROVE v \in EntriesOf(r)
        <3>1. PICK i \in 1 .. len : s[i] = v
            BY <1>1, <2>2 DEF EntriesOf
        <3>2. i \in 1 .. len + 1 /\ r[i] = v
            BY <1>1, <1>2, <3>1
        <3> QED BY <1>2, <3>2 DEF EntriesOf
    <2>3. k \in EntriesOf(r)
        <3>1. len + 1 \in 1 .. len + 1
            BY <1>1
        <3> QED BY <1>2, <3>1 DEF EntriesOf
    <2> QED BY <2>1, <2>2, <2>3
<1>7. ASSUME NEW B, NEW D, Queued(s, B), Keeps(EntriesOf(s), B, D), Under(EntriesOf(s), k, D)
      PROVE  Queued(r, D)
    <2> SUFFICES ASSUME NEW i \in 1 .. len + 1, NEW j \in 1 .. len + 1, i < j
                 PROVE  <<r[i], r[j]>> \in D
        BY <1>2 DEF Queued
    <2>1. i \in 1 .. len /\ r[i] = s[i] /\ s[i] \in EntriesOf(s)
        BY <1>1, <1>2, <1>3
    <2>2. CASE j = len + 1
        BY <1>2, <1>7, <2>1, <2>2 DEF Under
    <2>3. CASE j \in 1 .. len
        <3>1. <<s[i], s[j]>> \in B
            BY <1>1, <1>7, <2>1, <2>3 DEF Queued
        <3> QED BY <1>2, <1>3, <1>7, <2>1, <2>3, <3>1 DEF Keeps
    <2> QED BY <1>4, <2>2, <2>3
<1> QED BY <1>2, <1>5, <1>6, <1>7

LEMMA Prepended ==
    ASSUME NEW s \in Seq(Keys), Single(s), NEW k \in Keys, k \notin EntriesOf(s), NEW r, r = <<k>> \o s
    PROVE  r \in Seq(Keys) /\ Single(r) /\ EntriesOf(r) = EntriesOf(s) \cup {k}
<1>1. PICK len \in Nat : len = Len(s)
    BY LenProperties
<1>2. <<k>> \in Seq(Keys) /\ Len(<<k>>) = 1 /\ <<k>>[1] = k
    OBVIOUS
<1>3. /\ <<k>> \o s \in Seq(Keys) /\ Len(<<k>> \o s) = Len(<<k>>) + Len(s)
      /\ \A i \in 1 .. Len(<<k>>) + Len(s) :
             (<<k>> \o s)[i] = IF i <= Len(<<k>>) THEN <<k>>[i] ELSE s[i - Len(<<k>>)]
    BY <1>2, ConcatProperties
<1>4. r \in Seq(Keys) /\ Len(r) = len + 1 /\ r[1] = k
    BY <1>1, <1>2, <1>3
<1>5. \A i \in 1 .. len + 1 : i = 1 \/ (i - 1 \in 1 .. len /\ r[i] = s[i - 1])
    BY <1>1, <1>2, <1>3
<1>6. \A i \in 1 .. len : s[i] \in EntriesOf(s) /\ s[i] # k
    BY <1>1 DEF EntriesOf
<1>7. Single(r)
    <2> SUFFICES ASSUME NEW i \in 1 .. len + 1, NEW j \in 1 .. len + 1, r[i] = r[j] PROVE i = j
        BY <1>4 DEF Single
    <2>1. CASE i = 1 \/ j = 1
        BY <1>4, <1>5, <1>6, <2>1
    <2>2. CASE i # 1 /\ j # 1
        <3>1. i - 1 = j - 1
            BY <1>1, <1>5, <2>2 DEF Single
        <3> QED BY <3>1
    <2> QED BY <2>1, <2>2
<1>8. EntriesOf(r) = EntriesOf(s) \cup {k}
    <2>1. ASSUME NEW v, v \in EntriesOf(r) PROVE v \in EntriesOf(s) \cup {k}
        <3>1. PICK i \in 1 .. len + 1 : r[i] = v
            BY <1>4, <2>1 DEF EntriesOf
        <3> QED BY <1>4, <1>5, <1>6, <3>1
    <2>2. ASSUME NEW v, v \in EntriesOf(s) PROVE v \in EntriesOf(r)
        <3>1. PICK i \in 1 .. len : s[i] = v
            BY <1>1, <2>2 DEF EntriesOf
        <3>2. i + 1 \in 1 .. len + 1 /\ r[i + 1] = v
            BY <1>1, <1>5, <3>1
        <3> QED BY <1>4, <3>2 DEF EntriesOf
    <2>3. k \in EntriesOf(r)
        <3>1. 1 \in 1 .. len + 1
            BY <1>1
        <3> QED BY <1>4, <3>1 DEF EntriesOf
    <2> QED BY <2>1, <2>2, <2>3
<1> QED BY <1>4, <1>7, <1>8

LEMMA Dropped ==
    ASSUME NEW s \in Seq(Keys), Single(s), Len(s) > 0, NEW k, k = Head(s), NEW r, r = Tail(s)
    PROVE  /\ r \in Seq(Keys) /\ Single(r) /\ EntriesOf(r) = EntriesOf(s) \ {k}
           /\ k \in EntriesOf(s) /\ k = s[1]
           /\ \A B, D : Queued(s, B) /\ Keeps(EntriesOf(s) \ {k}, B, D) => Queued(r, D)
<1>1. PICK len \in Nat : len = Len(s) /\ len > 0
    BY LenProperties
<1>2. s # <<>>
    BY EmptySeq
<1>3. r \in Seq(Keys) /\ Len(r) = len - 1 /\ \A i \in 1 .. len - 1 : r[i] = s[i + 1]
    BY <1>1, <1>2, HeadTailProperties
<1>4. k = s[1] /\ 1 \in 1 .. len
    BY <1>1
<1>5. Single(r)
    <2> SUFFICES ASSUME NEW i \in 1 .. len - 1, NEW j \in 1 .. len - 1, r[i] = r[j] PROVE i = j
        BY <1>3 DEF Single
    <2>1. i + 1 \in 1 .. len /\ j + 1 \in 1 .. len /\ s[i + 1] = s[j + 1]
        BY <1>1, <1>3
    <2>2. i + 1 = j + 1
        BY <1>1, <2>1 DEF Single
    <2> QED BY <2>2
<1>6. \A i \in 1 .. len - 1 : r[i] \in EntriesOf(s) \ {k}
    <2> TAKE i \in 1 .. len - 1
    <2>1. i + 1 \in 1 .. len /\ i + 1 # 1 /\ r[i] = s[i + 1]
        BY <1>1, <1>3
    <2>2. s[i + 1] # s[1]
        BY <1>1, <1>4, <2>1 DEF Single
    <2> QED BY <1>1, <1>4, <2>1, <2>2 DEF EntriesOf
<1>7. EntriesOf(r) = EntriesOf(s) \ {k}
    <2>1. ASSUME NEW v, v \in EntriesOf(r) PROVE v \in EntriesOf(s) \ {k}
        BY <1>3, <1>6, <2>1 DEF EntriesOf
    <2>2. ASSUME NEW v, v \in EntriesOf(s) \ {k} PROVE v \in EntriesOf(r)
        <3>1. PICK i \in 1 .. len : s[i] = v
            BY <1>1, <2>2 DEF EntriesOf
        <3>2. i - 1 \in 1 .. len - 1 /\ (i - 1) + 1 = i
            BY <1>1, <1>4, <2>2, <3>1
        <3>3. r[i - 1] = v
            BY <1>3, <3>1, <3>2
        <3> QED BY <1>3, <3>2, <3>3 DEF EntriesOf
    <2> QED BY <2>1, <2>2
<1>8. k \in EntriesOf(s)
    BY <1>1, <1>4 DEF EntriesOf
<1>9. ASSUME NEW B, NEW D, Queued(s, B), Keeps(EntriesOf(s) \ {k}, B, D) PROVE Queued(r, D)
    <2> SUFFICES ASSUME NEW i \in 1 .. len - 1, NEW j \in 1 .. len - 1, i < j
                 PROVE  <<r[i], r[j]>> \in D
        BY <1>3 DEF Queued
    <2>1. i + 1 \in 1 .. len /\ j + 1 \in 1 .. len /\ i + 1 < j + 1 /\ r[i] = s[i + 1] /\ r[j] = s[j + 1]
        BY <1>1, <1>3
    <2>2. <<s[i + 1], s[j + 1]>> \in B
        BY <1>1, <1>9, <2>1 DEF Queued
    <2> QED BY <1>6, <1>9, <2>1, <2>2 DEF Keeps
<1> QED BY <1>3, <1>4, <1>5, <1>7, <1>8, <1>9
-----------------------------------------------------------------------------
(* A table of stringhash3: its chains and the one list of its records.     *)
Tables3 == [chain : [1 .. Chains -> Seq(Keys)], order : Seq(Keys), free : Nat]

Chained(x) ==
    /\ \A c \in 1 .. Chains : Single(x.chain[c])
    /\ \A c \in 1 .. Chains : \A k \in EntriesOf(x.chain[c]) : HashOf[k] = c

Inv3(x, B, H) ==
    /\ x \in Tables3 /\ Chained(x)
    /\ Single(x.order) /\ Queued(x.order, B)
    /\ H = EntriesOf(x.order)
    /\ \A k \in Keys : k \in H <=> k \in EntriesOf(x.chain[HashOf[k]])

LEMMA Sizes3 ==
    /\ Chains \in Nat /\ MaxRecords \in Nat /\ MaxRecords > 1
    /\ \A k \in Keys : HashOf[k] \in 1 .. Chains
BY TableAssumption

LEMMA EntriesAreKeys == ASSUME NEW s \in Seq(Keys) PROVE EntriesOf(s) \subseteq Keys
BY ElementOfSeq DEF EntriesOf

LEMMA PresentIs3 ==
    ASSUME NEW x, NEW B, NEW H, Inv3(x, B, H)
    PROVE  H = SH3!sh3_present(x) /\ H \subseteq Keys
<1>1. H \subseteq Keys
    BY EntriesAreKeys DEF Inv3, Tables3
<1>2. \A k \in Keys : SH3!Contains(x.chain[HashOf[k]], k) <=> k \in EntriesOf(x.chain[HashOf[k]])
    BY DEF SH3!Contains, EntriesOf
<1>3. \A k \in Keys : k \in H <=> k \in SH3!sh3_present(x)
    BY <1>2 DEF Inv3, SH3!sh3_present
<1> QED BY <1>1, <1>3 DEF SH3!sh3_present

\* The chain of one hash is written, with records of that hash.
Rechained(x, c, s, y) == y = [x EXCEPT !.chain[c] = s]
Hashed(s, c) == \A k \in EntriesOf(s) : HashOf[k] = c

LEMMA ChainWritten ==
    ASSUME NEW x \in Tables3, NEW c \in 1 .. Chains, NEW s \in Seq(Keys), Chained(x), Single(s),
           Hashed(s, c), NEW y, Rechained(x, c, s, y)
    PROVE  /\ y \in Tables3 /\ Chained(y) /\ y.chain[c] = s
           /\ \A g \in 1 .. Chains : g # c => y.chain[g] = x.chain[g]
           /\ y.order = x.order /\ y.free = x.free
<1>1. PICK cc : cc = [x.chain EXCEPT ![c] = s]
    OBVIOUS
<1>2. x.chain \in [1 .. Chains -> Seq(Keys)]
    BY DEF Tables3
<1>3. /\ cc \in [1 .. Chains -> Seq(Keys)] /\ cc[c] = s
      /\ \A g \in 1 .. Chains : g # c => cc[g] = x.chain[g]
    BY <1>1, <1>2
<1>4. y = [x EXCEPT !.chain = cc]
    BY <1>1 DEF Rechained
<1>5. y \in Tables3 /\ y.chain = cc /\ y.order = x.order /\ y.free = x.free
    BY <1>3, <1>4 DEF Tables3
<1>6. Chained(y)
    BY <1>3, <1>5 DEF Chained, Hashed
<1> QED BY <1>3, <1>5, <1>6

LEMMA OrderWritten ==
    ASSUME NEW x \in Tables3, NEW s \in Seq(Keys), Chained(x), NEW y, y = [x EXCEPT !.order = s]
    PROVE  /\ y \in Tables3 /\ Chained(y) /\ y.order = s /\ y.chain = x.chain /\ y.free = x.free
<1>1. y \in Tables3 /\ y.chain = x.chain /\ y.order = s /\ y.free = x.free
    BY DEF Tables3
<1> QED BY <1>1 DEF Chained

LEMMA FreeWritten ==
    ASSUME NEW x \in Tables3, NEW n \in Nat, Chained(x), NEW y, y = [x EXCEPT !.free = n]
    PROVE  /\ y \in Tables3 /\ Chained(y) /\ y.order = x.order /\ y.chain = x.chain
<1>1. y \in Tables3 /\ y.chain = x.chain /\ y.order = x.order
    BY DEF Tables3
<1> QED BY <1>1 DEF Chained

(* A record is taken out of its chain.                                     *)
LEMMA ChainUnlinked ==
    ASSUME NEW x \in Tables3, Chained(x), NEW k \in Keys, k \in EntriesOf(x.chain[HashOf[k]]),
           NEW y, y = SH3!sht3_tableremove(x, k)
    PROVE  /\ y \in Tables3 /\ Chained(y) /\ y.order = x.order /\ y.free = x.free
           /\ \A v \in Keys : v \in EntriesOf(y.chain[HashOf[v]])
                                  <=> v # k /\ v \in EntriesOf(x.chain[HashOf[v]])
<1>1. PICK c \in 1 .. Chains : c = HashOf[k]
    BY Sizes3
<1>2. PICK s : s = SH3!Unlink(x.chain[c], k)
    OBVIOUS
<1>3. x.chain[c] \in Seq(Keys) /\ Single(x.chain[c])
    BY DEF Tables3, Chained
<1>4. s \in Seq(Keys) /\ Single(s) /\ EntriesOf(s) = EntriesOf(x.chain[c]) \ {k}
    <2>1. PICK a : a = x.chain[c]
        OBVIOUS
    <2>2. a \in Seq(Keys) /\ Single(a) /\ k \in EntriesOf(a) /\ s = SH3!Unlink(a, k)
        BY <1>1, <1>2, <1>3, <2>1
    <2>3. s \in Seq(Keys) /\ Single(s) /\ EntriesOf(s) = EntriesOf(a) \ {k}
        BY <2>2, Unlinked
    <2> QED BY <2>1, <2>3
<1>5. Hashed(s, c)
    BY <1>4 DEF Chained, Hashed
<1>6. Rechained(x, c, s, y)
    BY <1>1, <1>2 DEF SH3!sht3_tableremove, Rechained
<1>7. /\ y \in Tables3 /\ Chained(y) /\ y.chain[c] = s
      /\ \A g \in 1 .. Chains : g # c => y.chain[g] = x.chain[g]
      /\ y.order = x.order /\ y.free = x.free
    BY <1>4, <1>5, <1>6, ChainWritten
<1>8. ASSUME NEW v \in Keys
      PROVE  v \in EntriesOf(y.chain[HashOf[v]]) <=> v # k /\ v \in EntriesOf(x.chain[HashOf[v]])
    <2>1. HashOf[v] \in 1 .. Chains
        BY Sizes3
    <2>2. CASE HashOf[v] = c
        BY <1>4, <1>7, <2>2
    <2>3. CASE HashOf[v] # c
        BY <1>1, <1>7, <2>1, <2>3
    <2> QED BY <2>2, <2>3
<1> QED BY <1>7, <1>8

(* The calls of stringhash3 keep the invariant.                            *)
LEMMA Sorted3 ==
    ASSUME NEW x, NEW B, NEW H, Inv3(x, B, H), NEW k \in H
    PROVE  Inv3(SH3!stringhash3_update_sort(x, k), Later(B, H, k, {}), Now(H, k, {}))
<1> DEFINE y == SH3!stringhash3_update_sort(x, k)
           D == Later(B, H, k, {})
<1>1. /\ x \in Tables3 /\ Chained(x) /\ x.order \in Seq(Keys) /\ Single(x.order)
      /\ Queued(x.order, B) /\ H = EntriesOf(x.order)
    BY DEF Inv3, Tables3
<1>2. k \in Keys
    BY PresentIs3
<1>3. PICK u : u = SH3!Unlink(x.order, k)
    OBVIOUS
<1>4. /\ u \in Seq(Keys) /\ Single(u) /\ EntriesOf(u) = EntriesOf(x.order) \ {k}
      /\ \A A, E : Queued(x.order, A) /\ Keeps(EntriesOf(x.order) \ {k}, A, E) => Queued(u, E)
    BY <1>1, <1>3, Unlinked
<1>5. Keeps(H \ {k}, B, D) /\ Under(H \ {k}, k, D) /\ Keeps(H \ {k}, D, D)
    <2>1. (H \ {k}) \cap ({} \cup {k}) = {} /\ H \ {k} \subseteq H
        OBVIOUS
    <2>2. Keeps(H \ {k}, B, D) /\ Under(H \ {k}, k, D)
        BY <2>1, LaterKeeps
    <2> QED BY <2>2 DEF Keeps
<1> HIDE DEF D
<1>6. Queued(u, D)
    BY <1>1, <1>4, <1>5
<1>7. PICK s : s = Append(u, k)
    OBVIOUS
<1>8. k \notin EntriesOf(u)
    BY <1>4
<1>9. /\ s \in Seq(Keys) /\ Single(s) /\ EntriesOf(s) = EntriesOf(u) \cup {k}
      /\ \A A, E : Queued(u, A) /\ Keeps(EntriesOf(u), A, E) /\ Under(EntriesOf(u), k, E) => Queued(s, E)
    BY <1>2, <1>4, <1>7, <1>8, Appended
<1>10. EntriesOf(u) = H \ {k}
    BY <1>1, <1>4
<1>11. Queued(s, D)
    BY <1>5, <1>6, <1>9, <1>10
<1>12. y = [x EXCEPT !.order = s]
    BY <1>3, <1>7 DEF SH3!stringhash3_update_sort
<1> HIDE DEF y
<1>13. y \in Tables3 /\ Chained(y) /\ y.order = s /\ y.chain = x.chain
    BY <1>1, <1>9, <1>12, OrderWritten
<1>14. Now(H, k, {}) = EntriesOf(s) /\ Now(H, k, {}) = H
    BY <1>9, <1>10 DEF Now
<1>15. \A v \in Keys : v \in Now(H, k, {}) <=> v \in EntriesOf(y.chain[HashOf[v]])
    BY <1>13, <1>14 DEF Inv3
<1>16. Inv3(y, D, Now(H, k, {}))
    BY <1>9, <1>11, <1>13, <1>14, <1>15 DEF Inv3
<1> QED BY <1>16 DEF y, D

\* The oldest key, if the table is full.
Oldest(x) == IF Len(x.order) >= MaxRecords THEN {Head(x.order)} ELSE {}

LEMMA Attached3 ==
    ASSUME NEW x, NEW B, NEW H, Inv3(x, B, H), NEW k \in Keys, k \notin H,
           NEW r, r = SH3!stringhash3_find_attach(x, k)
    PROVE  /\ r.told = Oldest(x) /\ ~r.found
           /\ r.dropped = IF Oldest(x) = {} THEN 0 ELSE 1
           /\ Inv3(r.t, Later(B, H, k, Oldest(x)), Now(H, k, Oldest(x)))
           /\ Oldest(x) \subseteq H /\ \A v \in Oldest(x) : v = x.order[1]
<1> DEFINE full == Len(x.order) >= MaxRecords
           old == Head(x.order)
           gone == Oldest(x)
           D == Later(B, H, k, gone)
           room == CASE full -> SH3!Evict(x)
                     [] ~full -> [x EXCEPT !.free = IF x.free > 0 THEN x.free - 1 ELSE 0]
           c == HashOf[k]
           s == <<k>> \o room.chain[c]
           q == Append(room.order, k)
           y == [room EXCEPT !.chain[c] = s, !.order = q]
<1>1. /\ x \in Tables3 /\ Chained(x) /\ x.order \in Seq(Keys) /\ Single(x.order)
      /\ Queued(x.order, B) /\ H = EntriesOf(x.order) /\ x.free \in Nat
      /\ \A v \in Keys : v \in H <=> v \in EntriesOf(x.chain[HashOf[v]])
    BY DEF Inv3, Tables3
<1>2. H = SH3!sh3_present(x) /\ H \subseteq Keys
    BY PresentIs3
<1>3. /\ r.t = y /\ ~r.found /\ r.told = gone /\ r.dropped = IF full THEN 1 ELSE 0
    BY <1>2 DEF SH3!stringhash3_find_attach, SH3!Result, Oldest
<1>4. c \in 1 .. Chains /\ MaxRecords > 1 /\ MaxRecords \in Nat
    BY Sizes3
<1>5. Keeps(H \ (gone \cup {k}), B, D) /\ Under(H \ (gone \cup {k}), k, D)
    <2> DEFINE K == H \ (gone \cup {k})
    <2>1. K \cap (gone \cup {k}) = {} /\ K \subseteq H
        OBVIOUS
    <2> HIDE DEF K, gone
    <2>2. Keeps(K, B, D) /\ Under(K, k, D)
        BY <2>1, LaterKeeps
    <2> QED BY <2>2 DEF K
<1>6. /\ room \in Tables3 /\ Chained(room) /\ Single(room.order) /\ EntriesOf(room.order) = H \ gone
      /\ Queued(room.order, D) /\ gone \subseteq H /\ (\A v \in gone : v = x.order[1])
      /\ \A v \in Keys : v \in EntriesOf(room.chain[HashOf[v]]) <=> v \in H \ gone
    <2> HIDE DEF D
    <2>1. CASE full
        <3>1. gone = {old} /\ room = SH3!Evict(x) /\ Len(x.order) > 0
            <4>1. Len(x.order) \in Nat
                BY <1>1, LenProperties
            <4> QED BY <1>4, <2>1, <4>1 DEF Oldest
        <3>2. PICK u : u = Tail(x.order)
            OBVIOUS
        <3>3. /\ u \in Seq(Keys) /\ Single(u) /\ EntriesOf(u) = EntriesOf(x.order) \ {old}
              /\ old \in EntriesOf(x.order) /\ old = x.order[1]
              /\ \A A, E : Queued(x.order, A) /\ Keeps(EntriesOf(x.order) \ {old}, A, E) => Queued(u, E)
            BY <1>1, <3>1, <3>2, Dropped
        <3>4. old \in Keys /\ old \in EntriesOf(x.chain[HashOf[old]])
            BY <1>1, <1>2, <3>3
        <3>5. PICK z : z = SH3!sht3_tableremove(x, old)
            OBVIOUS
        <3> HIDE DEF old, gone, room
        <3>6. /\ z \in Tables3 /\ Chained(z) /\ z.order = x.order
              /\ \A v \in Keys : v \in EntriesOf(z.chain[HashOf[v]])
                                  <=> v # old /\ v \in EntriesOf(x.chain[HashOf[v]])
            BY <1>1, <3>4, <3>5, ChainUnlinked
        <3>7. room = [z EXCEPT !.order = u]
            BY <3>1, <3>2, <3>5 DEF SH3!Evict, old
        <3>8. room \in Tables3 /\ Chained(room) /\ room.order = u /\ room.chain = z.chain
            BY <3>3, <3>6, <3>7, OrderWritten
        <3>9. Keeps(EntriesOf(x.order) \ {old}, B, D)
            <4>1. EntriesOf(x.order) \ {old} = H \ (gone \cup {k})
                BY <1>1, <3>1
            <4> QED BY <1>5, <4>1
        <3>10. Queued(u, D)
            BY <1>1, <3>3, <3>9
        <3>11. gone \subseteq H /\ \A v \in gone : v = x.order[1]
            BY <1>1, <3>1, <3>3
        <3>12. \A v \in Keys : v \in EntriesOf(room.chain[HashOf[v]]) <=> v \in H \ gone
            BY <1>1, <3>1, <3>6, <3>8
        <3> QED BY <1>1, <3>1, <3>3, <3>8, <3>10, <3>11, <3>12
    <2>2. CASE ~full
        <3>1. gone = {}
            BY <2>2 DEF Oldest
        <3>2. PICK n : n = IF x.free > 0 THEN x.free - 1 ELSE 0
            OBVIOUS
        <3>3. n \in Nat
            BY <1>1, <3>2
        <3>4. room = [x EXCEPT !.free = n]
            BY <2>2, <3>2
        <3> HIDE DEF room, gone
        <3>5. room \in Tables3 /\ Chained(room) /\ room.order = x.order /\ room.chain = x.chain
            BY <1>1, <3>3, <3>4, FreeWritten
        <3>6. Queued(room.order, D)
            <4>1. H = H \ (gone \cup {k})
                BY <3>1
            <4>2. Keeps(EntriesOf(x.order), B, D)
                BY <1>1, <1>5, <4>1
            <4>3. \A i \in 1 .. Len(x.order) : x.order[i] \in EntriesOf(x.order)
                BY DEF EntriesOf
            <4> QED BY <1>1, <3>5, <4>2, <4>3 DEF Queued, Keeps
        <3> QED BY <1>1, <3>1, <3>5, <3>6
    <2> QED BY <2>1, <2>2
<1>7. k \notin EntriesOf(room.order) /\ k \notin EntriesOf(room.chain[c])
    BY <1>6
<1>8. room.order \in Seq(Keys) /\ room.chain[c] \in Seq(Keys) /\ Single(room.chain[c])
    <2> HIDE DEF room, c
    <2> QED BY <1>4, <1>6 DEF Tables3, Chained
<1> HIDE DEF room, gone, D
<1>9. s \in Seq(Keys) /\ Single(s) /\ EntriesOf(s) = EntriesOf(room.chain[c]) \cup {k}
    <2>1. PICK a : a = room.chain[c]
        OBVIOUS
    <2>2. s = <<k>> \o a
        BY <2>1
    <2> HIDE DEF s
    <2>3. s \in Seq(Keys) /\ Single(s) /\ EntriesOf(s) = EntriesOf(a) \cup {k}
        BY <1>7, <1>8, <2>1, <2>2, Prepended
    <2> QED BY <2>1, <2>3
<1>10. /\ q \in Seq(Keys) /\ Single(q) /\ EntriesOf(q) = EntriesOf(room.order) \cup {k}
       /\ Queued(q, D)
    <2>1. q = Append(room.order, k)
        OBVIOUS
    <2> HIDE DEF q
    <2>2. /\ q \in Seq(Keys) /\ Single(q) /\ EntriesOf(q) = EntriesOf(room.order) \cup {k}
          /\ \A A, E : /\ Queued(room.order, A) /\ Keeps(EntriesOf(room.order), A, E)
                       /\ Under(EntriesOf(room.order), k, E)
                       => Queued(q, E)
        BY <1>6, <1>7, <1>8, <2>1, Appended
    <2>3. Keeps(EntriesOf(room.order), D, D)
        BY DEF Keeps
    <2>4. EntriesOf(room.order) = H \ (gone \cup {k})
        BY <1>6
    <2>5. Under(EntriesOf(room.order), k, D)
        BY <1>5, <2>4
    <2> QED BY <1>6, <2>2, <2>3, <2>5
<1>11. /\ y \in Tables3 /\ Chained(y) /\ y.order = q /\ y.chain[c] = s
       /\ \A g \in 1 .. Chains : g # c => y.chain[g] = room.chain[g]
    <2>1. PICK z : Rechained(room, c, s, z)
        BY DEF Rechained
    <2> HIDE DEF s, q, c
    <2>2. y = [z EXCEPT !.order = q]
        BY <1>6, <2>1 DEF Tables3, Rechained
    <2>3. Hashed(s, c)
        <3>1. HashOf[k] = c
            BY DEF c
        <3> QED BY <1>4, <1>6, <1>9, <3>1 DEF Chained, Hashed
    <2>4. /\ z \in Tables3 /\ Chained(z) /\ z.chain[c] = s
          /\ \A g \in 1 .. Chains : g # c => z.chain[g] = room.chain[g]
        BY <1>4, <1>6, <1>9, <2>1, <2>3, ChainWritten
    <2> HIDE DEF y
    <2>5. y \in Tables3 /\ Chained(y) /\ y.order = q /\ y.chain = z.chain
        BY <1>10, <2>2, <2>4, OrderWritten
    <2> QED BY <2>4, <2>5
<1>12. Now(H, k, gone) = EntriesOf(q)
    BY <1>6, <1>10 DEF Now
<1>13. ASSUME NEW v \in Keys PROVE v \in Now(H, k, gone) <=> v \in EntriesOf(y.chain[HashOf[v]])
    <2>1. HashOf[v] \in 1 .. Chains
        BY Sizes3
    <2>2. v \in EntriesOf(room.chain[HashOf[v]]) <=> v \in H \ gone
        BY <1>6
    <2>3. CASE HashOf[v] = c
        <3>1. v \in EntriesOf(y.chain[HashOf[v]]) <=> v = k \/ v \in EntriesOf(room.chain[HashOf[v]])
            <4> HIDE DEF y, s, q, c
            <4> QED BY <1>9, <1>11, <2>3
        <3> QED BY <2>2, <3>1 DEF Now
    <2>4. CASE HashOf[v] # c
        <3>1. y.chain[HashOf[v]] = room.chain[HashOf[v]] /\ v # k
            <4> HIDE DEF y, s, q
            <4> QED BY <1>11, <2>1, <2>4
        <3> HIDE DEF y, s, q, c
        <3> QED BY <2>2, <3>1 DEF Now
    <2> QED BY <2>3, <2>4
<1> HIDE DEF y, q, s
<1>14. Inv3(y, D, Now(H, k, gone))
    BY <1>10, <1>11, <1>12, <1>13 DEF Inv3
<1>15. (gone = {}) <=> ~full
    BY DEF gone, Oldest
<1> HIDE DEF full
<1>16. r.dropped = IF gone = {} THEN 0 ELSE 1
    BY <1>3, <1>15
<1> QED BY <1>3, <1>6, <1>14, <1>16 DEF D, gone

LEMMA Pruned3 ==
    ASSUME NEW x, NEW B, NEW H, Inv3(x, B, H), NEW k \in H
    PROVE  Inv3(SH3!stringhash3_prune(x, k), Gone(B, {k}), H \ {k})
<1> DEFINE y == SH3!stringhash3_prune(x, k)
<1>1. /\ x \in Tables3 /\ Chained(x) /\ x.order \in Seq(Keys) /\ Single(x.order)
      /\ Queued(x.order, B) /\ H = EntriesOf(x.order) /\ x.free \in Nat
      /\ \A v \in Keys : v \in H <=> v \in EntriesOf(x.chain[HashOf[v]])
    BY DEF Inv3, Tables3
<1>2. k \in Keys
    BY PresentIs3
<1>3. PICK z : z = SH3!sht3_tableremove(x, k)
    OBVIOUS
<1>4. /\ z \in Tables3 /\ Chained(z) /\ z.order = x.order /\ z.free = x.free
      /\ \A v \in Keys : v \in EntriesOf(z.chain[HashOf[v]])
                             <=> v # k /\ v \in EntriesOf(x.chain[HashOf[v]])
    BY <1>1, <1>2, <1>3, ChainUnlinked
<1>5. PICK u : u = SH3!Unlink(x.order, k)
    OBVIOUS
<1>6. /\ u \in Seq(Keys) /\ Single(u) /\ EntriesOf(u) = EntriesOf(x.order) \ {k}
      /\ \A A, E : Queued(x.order, A) /\ Keeps(EntriesOf(x.order) \ {k}, A, E) => Queued(u, E)
    BY <1>1, <1>5, Unlinked
<1>7. Keeps(EntriesOf(x.order) \ {k}, B, Gone(B, {k}))
    BY GoneKeeps
<1>8. Queued(u, Gone(B, {k}))
    BY <1>1, <1>6, <1>7
<1>9. PICK w : w = [z EXCEPT !.order = u]
    OBVIOUS
<1>10. w \in Tables3 /\ Chained(w) /\ w.order = u /\ w.chain = z.chain
    BY <1>4, <1>6, <1>9, OrderWritten
<1>11. PICK n : n = x.free + 1
    OBVIOUS
<1>12. n \in Nat
    BY <1>1, <1>11
<1>13. y = [w EXCEPT !.free = n]
    <2>1. y = [z EXCEPT !.order = u, !.free = n]
        BY <1>3, <1>5, <1>11 DEF SH3!stringhash3_prune
    <2> QED BY <1>4, <1>9, <2>1 DEF Tables3
<1> HIDE DEF y
<1>14. y \in Tables3 /\ Chained(y) /\ y.order = w.order /\ y.chain = w.chain
    BY <1>10, <1>12, <1>13, FreeWritten
<1>15. H \ {k} = EntriesOf(y.order)
    BY <1>1, <1>6, <1>10, <1>14
<1>16. \A v \in Keys : v \in H \ {k} <=> v \in EntriesOf(y.chain[HashOf[v]])
    BY <1>1, <1>4, <1>10, <1>14
<1>17. Inv3(y, Gone(B, {k}), H \ {k})
    BY <1>6, <1>8, <1>10, <1>14, <1>15, <1>16 DEF Inv3
<1> QED BY <1>17 DEF y

LEMMA Empty3 ==
    ASSUME NEW x \in Tables3, x.chain = [c \in 1 .. Chains |-> <<>>], x.order = <<>>
    PROVE  Inv3(x, {}, {})
<1>1. EntriesOf(<<>>) = {} /\ Single(<<>>) /\ Queued(<<>>, {})
    BY DEF EntriesOf, Single, Queued
<1>2. \A c \in 1 .. Chains : x.chain[c] = <<>>
    OBVIOUS
<1>3. Chained(x)
    BY <1>1, <1>2 DEF Chained
<1>4. \A k \in Keys : EntriesOf(x.chain[HashOf[k]]) = {}
    BY <1>1, <1>2, Sizes3
<1> QED BY <1>1, <1>3, <1>4 DEF Inv3

LEMMA Created3 == Inv3(SH3!stringhash3_create_table, {}, {})
<1>1. SH3!stringhash3_create_table \in Tables3
    BY EmptySeq DEF SH3!stringhash3_create_table, Tables3
<1>2. /\ SH3!stringhash3_create_table.chain = [c \in 1 .. Chains |-> <<>>]
      /\ SH3!stringhash3_create_table.order = <<>>
    BY DEF SH3!stringhash3_create_table
<1> QED BY <1>1, <1>2, Empty3

LEMMA Flushed3 ==
    ASSUME NEW x \in Tables3 PROVE Inv3(SH3!stringhash3_flush(x), {}, {})
<1> DEFINE y == SH3!stringhash3_flush(x)
<1>1. x.free + Len(x.order) \in Nat
    <2>1. x.free \in Nat /\ x.order \in Seq(Keys)
        BY DEF Tables3
    <2>2. Len(x.order) \in Nat
        BY <2>1, LenProperties
    <2> QED BY <2>1, <2>2
<1>2. y \in Tables3
    BY <1>1, EmptySeq DEF SH3!stringhash3_flush, Tables3
<1>3. y.chain = [c \in 1 .. Chains |-> <<>>] /\ y.order = <<>>
    BY DEF SH3!stringhash3_flush
<1> HIDE DEF y
<1>4. Inv3(y, {}, {})
    BY <1>2, <1>3, Empty3
<1> QED BY <1>4 DEF y
-----------------------------------------------------------------------------
(* The calls of StateTable on a table of stringhash5.                      *)
LEMMA HistoryOf ==
    /\ \A k, gone : Use(k, gone) => held' = Now(held, k, gone) /\ before' = Later(before, held, k, gone)
    /\ \A gone : Drop(gone) => held' = held \ gone /\ before' = Gone(before, gone)
<1>1. ASSUME NEW k, NEW gone, Use(k, gone)
      PROVE  held' = Now(held, k, gone) /\ before' = Later(before, held, k, gone)
    BY <1>1 DEF Use, Without, Now, Later
<1>2. ASSUME NEW gone, Drop(gone) PROVE held' = held \ gone /\ before' = Gone(before, gone)
    BY <1>2 DEF Drop, Without, Gone
<1> QED BY <1>1, <1>2

LEMMA NowHeld == ASSUME NEW H, NEW k \in H PROVE Now(H, k, {}) = H
BY DEF Now

\* A key that is in the table is found, with its own record; y is the table after.
Again5(x, s, B, H, k, y) ==
    /\ Inv5(y, s, Later(B, H, k, {}), Now(H, k, {}))
    /\ SH5!stringhash5_find(x, k) = SH5!Result(y, TRUE, k, {}, 0)
    /\ SH5!stringhash5_find_attach(x, k) = SH5!Result(y, TRUE, k, {}, 0)

LEMMA Refound5 ==
    ASSUME NEW x, NEW s, NEW B, NEW H, Inv5(x, s, B, H), NEW k \in H
    PROVE  \E y : Again5(x, s, B, H, k, y)
<1>1. PICK h \in 1 .. Rows : k \in KeysIn(x.buckets[h])
    BY KeysHeld
<1>2. k \in Keys /\ k # NoKey
    BY <1>1, KeysHeld DEF KeysIn
<1>3. PICK i \in 1 .. Depth : x.buckets[h][i].digest = k
    BY <1>1 DEF KeysIn
<1>4. /\ SH5!sh5_where(x, k) = {h}
      /\ SH5!sh5_lookup_bucket(x.buckets[h], k) = {i} /\ SH5!FirstOf({i}) = i
      /\ x.data[h][x.buckets[h][i].bin] = k
    <2>1. PICK v \in Keys : v = k
        BY <1>2
    <2>2. x.buckets[h][i].digest = v
        BY <1>3, <2>1
    <2>3. /\ SH5!sh5_where(x, v) = {h}
          /\ SH5!sh5_lookup_bucket(x.buckets[h], v) = {i} /\ SH5!FirstOf({i}) = i
          /\ x.data[h][x.buckets[h][i].bin] = v
        BY <2>2, FoundWhere
    <2> QED BY <2>1, <2>3
<1>5. PICK y : y = [x EXCEPT !.buckets[h] = SH5!sh5_sort_lru(x.buckets[h], i)]
    OBVIOUS
<1>6. Inv5(y, s, Later(B, H, k, {}), Now(H, k, {}))
    BY <1>2, <1>3, <1>5, UsedAgain
<1>7. (CHOOSE g \in SH5!sh5_where(x, k) : TRUE) = h
    BY <1>4
<1>8. SH5!FoundAt(x, h, k) = SH5!Result(y, TRUE, k, {}, 0)
    BY <1>4, <1>5 DEF SH5!FoundAt
<1>9. SH5!sh5_where(x, k) # {}
    BY <1>4
<1>10. /\ SH5!stringhash5_find(x, k) = SH5!Result(y, TRUE, k, {}, 0)
       /\ SH5!stringhash5_find_attach(x, k) = SH5!Result(y, TRUE, k, {}, 0)
    BY <1>7, <1>8, <1>9 DEF SH5!stringhash5_find, SH5!stringhash5_find_attach
<1> QED BY <1>6, <1>10 DEF Again5

\* What an insert into a full bucket throws out, and what it counts.
Thrown(lost, one) == /\ lost = one /\ drops' = (IF one = {} THEN 0 ELSE 1)

LEMMA Attach5Keeps ==
    ASSUME NEW k \in Keys, Inv5(t, stamp, before, held), Attach5(k)
    PROVE  /\ Inv5(t', stamp', before', held')
           /\ \/ Thrown(Lost, {})
              \/ \E h \in 1 .. Rows : Thrown(Lost, LastIn(t, h))
<1>1. PICK r : r = SH5!stringhash5_find_attach(t, k)
    OBVIOUS
<1>2. /\ t' = r.t /\ drops' = r.dropped /\ Use(k, r.told)
      /\ stamp' = IF r.found THEN stamp
                  ELSE [stamp EXCEPT ![CHOOSE g \in 1 .. Rows :
                           \E i \in 1 .. Depth : r.t.buckets[g][i].digest = k] = r.t.epoch]
    BY <1>1 DEF Attach5
<1>3. held' = Now(held, k, r.told) /\ before' = Later(before, held, k, r.told)
    BY <1>2, HistoryOf
<1>4. CASE k \in held
    <2>1. PICK y : Again5(t, stamp, before, held, k, y)
        BY <1>4, Refound5
    <2>2. r.t = y /\ r.found /\ r.told = {} /\ r.dropped = 0
        BY <1>1, <2>1 DEF Again5, SH5!Result
    <2>3. Inv5(t', stamp', before', held')
        BY <1>2, <1>3, <2>1, <2>2 DEF Again5
    <2>4. Thrown(Lost, {})
        BY <1>2, <1>3, <1>4, <2>2, NowHeld DEF Thrown, Lost
    <2> QED BY <2>3, <2>4
<1>5. CASE k \notin held
    <2>1. SH5!sh5_where(t, k) = {}
        BY <1>5, FoundNowhere
    <2>2. PICK h : h = SH5!sh5_find_best_bucket(t, k)
        OBVIOUS
    <2>3. r = SH5!AttachAt(t, h, k)
        BY <1>1, <2>1, <2>2 DEF SH5!stringhash5_find_attach
    <2>4. /\ h \in {Home[k][1], Home[k][2]}
          /\ LastIn(t, h) # {} <=> \A i \in {1, 2} : SH5!sh5_depth(t.buckets[Home[k][i]]) = Depth
        BY <2>2, BestBucket
    <2>5. h \in 1 .. Rows
        BY <2>4, Sizes
    <2>6. /\ r.told = LastIn(t, h) /\ ~r.found /\ k \in KeysIn(r.t.buckets[h])
          /\ Inv5(r.t, [stamp EXCEPT ![h] = r.t.epoch], Later(before, held, k, LastIn(t, h)),
                  Now(held, k, LastIn(t, h)))
          /\ r.dropped = IF \A i \in {1, 2} : SH5!sh5_depth(t.buckets[Home[k][i]]) = Depth
                         THEN 1 ELSE 0
        BY <1>5, <2>3, <2>4, Inserted
    <2>7. k # NoKey
        BY Sizes
    <2>8. \A g \in 1 .. Rows : (\E i \in 1 .. Depth : r.t.buckets[g][i].digest = k)
                                   <=> k \in KeysIn(r.t.buckets[g])
        BY <2>7 DEF KeysIn
    <2>9. \A g \in 1 .. Rows : k \in KeysIn(r.t.buckets[g]) => g = h
        BY <2>5, <2>6 DEF Inv5
    <2>10. (CHOOSE g \in 1 .. Rows : \E i \in 1 .. Depth : r.t.buckets[g][i].digest = k) = h
        BY <2>5, <2>6, <2>8, <2>9
    <2>11. Inv5(t', stamp', before', held')
        BY <1>2, <1>3, <2>6, <2>10
    <2>12. LastIn(t, h) \subseteq held
        <3>1. LastIn(t, h) \subseteq KeysIn(t.buckets[h])
            BY Sizes DEF LastIn, KeysIn
        <3> QED BY <2>5, <3>1, KeysHeld
    <2>13. Lost = LastIn(t, h)
        BY <1>3, <1>5, <2>6, <2>12 DEF Lost, Now
    <2>14. drops' = IF LastIn(t, h) = {} THEN 0 ELSE 1
        BY <1>2, <2>4, <2>6
    <2> QED BY <2>5, <2>11, <2>13, <2>14 DEF Thrown
<1> QED BY <1>4, <1>5

LEMMA Find5Keeps ==
    ASSUME NEW k \in Keys, Inv5(t, stamp, before, held), Find5(k)
    PROVE  Inv5(t', stamp', before', held')
<1>1. t' = SH5!stringhash5_find(t, k).t /\ Touched(k) /\ stamp' = stamp
    BY DEF Find5
<1>2. CASE k \in held
    <2>1. PICK y : Again5(t, stamp, before, held, k, y)
        BY <1>2, Refound5
    <2>2. held' = Now(held, k, {}) /\ before' = Later(before, held, k, {})
        BY <1>1, <1>2, HistoryOf DEF Touched
    <2> QED BY <1>1, <2>1, <2>2 DEF Again5, SH5!Result
<1>3. CASE k \notin held
    <2>1. SH5!sh5_where(t, k) = {}
        BY <1>3, FoundNowhere
    <2>2. t' = t
        BY <1>1, <2>1 DEF SH5!stringhash5_find, SH5!Result
    <2> QED BY <1>1, <1>3, <2>2 DEF Touched
<1> QED BY <1>2, <1>3

LEMMA JumpKeeps ==
    ASSUME NEW h \in 1 .. Rows, NEW bin \in 1 .. Depth, Inv5(t, stamp, before, held), Jump(h, bin)
    PROVE  Inv5(t', stamp', before', held')
<1>1. PICK i : i = CHOOSE j \in 1 .. Depth : t.buckets[h][j].bin = bin
    OBVIOUS
<1>2. i \in 1 .. Depth
    BY <1>1 DEF Inv5, Sound, Bins
<1>3. PICK y : y = [t EXCEPT !.buckets[h] = SH5!sh5_sort_lru(t.buckets[h], i)]
    OBVIOUS
<1>4. PICK k : k = t.buckets[h][i].digest
    OBVIOUS
<1>5. t' = y /\ Touched(k) /\ stamp' = stamp
    BY <1>1, <1>3, <1>4 DEF Jump, SH5!stringhash5_mark_as_used
<1>6. /\ k = NoKey => Inv5(y, stamp, before, held)
      /\ k # NoKey => Inv5(y, stamp, Later(before, held, k, {}), Now(held, k, {}))
    BY <1>2, <1>3, <1>4, UsedAgain
<1>7. CASE k = NoKey
    <2>1. k \notin held
        BY <1>7, KeysHeld, Sizes
    <2> QED BY <1>5, <1>6, <1>7, <2>1 DEF Touched
<1>8. CASE k # NoKey
    <2>1. k \in held
        BY <1>2, <1>4, <1>8, KeysHeld DEF KeysIn
    <2>2. held' = Now(held, k, {}) /\ before' = Later(before, held, k, {})
        BY <1>5, <2>1, HistoryOf DEF Touched
    <2> QED BY <1>5, <1>6, <1>8, <2>2
<1> QED BY <1>7, <1>8

\* Every call on a table of stringhash5, and a restart.
LEMMA Next5 ==
    ASSUME Inv5(t, stamp, before, held), kind = "sh5", Next
    PROVE  Inv5(t', stamp', before', held')
<1>1. ASSUME NEW k \in Keys, Attach(k) PROVE Inv5(t', stamp', before', held')
    BY <1>1, Attach5Keeps DEF Attach, Set9a, Attach3
<1>2. ASSUME NEW k \in Keys, Delete(k) PROVE Inv5(t', stamp', before', held')
    <2>1. t' = SH5!stringhash5_delete(t, k).t /\ Drop({k}) /\ stamp' = stamp
        BY <1>2 DEF Delete
    <2>2. held' = held \ {k} /\ before' = Gone(before, {k})
        BY <2>1, HistoryOf
    <2>3. Inv5(SH5!stringhash5_delete(t, k).t, stamp, Gone(before, {k}), held \ {k})
        BY Deleted5
    <2> QED BY <2>1, <2>2, <2>3
<1>3. ASSUME NEW h \in 1 .. Rows, NEW gone \in SUBSET Keys, Walk(h, gone)
      PROVE  Inv5(t', stamp', before', held')
    <2>1. /\ t' = SH5!stringhash5_walker_next(t, h, gone) /\ Drop(gone) /\ stamp' = stamp
          /\ gone \subseteq KeysIn(t.buckets[h])
        BY <1>3 DEF Walk, KeysIn
    <2>2. held' = held \ gone /\ before' = Gone(before, gone)
        BY <2>1, HistoryOf
    <2>3. Inv5(SH5!stringhash5_walker_next(t, h, gone), stamp, Gone(before, gone), held \ gone)
        BY <2>1, Walked5
    <2> QED BY <2>1, <2>2, <2>3
<1>4. ASSUME Flush PROVE Inv5(t', stamp', before', held')
    <2>1. t' = SH5!stringhash5_flush(t) /\ held' = {} /\ before' = {} /\ stamp' = [h \in 1 .. Rows |-> 0]
        BY <1>4 DEF Flush
    <2>2. t \in Tables5
        BY DEF Inv5
    <2> QED BY <2>1, <2>2, Flushed5
<1>5. ASSUME Restart PROVE Inv5(t', stamp', before', held')
    <2>1. /\ t' = SH5!stringhash5_read(SH5!stringhash5_dump(t))
          /\ held' = held /\ before' = before /\ stamp' = stamp
        BY <1>5 DEF Restart
    <2> QED BY <2>1, Reread5
<1>6. \A k \in Keys : ~Check9a(k)
    BY DEF Check9a
<1> QED BY <1>1, <1>2, <1>3, <1>4, <1>5, <1>6, Find5Keeps, JumpKeeps DEF Next
-----------------------------------------------------------------------------
(* The calls of StateTable on a table of stringhash9a.                     *)
Again9(x, B, H, k, y) ==
    /\ Inv9(y, Later(B, H, k, {}), Now(H, k, {}))
    /\ SH9A!stringhash9a_check(x, k) = SH9A!Result(y, TRUE, 0)
    /\ SH9A!stringhash9a_set(x, k) = SH9A!Result(y, TRUE, 0)

LEMMA Refound9 ==
    ASSUME NEW x, NEW B, NEW H, Inv9(x, B, H), NEW k \in H
    PROVE  \E y : Again9(x, B, H, k, y)
<1>1. PICK h \in 1 .. Rows : k \in KeysAt(x.buckets[h].slot)
    BY KeysHeld9
<1>2. k \in Keys /\ k # NoKey
    BY <1>1, KeysHeld9 DEF KeysAt
<1>3. PICK i \in 1 .. Size9 : x.buckets[h].slot[i] = k
    BY <1>1 DEF KeysAt
<1>4. /\ SH9A!sh9a_where(x, k) = {h}
      /\ SH9A!sh9a_lookup_bucket(x.buckets[h], k) = {i} /\ SH9A!FirstOf({i}) = i
    BY <1>2, <1>3, FoundWhere9
<1>5. PICK r : r = SH9A!FoundAt(x, h, k)
    OBVIOUS
<1>6. Inv9(r.t, Later(B, H, k, {}), Now(H, k, {})) /\ r.found /\ r.dropped = 0
    BY <1>1, <1>2, <1>5, FoundAgain9
<1>7. r = SH9A!Result(r.t, TRUE, 0)
    BY <1>5 DEF SH9A!FoundAt, SH9A!Result
<1>8. (CHOOSE g \in SH9A!sh9a_where(x, k) : TRUE) = h /\ SH9A!sh9a_where(x, k) # {}
    BY <1>4
<1>9. SH9A!stringhash9a_check(x, k) = r /\ SH9A!stringhash9a_set(x, k) = r
    BY <1>5, <1>8 DEF SH9A!stringhash9a_check, SH9A!stringhash9a_set
<1> QED BY <1>6, <1>7, <1>9 DEF Again9

LEMMA Set9aKeeps ==
    ASSUME NEW k \in Keys, Inv9(t, before, held), Set9a(k)
    PROVE  /\ Inv9(t', before', held')
           /\ \/ Thrown(Lost, {})
              \/ \E h \in 1 .. Rows : Thrown(Lost, LastAt(t, h))
<1>1. PICK r : r = SH9A!stringhash9a_set(t, k)
    OBVIOUS
<1>2. PICK lost : lost = Present(t) \ Present(r.t)
    OBVIOUS
<1>3. /\ kind = "sh9a" /\ t' = r.t /\ drops' = r.dropped /\ Use(k, lost)
    BY <1>1, <1>2 DEF Set9a
<1>4. held' = Now(held, k, lost) /\ before' = Later(before, held, k, lost)
    BY <1>3, HistoryOf
<1>5. lost = held \ SH9A!sh9a_present(r.t)
    BY <1>2, <1>3 DEF Present, Inv9
<1>6. CASE k \in held
    <2>1. PICK y : Again9(t, before, held, k, y)
        BY <1>6, Refound9
    <2>2. r.t = y /\ r.dropped = 0
        BY <1>1, <2>1 DEF Again9, SH9A!Result
    <2>3. lost = {}
        <3>1. SH9A!sh9a_present(y) = Now(held, k, {})
            BY <2>1 DEF Again9, Inv9
        <3> QED BY <1>5, <1>6, <2>2, <3>1, NowHeld
    <2>4. Inv9(t', before', held')
        BY <1>3, <1>4, <2>1, <2>2, <2>3 DEF Again9
    <2>5. Thrown(Lost, {})
        BY <1>3, <1>4, <1>6, <2>2, <2>3, NowHeld DEF Thrown, Lost
    <2> QED BY <2>4, <2>5
<1>7. CASE k \notin held
    <2>1. PICK h \in 1 .. Rows :
              /\ Inv9(r.t, Later(before, held, k, LastAt(t, h)), Now(held, k, LastAt(t, h)))
              /\ r.dropped = IF LastAt(t, h) = {} THEN 0 ELSE 1
        BY <1>1, <1>7, Set9
    <2>2. LastAt(t, h) \subseteq held
        <3>1. LastAt(t, h) \subseteq KeysAt(t.buckets[h].slot)
            BY Sizes9 DEF LastAt, KeysAt
        <3> QED BY <3>1, KeysHeld9
    <2>3. lost = LastAt(t, h)
        <3>1. SH9A!sh9a_present(r.t) = Now(held, k, LastAt(t, h))
            BY <2>1 DEF Inv9
        <3> QED BY <1>5, <1>7, <2>2, <3>1 DEF Now
    <2>4. Inv9(t', before', held')
        BY <1>3, <1>4, <2>1, <2>3
    <2>5. Lost = LastAt(t, h)
        BY <1>4, <1>7, <2>2, <2>3 DEF Lost, Now
    <2> QED BY <1>3, <2>1, <2>4, <2>5 DEF Thrown
<1> QED BY <1>6, <1>7

LEMMA Check9aKeeps ==
    ASSUME NEW k \in Keys, Inv9(t, before, held), Check9a(k)
    PROVE  Inv9(t', before', held')
<1>1. t' = SH9A!stringhash9a_check(t, k).t /\ Touched(k)
    BY DEF Check9a
<1>2. CASE k \in held
    <2>1. PICK y : Again9(t, before, held, k, y)
        BY <1>2, Refound9
    <2>2. held' = Now(held, k, {}) /\ before' = Later(before, held, k, {})
        BY <1>1, <1>2, HistoryOf DEF Touched
    <2> QED BY <1>1, <2>1, <2>2 DEF Again9, SH9A!Result
<1>3. CASE k \notin held
    <2>1. SH9A!sh9a_where(t, k) = {}
        BY <1>3, FoundNowhere9
    <2>2. t' = t
        BY <1>1, <2>1 DEF SH9A!stringhash9a_check, SH9A!Result
    <2> QED BY <1>1, <1>3, <2>2 DEF Touched
<1> QED BY <1>2, <1>3

\* Every call but a delete, and a restart.
LEMMA Next9 ==
    ASSUME Inv9(t, before, held), kind = "sh9a", "sh9a" \notin Deletable, Next
    PROVE  Inv9(t', before', held')
<1>1. ASSUME NEW k \in Keys, Attach(k) PROVE Inv9(t', before', held')
    BY <1>1, Set9aKeeps DEF Attach, Attach5, Attach3
<1>2. ASSUME Flush PROVE Inv9(t', before', held')
    <2>1. t' = SH9A!stringhash9a_flush(t) /\ held' = {} /\ before' = {}
        BY <1>2 DEF Flush
    <2>2. t \in Tables9
        BY DEF Inv9
    <2> QED BY <2>1, <2>2, Flushed9
<1>3. ASSUME Restart PROVE Inv9(t', before', held')
    <2>1. /\ t' = SH9A!stringhash9a_read(SH9A!stringhash9a_dump(t))
          /\ held' = held /\ before' = before
        BY <1>3 DEF Restart
    <2> QED BY <2>1, Reread9
<1>4. /\ \A k \in Keys : ~Find5(k) /\ ~Delete(k)
      /\ \A h \in 1 .. Rows : \A bin \in 1 .. Depth : ~Jump(h, bin)
    BY DEF Find5, Delete, Jump
<1> QED BY <1>1, <1>2, <1>3, <1>4, Check9aKeeps DEF Next
-----------------------------------------------------------------------------
(* The calls of StateTable on a table of stringhash3.                      *)
LEMMA UsedTwice ==
    ASSUME NEW B, NEW H, NEW k, NEW gone
    PROVE  /\ Later(Later(B, H, k, gone), Now(H, k, gone), k, {}) = Later(B, H, k, gone)
           /\ Now(Now(H, k, gone), k, {}) = Now(H, k, gone)
<1>1. Now(H, k, gone) \ {k} = H \ (gone \cup {k})
    BY DEF Now
<1>2. {p \in Later(B, H, k, gone) : p[1] \notin {} \cup {k} /\ p[2] \notin {} \cup {k}}
          = {p \in B : p[1] \notin gone \cup {k} /\ p[2] \notin gone \cup {k}}
    <2>1. \A v : <<v, k>>[2] = k
        OBVIOUS
    <2> QED BY <2>1 DEF Later
<1>3. Later(Later(B, H, k, gone), Now(H, k, gone), k, {}) =
          {p \in Later(B, H, k, gone) : p[1] \notin {} \cup {k} /\ p[2] \notin {} \cup {k}}
              \cup {<<v, k>> : v \in Now(H, k, gone) \ ({} \cup {k})}
    BY DEF Later
<1>4. Now(H, k, gone) \ ({} \cup {k}) = H \ (gone \cup {k})
    BY <1>1
<1>5. Later(Later(B, H, k, gone), Now(H, k, gone), k, {}) = Later(B, H, k, gone)
    BY <1>2, <1>3, <1>4 DEF Later
<1> QED BY <1>5 DEF Now

LEMMA Attach3Keeps ==
    ASSUME NEW k \in Keys, NEW refresh \in BOOLEAN, Inv3(t, before, held), Attach3(k, refresh)
    PROVE  /\ Inv3(t', before', held')
           /\ Thrown(Lost, {}) \/ Thrown(Lost, Oldest(t))
<1>1. PICK r : r = SH3!stringhash3_find_attach(t, k)
    OBVIOUS
<1>2. /\ t' = (IF refresh THEN SH3!stringhash3_update_sort(r.t, k) ELSE r.t) /\ drops' = r.dropped
      /\ IF r.found /\ ~refresh THEN held' = held /\ before' = before ELSE Use(k, r.told)
    BY <1>1 DEF Attach3
<1>3. CASE k \in held
    <2>1. k \in SH3!sh3_present(t)
        BY <1>3, PresentIs3
    <2>2. r.t = t /\ r.found /\ r.told = {} /\ r.dropped = 0
        BY <1>1, <2>1 DEF SH3!stringhash3_find_attach, SH3!Result
    <2>3. CASE refresh
        <3>1. held' = Now(held, k, {}) /\ before' = Later(before, held, k, {})
            BY <1>2, <2>2, <2>3, HistoryOf
        <3>2. t' = SH3!stringhash3_update_sort(t, k)
            BY <1>2, <2>2, <2>3
        <3>3. Inv3(t', before', held')
            BY <1>3, <3>1, <3>2, Sorted3
        <3>4. Lost = {}
            BY <1>3, <3>1, NowHeld DEF Lost
        <3> QED BY <1>2, <2>2, <3>3, <3>4 DEF Thrown
    <2>4. CASE ~refresh
        <3>1. t' = t /\ held' = held /\ before' = before
            BY <1>2, <2>2, <2>4
        <3>2. Lost = {}
            BY <3>1 DEF Lost
        <3> QED BY <1>2, <2>2, <3>1, <3>2 DEF Thrown
    <2> QED BY <2>3, <2>4
<1>4. CASE k \notin held
    <2> DEFINE gone == Oldest(t)
               D == Later(before, held, k, gone)
               now == Now(held, k, gone)
    <2>1. /\ r.told = gone /\ ~r.found /\ r.dropped = (IF gone = {} THEN 0 ELSE 1)
          /\ Inv3(r.t, D, now) /\ gone \subseteq held
        BY <1>1, <1>4, Attached3
    <2>2. held' = now /\ before' = D
        BY <1>2, <2>1, HistoryOf
    <2>3. ASSUME refresh PROVE Inv3(t', before', held')
        <3>1. t' = SH3!stringhash3_update_sort(r.t, k)
            BY <1>2, <2>3
        <3>2. k \in now
            BY DEF Now
        <3>3. Inv3(SH3!stringhash3_update_sort(r.t, k), Later(D, now, k, {}), Now(now, k, {}))
            <4> HIDE DEF D, now
            <4> QED BY <2>1, <3>2, Sorted3
        <3>4. Later(D, now, k, {}) = D /\ Now(now, k, {}) = now
            BY UsedTwice
        <3> QED BY <2>2, <3>1, <3>3, <3>4
    <2>4. ASSUME ~refresh PROVE Inv3(t', before', held')
        BY <1>2, <2>1, <2>2, <2>4
    <2>5. Inv3(t', before', held')
        BY <2>3, <2>4
    <2>6. Lost = gone
        BY <1>4, <2>1, <2>2 DEF Lost, Now
    <2>7. Thrown(Lost, gone)
        BY <1>2, <2>1, <2>6 DEF Thrown
    <2> QED BY <2>5, <2>7
<1> QED BY <1>3, <1>4

LEMMA Next3 ==
    ASSUME Inv3(t, before, held), kind = "sh3", Next
    PROVE  Inv3(t', before', held')
<1>1. ASSUME NEW k \in Keys, Attach(k) PROVE Inv3(t', before', held')
    BY <1>1, Attach3Keeps DEF Attach, Attach5, Set9a
<1>2. ASSUME NEW k \in Keys, Delete(k) PROVE Inv3(t', before', held')
    <2>1. t' = SH3!stringhash3_prune(t, k) /\ Drop({k}) /\ k \in SH3!sh3_present(t)
        BY <1>2 DEF Delete, Present
    <2>2. k \in held
        BY <2>1, PresentIs3
    <2> QED BY <2>1, <2>2, Pruned3, HistoryOf
<1>3. ASSUME Flush PROVE Inv3(t', before', held')
    <2>1. t' = SH3!stringhash3_flush(t) /\ held' = {} /\ before' = {}
        BY <1>3 DEF Flush
    <2>2. t \in Tables3
        BY DEF Inv3
    <2> QED BY <2>1, <2>2, Flushed3
<1>4. /\ \A k \in Keys : ~Find5(k) /\ ~Check9a(k)
      /\ \A h \in 1 .. Rows : \A bin \in 1 .. Depth : ~Jump(h, bin)
      /\ ~Restart
    BY DEF Find5, Check9a, Jump, Restart
<1> QED BY <1>1, <1>2, <1>3, <1>4 DEF Next
-----------------------------------------------------------------------------
(* A table of any kind; k9 says whether stringhash9a is spoken of, whose    *)
(* deletes break its invariant.                                            *)
Inv(k9) == /\ kind \in {"sh5", "sh9a", "sh3"}
           /\ kind = "sh5" => Inv5(t, stamp, before, held)
           /\ kind = "sh9a" /\ k9 => Inv9(t, before, held)
           /\ kind = "sh3" => Inv3(t, before, held)

LEMMA InvInit == ASSUME NEW k9 \in BOOLEAN, Init PROVE Inv(k9)
<1>1. kind \in {"sh5", "sh9a", "sh3"}
    BY TableAssumption DEF Init
<1>2. held = {} /\ before = {} /\ stamp = [h \in 1 .. Rows |-> 0]
    BY DEF Init
<1>3. CASE kind = "sh5"
    <2>1. t = SH5!sh5_create
        BY <1>3 DEF Init
    <2> QED BY <1>2, <1>3, <2>1, Created5 DEF Inv
<1>4. CASE kind = "sh9a"
    <2>1. t = SH9A!sh9a_create_ibits
        BY <1>4 DEF Init
    <2> QED BY <1>2, <1>4, <2>1, Created9 DEF Inv
<1>5. CASE kind = "sh3"
    <2>1. t = SH3!stringhash3_create_table
        BY <1>5 DEF Init
    <2> QED BY <1>2, <1>5, <2>1, Created3 DEF Inv
<1> QED BY <1>1, <1>3, <1>4, <1>5

LEMMA InvNext ==
    ASSUME NEW k9 \in BOOLEAN, k9 => "sh9a" \notin Deletable, Inv(k9),
           [Next /\ UNCHANGED kind]_vars
    PROVE  Inv(k9)'
<1>1. CASE UNCHANGED vars
    BY <1>1 DEF Inv, vars
<1>2. CASE Next /\ UNCHANGED kind
    <2>1. kind' = kind /\ kind \in {"sh5", "sh9a", "sh3"}
        BY <1>2 DEF Inv
    <2>2. CASE kind = "sh5"
        BY <1>2, <2>1, <2>2, Next5 DEF Inv
    <2>3. CASE kind = "sh9a"
        BY <1>2, <2>1, <2>3, Next9 DEF Inv
    <2>4. CASE kind = "sh3"
        BY <1>2, <2>1, <2>4, Next3 DEF Inv
    <2> QED BY <2>1, <2>2, <2>3, <2>4
<1> QED BY <1>1, <1>2

-----------------------------------------------------------------------------
(* For all sizes of a table of stringhash5 and any calls: the bits stolen   *)
(* from the digests of a bucket (sh5_set_epoch, stringhash5.h) spell the     *)
(* epoch of its last insert, whatever finds, deletes, walks and restarts     *)
(* move about between the words that carry them.                             *)
THEOREM EpochsAreKept == Spec => []EpochKept
<1>1. Inv(FALSE) => EpochKept
    <2> SUFFICES ASSUME Inv5(t, stamp, before, held), NEW h \in 1 .. Rows
                 PROVE  SH5!sh5_bucket_epoch(t.buckets[h]) = stamp[h]
        BY DEF Inv, EpochKept
    <2>1. PICK e : e = stamp[h]
        OBVIOUS
    <2>2. PICK b : b = t.buckets[h]
        OBVIOUS
    <2>3. e \in 0 .. (SH5!Epochs - 1) /\ Spells(b, e)
        BY <2>1, <2>2 DEF Inv5
    <2>4. e \in Nat /\ e < SH5!Epochs
        BY <2>3, Sizes
    <2>5. SH5!sh5_bucket_epoch(b) = e
        BY <2>3, <2>4, BitsSpell DEF Spells
    <2> QED BY <2>1, <2>2, <2>5
<1>2. Init => Inv(FALSE)
    BY InvInit
<1>3. Inv(FALSE) /\ [Next /\ UNCHANGED kind]_vars => Inv(FALSE)'
    BY InvNext
<1> QED BY <1>1, <1>2, <1>3, PTL DEF Spec

\* A scour visits the records of the keys in the table.
LEMMA Scoured ==
    ASSUME NEW x, NEW s, NEW B, NEW H, Inv5(x, s, B, H)
    PROVE  SH5!stringhash5_scour(x) = H
<1> DEFINE row(h) == {x.data[h][x.buckets[h][i].bin] :
                          i \in {j \in 1 .. Depth : x.buckets[h][j].digest # NoKey}}
<1>1. ASSUME NEW h \in 1 .. Rows PROVE row(h) = KeysIn(x.buckets[h])
    <2>1. \A i \in 1 .. Depth : x.buckets[h][i].digest # NoKey
              => x.data[h][x.buckets[h][i].bin] = x.buckets[h][i].digest
        BY DEF Inv5, Sound, Filled
    <2> QED BY <2>1 DEF KeysIn
<1>2. SH5!stringhash5_scour(x) = UNION {row(h) : h \in 1 .. Rows}
    BY DEF SH5!stringhash5_scour
<1> HIDE DEF row
<1>3. SH5!stringhash5_scour(x) = UNION {KeysIn(x.buckets[h]) : h \in 1 .. Rows}
    BY <1>1, <1>2
<1>4. \A h \in 1 .. Rows : KeysIn(x.buckets[h]) \subseteq H
    BY KeysHeld
<1>5. \A k \in H : \E h \in 1 .. Rows : k \in KeysIn(x.buckets[h])
    BY KeysHeld
<1> QED BY <1>3, <1>4, <1>5

(* For all sizes of the tables of all three kinds and any calls (of         *)
(* stringhash9a, any but deletes, which corrupt its words): a table holds    *)
(* exactly the keys put into it and not since deleted, flushed or thrown     *)
(* out, and stringhash5 finds under each key, and scours, its own record.    *)
THEOREM AnswersAreRight == ASSUME "sh9a" \notin Deletable PROVE Spec => []AnswersRight
<1>1. Inv(TRUE) => AnswersRight
    <2> SUFFICES ASSUME Inv(TRUE) PROVE AnswersRight
        OBVIOUS
    <2>1. CASE kind = "sh5"
        <3>1. Inv5(t, stamp, before, held)
            BY <2>1 DEF Inv
        <3>2. held = Present(t)
            BY <2>1, <3>1 DEF Inv5, Present
        <3>3. ASSUME NEW k \in held
              PROVE  SH5!stringhash5_find(t, k).found /\ SH5!stringhash5_find(t, k).data = k
            <4>1. PICK y : Again5(t, stamp, before, held, k, y)
                BY <3>1, Refound5
            <4> QED BY <4>1 DEF Again5, SH5!Result
        <3>4. SH5!stringhash5_scour(t) = held
            BY <3>1, Scoured
        <3> QED BY <3>2, <3>3, <3>4 DEF AnswersRight
    <2>2. CASE kind = "sh9a"
        BY <2>2 DEF Inv, Inv9, Present, AnswersRight
    <2>3. CASE kind = "sh3"
        <3>1. Inv3(t, before, held)
            BY <2>3 DEF Inv
        <3>2. held = SH3!sh3_present(t)
            BY <3>1, PresentIs3
        <3> QED BY <2>3, <3>2 DEF Present, AnswersRight
    <2> QED BY <2>1, <2>2, <2>3 DEF Inv
<1>2. Init => Inv(TRUE)
    BY InvInit
<1>3. Inv(TRUE) /\ [Next /\ UNCHANGED kind]_vars => Inv(TRUE)'
    BY InvNext
<1> QED BY <1>1, <1>2, <1>3, PTL DEF Spec

\* The last key of its bucket was used before every other key there.
LEMMA LastOfBucket ==
    ASSUME NEW x, NEW s, NEW B, NEW H, Inv5(x, s, B, H), NEW h \in 1 .. Rows,
           NEW v \in LastIn(x, h), NEW g \in 1 .. Rows, NEW j \in 1 .. Depth,
           x.buckets[g][j].digest = v, NEW i \in 1 .. Depth,
           x.buckets[g][i].digest \in H \ {v}
    PROVE  <<v, x.buckets[g][i].digest>> \in B
<1>1. Depth \in Nat /\ Depth \in 1 .. Depth /\ NoKey \notin Keys
    BY Sizes
<1>2. x.buckets[h][Depth].digest = v /\ v # NoKey
    BY DEF LastIn
<1>3. v \in KeysIn(x.buckets[h]) /\ v \in KeysIn(x.buckets[g])
    BY <1>1, <1>2 DEF KeysIn
<1>4. g = h
    BY <1>3 DEF Inv5
<1>5. i # Depth /\ i < Depth
    BY <1>1, <1>2, <1>4
<1>6. x.buckets[g][i].digest # NoKey
    BY <1>1, KeysHeld
<1>7. InOrder(x.buckets[h], B)
    BY DEF Inv5
<1> QED BY <1>1, <1>2, <1>4, <1>5, <1>6, <1>7 DEF InOrder

LEMMA LastOfLine ==
    ASSUME NEW x, NEW B, NEW H, Inv9(x, B, H), NEW h \in 1 .. Rows,
           NEW v \in LastAt(x, h), NEW g \in 1 .. Rows, v \in Range(x.buckets[g].slot),
           NEW w \in Range(x.buckets[g].slot), w \in H \ {v}
    PROVE  <<v, w>> \in B
<1>1. Size9 \in Nat /\ Size9 \in 1 .. Size9 /\ NoKey \notin Keys
    BY Sizes9
<1>2. \A f \in 1 .. Rows : x.buckets[f].slot \in Lines
    BY DEF Inv9, Sound9
<1>3. PICK j \in 1 .. Size9 : x.buckets[g].slot[j] = v
    BY <1>2 DEF Range, Lines
<1>4. PICK i \in 1 .. Size9 : x.buckets[g].slot[i] = w
    BY <1>2 DEF Range, Lines
<1>5. x.buckets[h].slot[Size9] = v /\ v # NoKey
    BY DEF LastAt
<1>6. v \in KeysAt(x.buckets[h].slot) /\ v \in KeysAt(x.buckets[g].slot)
    BY <1>1, <1>3, <1>5 DEF KeysAt
<1>7. g = h
    BY <1>6 DEF Inv9
<1>8. i # Size9 /\ i < Size9
    BY <1>1, <1>4, <1>5, <1>7
<1>9. w # NoKey
    BY <1>1, KeysHeld9
<1>10. InOrder9(x.buckets[h].slot, B)
    BY DEF Inv9
<1> QED BY <1>1, <1>4, <1>5, <1>7, <1>8, <1>9, <1>10 DEF InOrder9

LEMMA OldestOfAll ==
    ASSUME NEW x, NEW B, NEW H, Inv3(x, B, H), NEW v \in Oldest(x), NEW w \in H \ {v}
    PROVE  <<v, w>> \in B
<1>1. x.order \in Seq(Keys) /\ Queued(x.order, B) /\ H = EntriesOf(x.order)
    BY DEF Inv3, Tables3
<1>2. PICK len \in Nat : len = Len(x.order) /\ len >= MaxRecords /\ v = Head(x.order)
    BY <1>1, LenProperties DEF Oldest
<1>3. len > 0
    BY <1>2, Sizes3
<1>4. v = x.order[1] /\ 1 \in 1 .. len
    BY <1>1, <1>2, <1>3
<1>5. PICK i \in 1 .. len : x.order[i] = w
    BY <1>1, <1>2 DEF EntriesOf
<1>6. 1 < i
    BY <1>4, <1>5
<1> QED BY <1>1, <1>2, <1>4, <1>5, <1>6 DEF Queued

\* What an insert throws out of a table, and what it counts.
LEMMA AttachThrows ==
    ASSUME Inv(TRUE), NEW k \in Keys, Attach(k)
    PROVE  \/ Thrown(Lost, {})
           \/ kind = "sh5" /\ \E h \in 1 .. Rows : Thrown(Lost, LastIn(t, h))
           \/ kind = "sh9a" /\ \E h \in 1 .. Rows : Thrown(Lost, LastAt(t, h))
           \/ kind = "sh3" /\ Thrown(Lost, Oldest(t))
<1>1. CASE Attach5(k)
    <2>1. kind = "sh5" /\ Inv5(t, stamp, before, held)
        BY <1>1 DEF Attach5, Inv
    <2> QED BY <1>1, <2>1, Attach5Keeps
<1>2. CASE Set9a(k)
    <2>1. kind = "sh9a" /\ Inv9(t, before, held)
        BY <1>2 DEF Set9a, Inv
    <2> QED BY <1>2, <2>1, Set9aKeeps
<1>3. ASSUME NEW refresh \in BOOLEAN, Attach3(k, refresh)
      PROVE  kind = "sh3" /\ (Thrown(Lost, {}) \/ Thrown(Lost, Oldest(t)))
    <2>1. kind = "sh3" /\ Inv3(t, before, held)
        BY <1>3 DEF Attach3, Inv
    <2> QED BY <1>3, <2>1, Attach3Keeps
<1> QED BY <1>1, <1>2, <1>3 DEF Attach

(* For all sizes and any calls (of stringhash9a, any but deletes): what an  *)
(* insert throws out is the least recently used key of its bucket, or of     *)
(* the whole table for stringhash3: the order of a bucket's words            *)
(* (sh5_sort_lru and the like) is the order of their last uses.              *)
THEOREM VictimsAreOldest == ASSUME "sh9a" \notin Deletable PROVE Spec => VictimIsOldest
<1> DEFINE A == \A k \in Keys : Attach(k) =>
                  \A v \in Lost : \A w \in (Neighbours(v) \cap held) \ {v} : <<v, w>> \in before
<1>1. ASSUME Inv(TRUE) PROVE A
    <2> SUFFICES ASSUME NEW k \in Keys, Attach(k), NEW v \in Lost,
                        NEW w \in (Neighbours(v) \cap held) \ {v}
                 PROVE  <<v, w>> \in before
        OBVIOUS
    <2>1. CASE kind = "sh5"
        <3>1. Inv5(t, stamp, before, held)
            BY <1>1, <2>1 DEF Inv
        <3>2. PICK h \in 1 .. Rows : v \in LastIn(t, h)
            BY <1>1, <2>1, AttachThrows DEF Thrown
        <3>3. PICK g \in 1 .. Rows : /\ \E j \in 1 .. Depth : t.buckets[g][j].digest = v
                                     /\ \E i \in 1 .. Depth : t.buckets[g][i].digest = w
            BY <2>1 DEF Neighbours
        <3>4. PICK j \in 1 .. Depth : t.buckets[g][j].digest = v
            BY <3>3
        <3>5. PICK i \in 1 .. Depth : t.buckets[g][i].digest = w
            BY <3>3
        <3> QED BY <3>1, <3>2, <3>4, <3>5, LastOfBucket
    <2>2. CASE kind = "sh9a"
        <3>1. Inv9(t, before, held)
            BY <1>1, <2>2 DEF Inv
        <3>2. PICK h \in 1 .. Rows : v \in LastAt(t, h)
            BY <1>1, <2>2, AttachThrows DEF Thrown
        <3>3. PICK g \in 1 .. Rows : v \in Range(t.buckets[g].slot) /\ w \in Range(t.buckets[g].slot)
            BY <2>2 DEF Neighbours
        <3> QED BY <3>1, <3>2, <3>3, LastOfLine
    <2>3. CASE kind = "sh3"
        <3>1. Inv3(t, before, held)
            BY <1>1, <2>3 DEF Inv
        <3>2. v \in Oldest(t)
            BY <1>1, <2>3, AttachThrows DEF Thrown
        <3> QED BY <3>1, <3>2, OldestOfAll
    <2> QED BY <1>1, <2>1, <2>2, <2>3 DEF Inv
<1>2. Init => Inv(TRUE)
    BY InvInit
<1>3. Inv(TRUE) /\ [Next /\ UNCHANGED kind]_vars => Inv(TRUE)'
    BY InvNext
<1>4. Inv(TRUE) => [A]_vars
    BY <1>1
<1> QED BY <1>2, <1>3, <1>4, PTL DEF Spec, VictimIsOldest

(* For all sizes and any calls (of stringhash9a, any but deletes): an       *)
(* insert loses one key for each drop it counts and none otherwise, so that  *)
(* the expire count printed at the end is the number of keys lost.           *)
THEOREM LossesAreCounted == ASSUME "sh9a" \notin Deletable PROVE Spec => LossCounted
<1> DEFINE A == \A k \in Keys : Attach(k) => Cardinality(Lost) = drops'
<1>1. ASSUME Inv(TRUE) PROVE A
    <2> SUFFICES ASSUME NEW k \in Keys, Attach(k) PROVE Cardinality(Lost) = drops'
        OBVIOUS
    <2>1. ASSUME NEW S, Thrown(Lost, S), S = {} \/ \E v : S = {v} PROVE Cardinality(Lost) = drops'
        <3>1. CASE S = {}
            BY <2>1, <3>1, FS_EmptySet DEF Thrown
        <3>2. CASE S # {}
            <4>1. PICK v : S = {v}
                BY <2>1, <3>2
            <4>2. Cardinality({v}) = 1
                BY FS_Singleton
            <4> QED BY <2>1, <3>2, <4>1, <4>2 DEF Thrown
        <3> QED BY <3>1, <3>2
    <2>2. \A h : LastIn(t, h) = {} \/ \E v : LastIn(t, h) = {v}
        BY DEF LastIn
    <2>3. \A h : LastAt(t, h) = {} \/ \E v : LastAt(t, h) = {v}
        BY DEF LastAt
    <2>4. Oldest(t) = {} \/ \E v : Oldest(t) = {v}
        BY DEF Oldest
    <2> QED BY <1>1, <2>1, <2>2, <2>3, <2>4, AttachThrows
<1>2. Init => Inv(TRUE)
    BY InvInit
<1>3. Inv(TRUE) /\ [Next /\ UNCHANGED kind]_vars => Inv(TRUE)'
    BY InvNext
<1>4. Inv(TRUE) => [A]_vars
    BY <1>1
<1> QED BY <1>2, <1>3, <1>4, PTL DEF Spec, LossCounted
=============================================================================
