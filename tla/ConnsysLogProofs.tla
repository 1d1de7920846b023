-------------------------- MODULE ConnsysLogProofs --------------------------
(***************************************************************************)
(* What is proved of ConnsysLog for rings of any size: with one reader no  *)
(* byte of the log is lost, repeated or reordered, and with any number of  *)
(* readers none is forgotten in the EMI ring.                              *)
(***************************************************************************)
EXTENDS ConnsysLog, SequenceTheorems, TLAPS

WorkPcs == {"idle", "check", "room", "prepare", "segment", "copy", "commit", "emiCommit",
            "print", "printCopy", "printCommit", "end"}
ReadPcs == {"idle", "prepare", "copy", "commit"}

(* The types of the indexes and of the local variables.                    *)
IndexTypes ==
  /\ emiRd \in 0..EmiSize - 1 /\ emiWr \in 0..EmiSize - 1
  /\ caRd \in 0..Modulus - 1 /\ caWr \in 0..Modulus - 1
  /\ produced \in Nat

WorkTypes ==
  /\ irq \in BOOLEAN /\ pending \in BOOLEAN /\ timer \in BOOLEAN
  /\ eirqOn \in BOOLEAN /\ short \in BOOLEAN
  /\ wpc \in WorkPcs
  /\ room \in Nat /\ sz \in Nat /\ remain \in Nat
  /\ isz \in Nat /\ iremain \in Nat /\ ipos \in Nat

ReadTypes ==
  /\ rpc \in [Readers -> ReadPcs] /\ rsize \in [Readers -> Nat]
  /\ rsz \in [Readers -> Nat] /\ rremain \in [Readers -> Nat] /\ rpos \in [Readers -> Nat]

(* The work item has claimed bytes of the EMI ring: a segment that lies    *)
(* before the end of the ring, and the rest.                               *)
Claiming == {"segment", "copy", "commit", "emiCommit", "printCopy", "printCommit"}

ClaimInv ==
  wpc \in Claiming => emiRd + sz <= EmiSize /\ sz + remain <= EmiCount

(* Data in the EMI ring that the work item has not claimed has a reason.   *)
WakeInv ==
  /\ wpc \in Claiming => sz + remain = EmiCount \/ irq \/ pending \/ short
  /\ wpc = "end" => emiRd = emiWr \/ irq \/ pending \/ short
  /\ wpc = "idle" => emiRd = emiWr \/ irq \/ pending \/ timer \/ short

WakeAll == IndexTypes /\ WorkTypes /\ ReadTypes /\ ClaimInv /\ WakeInv

(* What the work item claims has room in the cache.                        *)
Free == CacheSize - CaCount

RoomInv ==
  /\ CaCount <= CacheSize
  /\ wpc = "prepare" => room <= Free
  /\ wpc = "segment" => sz + remain <= Free
  /\ wpc \in {"copy", "commit", "emiCommit"} =>
       ipos + isz + iremain = sz /\ isz + iremain + remain <= Free
  /\ wpc = "emiCommit" => isz = 0 /\ iremain = 0

(* What the reader takes next is in the cache, before the end of the ring. *)
ReadInv ==
  \A r \in Readers : rpc[r] \in {"copy", "commit"} =>
    /\ rsz[r] + rremain[r] <= CaCount
    /\ rpos[r] = caRd % CacheSize /\ rpos[r] + rsz[r] <= CacheSize

(* Bytes 1..Gone have left the EMI ring, and Done also counts those of the *)
(* segment at hand that are in the cache or printed already.               *)
Gone == produced - EmiCount
Moved == IF wpc \in {"copy", "commit", "emiCommit"} THEN ipos
         ELSE IF wpc = "printCommit" THEN sz ELSE 0
Done == Gone + Moved
-----------------------------------------------------------------------------
(* Arithmetic of the indexes.                                              *)

(* The only multiple of S between -S and S is 0.                           *)
LEMMA ProdZero ==
  ASSUME NEW S \in Nat \ {0}, NEW k \in Int, S * k < S, S * k > -S
  PROVE  k = 0
<1>1. CASE k >= 1
  <2>1. S * k >= S
    BY <1>1
  <2> QED  BY <2>1
<1>2. CASE k <= -1
  <2>1. S * k <= -S
    BY <1>2
  <2> QED  BY <2>1
<1> QED  BY <1>1, <1>2

(* Division with remainder.                                                *)
LEMMA DivMod ==
  ASSUME NEW S \in Nat \ {0}, NEW a \in Int
  PROVE  a = S * (a \div S) + (a % S) /\ a \div S \in Int /\ a % S \in 0..S - 1
OBVIOUS

(* A remainder is smaller than the divisor.                                *)
LEMMA ModType ==
  ASSUME NEW S \in Nat \ {0}, NEW a \in Int
  PROVE  a % S \in 0..S - 1 /\ a % S \in Nat
OBVIOUS

(* The remainder is the only one.                                          *)
LEMMA ModUnique ==
  ASSUME NEW S \in Nat \ {0}, NEW q \in Int, NEW r \in 0..S - 1
  PROVE  (S * q + r) % S = r
<1> DEFINE a == S * q + r
           d == a \div S
           m == a % S
<1>1. a \in Int
  OBVIOUS
<1>2. a = S * d + m /\ d \in Int /\ m \in 0..S - 1
  BY <1>1, DivMod
<1> HIDE DEF d, m
<1>3. S * (q - d) = m - r
  BY <1>2
<1>4. q - d = 0
  BY <1>2, <1>3, ProdZero
<1> QED  BY <1>2, <1>3, <1>4 DEF m

(* Adding a multiple changes no remainder.                                 *)
LEMMA ModShift ==
  ASSUME NEW S \in Nat \ {0}, NEW a \in Int, NEW z \in Int
  PROVE  (a + S * z) % S = a % S
<1> DEFINE d == a \div S
           m == a % S
<1>1. a = S * d + m /\ d \in Int /\ m \in 0..S - 1
  BY DivMod
<1> HIDE DEF d, m
<1>2. a + S * z = S * (d + z) + m /\ d + z \in Int
  BY <1>1
<1>3. (S * (d + z) + m) % S = m
  BY <1>1, <1>2, ModUnique
<1> QED  BY <1>2, <1>3 DEF m

Divides(S, M) == M % S = 0

(* Wrapping first at a multiple of S changes no remainder of S.            *)
LEMMA ModMod ==
  ASSUME NEW S \in Nat \ {0}, NEW M \in Nat \ {0}, Divides(S, M), NEW a \in Int
  PROVE  \E z \in Int : a % M = a + S * z
<1> DEFINE q == a \div M
           m == a % M
           t == M \div S
<1>1. a = M * q + m /\ q \in Int /\ m \in Int
  BY DivMod
<1>2. M = S * t /\ t \in Int
  BY DivMod DEF Divides
<1> HIDE DEF q, m, t
<1>3. PICK y \in Int, z \in Int : y = t * q /\ z = -y
  BY <1>1, <1>2
<1>4. PICK w \in Int : w = S * y
  OBVIOUS
<1>5. M * q = w
  <2>1. (S * t) * q = S * (t * q)
    BY <1>1, <1>2
  <2> QED  BY <1>2, <1>3, <1>4, <2>1
<1>6. S * z = -w
  BY <1>3, <1>4
<1>7. m = a + S * z
  BY <1>1, <1>5, <1>6
<1> QED  BY <1>3, <1>7 DEF m

-----------------------------------------------------------------------------
(* A ring of S slots whose indexes wrap at M: n elements from rd on.       *)
At(buf, rd, S, k) == buf[(rd + k) % S]

(* How far a slot of the ring is from the write index, n elements on.      *)
IsSlot(S, rd, k, i) == i = (rd + k) % S
SameDistance(S, i, wr, j, n) == (i - wr) % S = (j - n) % S

LEMMA SlotDistance ==
  ASSUME NEW S \in Nat \ {0}, NEW M \in Nat \ {0}, Divides(S, M), NEW rd \in Int,
         NEW n \in Int, NEW wr \in Int, IsSlot(M, rd, n, wr),
         NEW j \in Int, NEW i \in Int, IsSlot(S, rd, j, i)
  PROVE  SameDistance(S, i, wr, j, n)
<1>1. PICK y \in Int : wr = rd + n + S * y
  <2>1. PICK a \in Int : a = rd + n /\ wr = a % M
    BY DEF IsSlot
  <2>2. \E z \in Int : a % M = a + S * z
    BY ModMod, Zenon
  <2> QED  BY <2>1, <2>2
<1>2. PICK d \in Int : rd + j = S * d + i
  <2>1. PICK a \in Int : a = rd + j /\ i = a % S
    BY DEF IsSlot
  <2>2. a = S * (a \div S) + (a % S) /\ a \div S \in Int
    BY DivMod
  <2> QED  BY <2>1, <2>2
<1>3. PICK z \in Int : z = -(d + y)
  OBVIOUS
<1>4. S * z = -(S * d) - S * y
  BY <1>3
<1>5. PICK e \in Int, f \in Int : e = i - wr /\ f = j - n
  OBVIOUS
<1>6. e = f + S * z
  BY <1>1, <1>2, <1>4, <1>5
<1>7. (f + S * z) % S = f % S
  BY ModShift, Zenon
<1> QED  BY <1>5, <1>6, <1>7 DEF SameDistance

(* A slot that is used is far from it.                                     *)
LEMMA SlotUsed ==
  ASSUME NEW S \in Nat \ {0}, NEW n \in 0..S, NEW j \in 0..n - 1
  PROVE  (j - n) % S = S + j - n
<1>1. S + j - n \in 0..S - 1 /\ -1 \in Int
  OBVIOUS
<1>2. (S * (-1) + (S + j - n)) % S = S + j - n
  BY <1>1, ModUnique, Zenon
<1>3. S * (-1) + (S + j - n) = j - n
  OBVIOUS
<1> QED  BY <1>2, <1>3

(* v is written from wr on; the first elements are the same; n new ones.   *)
Written(b, c, S, wr, n, v) ==
  \A i \in 0..S - 1 : c[i] = IF (i - wr) % S < n THEN v[(i - wr) % S] ELSE b[i]
Same(b, c, rd, S, count) == \A k \in 0..count - 1 : At(c, rd, S, k) = At(b, rd, S, k)
Holds(c, rd, S, count, n, v) == \A k \in 0..n - 1 : At(c, rd, S, count + k) = v[k]

(* Writing v behind the last element leaves the elements as they are.      *)
LEMMA RingWritten ==
  ASSUME NEW S \in Nat \ {0}, NEW M \in Nat \ {0}, Divides(S, M), NEW rd \in Int,
         NEW count \in 0..S, NEW n \in 0..S - count, NEW wr \in Int, IsSlot(M, rd, count, wr),
         NEW v, NEW b, NEW c, Written(b, c, S, wr, n, v)
  PROVE  Same(b, c, rd, S, count) /\ Holds(c, rd, S, count, n, v)
<1>0. \A i \in 0..S - 1 : c[i] = IF (i - wr) % S < n THEN v[(i - wr) % S] ELSE b[i]
  BY DEF Written
<1>1. ASSUME NEW j \in Int
      PROVE  \E i \in 0..S - 1 : i = (rd + j) % S /\ (i - wr) % S = (j - count) % S
  <2>1. PICK i \in 0..S - 1 : i = (rd + j) % S
    <3>1. PICK a \in Int : a = rd + j
      OBVIOUS
    <3>2. a % S \in 0..S - 1
      BY ModType, Zenon
    <3> QED  BY <3>1, <3>2
  <2>2. IsSlot(S, rd, j, i)
    BY <2>1 DEF IsSlot
  <2>3. (i - wr) % S = (j - count) % S
    <3>1. count \in Int /\ i \in Int
      OBVIOUS
    <3>2. SameDistance(S, i, wr, j, count)
      BY <3>1, <2>2, SlotDistance, Zenon
    <3> QED  BY <3>2 DEF SameDistance
  <2> QED  BY <2>1, <2>3
<1>2. ASSUME NEW k \in 0..count - 1 PROVE At(c, rd, S, k) = At(b, rd, S, k)
  <2>1. PICK i \in 0..S - 1 : i = (rd + k) % S /\ (i - wr) % S = (k - count) % S
    <3>1. k \in Int
      OBVIOUS
    <3> QED  BY <3>1, <1>1
  <2>2. (k - count) % S = S + k - count
    BY SlotUsed
  <2>3. ~((i - wr) % S < n)
    BY <2>1, <2>2
  <2>4. c[i] = b[i]
    BY <1>0, <2>3
  <2> QED  BY <2>1, <2>4 DEF At
<1>3. ASSUME NEW k \in 0..n - 1 PROVE At(c, rd, S, count + k) = v[k]
  <2>1. PICK j \in Int : j = count + k
    OBVIOUS
  <2>2. PICK i \in 0..S - 1 : i = (rd + j) % S /\ (i - wr) % S = (j - count) % S
    BY <1>1
  <2>3. k % S = k /\ j - count = k
    BY <2>1
  <2>4. c[i] = v[k]
    BY <1>0, <2>2, <2>3
  <2> QED  BY <2>1, <2>2, <2>4 DEF At
<1> QED  BY <1>2, <1>3 DEF Same, Holds

Shifted(b, rd, S, M, n, k) == At(b, (rd + n) % M, S, k) = At(b, rd, S, n + k)

(* Moving the read index drops the first elements.                         *)
LEMMA RingMoved ==
  ASSUME NEW S \in Nat \ {0}, NEW M \in Nat \ {0}, Divides(S, M), NEW rd \in Int,
         NEW n \in Int, NEW b, NEW k \in Int
  PROVE  Shifted(b, rd, S, M, n, k)
<1>1. PICK a \in Int, w \in Int : a = rd + n /\ w = a % M
  <2>1. PICK a \in Int : a = rd + n
    OBVIOUS
  <2>2. a % M \in Nat
    BY ModType, Zenon
  <2> QED  BY <2>1, <2>2
<1>2. PICK z \in Int : w = a + S * z
  BY <1>1, ModMod, Zenon
<1>3. PICK x \in Int : x = rd + (n + k)
  OBVIOUS
<1>4. w + k = x + S * z
  BY <1>1, <1>2, <1>3
<1>5. (x + S * z) % S = x % S
  BY ModShift, Zenon
<1> QED  BY <1>1, <1>3, <1>4, <1>5 DEF At, Shifted

(* Before the end of the ring elements lie next to each other.             *)
LEMMA RingStraight ==
  ASSUME NEW S \in Nat \ {0}, NEW rd \in Int, NEW b, NEW k \in Nat, NEW pos \in Nat,
         IsSlot(S, rd, 0, pos), pos + k < S
  PROVE  At(b, rd, S, k) = b[pos + k]
<1>1. PICK d \in Int : rd = S * d + pos
  <2>1. rd + 0 = rd /\ rd = S * (rd \div S) + (rd % S) /\ rd \div S \in Int
    BY DivMod
  <2> QED  BY <2>1 DEF IsSlot
<1>2. PICK i \in 0..S - 1 : i = pos + k
  OBVIOUS
<1>3. rd + k = S * d + i
  BY <1>1, <1>2
<1>4. (S * d + i) % S = i
  BY ModUnique
<1> QED  BY <1>2, <1>3, <1>4 DEF At
-----------------------------------------------------------------------------
(* What leaves the cache, and what is printed.                             *)

(* Bytes 1..d went one of two ways, each of them in order and once.        *)
Sorted(f, p, d) ==
  /\ f \in Seq(1..d) /\ p \in Seq(1..d)
  /\ Increasing(f) /\ Increasing(p)
  /\ Range(f) \cap Range(p) = {}
  /\ 1..d \subseteq Range(f) \cup Range(p)

Run(d, n) == [k \in 1..n |-> d + k]

LEMMA SortedSwap ==
  ASSUME NEW f, NEW p, NEW d, Sorted(f, p, d)
  PROVE  Sorted(p, f, d)
BY DEF Sorted

(* The next n bytes go one way.                                            *)
LEMMA RunAdded ==
  ASSUME NEW d \in Nat, NEW n \in Nat, NEW f, NEW p, Sorted(f, p, d)
  PROVE  Sorted(f \o Run(d, n), p, d + n)
<1> DEFINE g == f \o Run(d, n)
<1>1. /\ f \in Seq(1..d) /\ p \in Seq(1..d) /\ Increasing(f) /\ Increasing(p)
      /\ Range(f) \cap Range(p) = {} /\ 1..d \subseteq Range(f) \cup Range(p)
  BY DEF Sorted
<1>2. Run(d, n) \in Seq(1..d + n) /\ f \in Seq(1..d + n) /\ p \in Seq(1..d + n)
  <2>1. 1..d \subseteq 1..d + n
    OBVIOUS
  <2>2. Run(d, n) \in [1..n -> 1..d + n]
    BY DEF Run
  <2> QED  BY <1>1, <2>1, <2>2, SeqMonotonic
<1>3. /\ Len(Run(d, n)) = n /\ \A k \in 1..n : Run(d, n)[k] = d + k
  BY DEF Run
<1>4. /\ g \in Seq(1..d + n) /\ Len(g) = Len(f) + n /\ Len(f) \in Nat
      /\ \A i \in 1..Len(f) : g[i] = f[i] /\ f[i] \in 1..d
      /\ \A k \in 1..n : g[Len(f) + k] = d + k
  <2>1. /\ g \in Seq(1..d + n) /\ Len(g) = Len(f) + n /\ Len(f) \in Nat
        /\ \A i \in 1..Len(f) + n : g[i] = IF i <= Len(f) THEN f[i] ELSE Run(d, n)[i - Len(f)]
    <3>1. /\ g \in Seq(1..d + n) /\ Len(g) = Len(f) + Len(Run(d, n))
          /\ \A i \in 1..Len(f) + Len(Run(d, n)) :
               g[i] = IF i <= Len(f) THEN f[i] ELSE Run(d, n)[i - Len(f)]
      BY <1>2, ConcatProperties, Zenon
    <3>2. Len(f) \in Nat
      BY <1>1, LenProperties
    <3> HIDE DEF g
    <3> QED  BY <1>3, <3>1, <3>2
  <2>2. ASSUME NEW i \in 1..Len(f) PROVE g[i] = f[i] /\ f[i] \in 1..d
    <3>1. i \in 1..Len(f) + n /\ i <= Len(f)
      BY <2>1
    <3> QED  BY <1>1, <2>1, <3>1, ElementOfSeq
  <2>3. ASSUME NEW k \in 1..n PROVE g[Len(f) + k] = d + k
    <3>1. Len(f) + k \in 1..Len(f) + n /\ ~(Len(f) + k <= Len(f)) /\ Len(f) + k - Len(f) = k
      BY <2>1
    <3> QED  BY <1>3, <2>1, <3>1
  <2> QED  BY <2>1, <2>2, <2>3
<1> HIDE DEF g
<1>9. Len(g) \in Nat
  BY <1>4
<1>5. Increasing(g)
  <2> SUFFICES ASSUME NEW i \in 1..Len(g) - 1 PROVE g[i] < g[i + 1]
    BY DEF Increasing
  <2>1. CASE i + 1 <= Len(f)
    <3>1. i \in 1..Len(f) - 1 /\ i \in 1..Len(f) /\ i + 1 \in 1..Len(f)
      BY <1>4, <2>1
    <3>2. f[i] < f[i + 1]
      BY <1>1, <3>1 DEF Increasing
    <3> QED  BY <1>4, <3>1, <3>2
  <2>2. CASE i = Len(f)
    <3>1. i \in 1..Len(f) /\ 1 \in 1..n
      BY <1>4, <2>2
    <3>2. g[i] \in 1..d /\ g[i + 1] = d + 1
      BY <1>4, <2>2, <3>1
    <3> QED  BY <3>2
  <2>3. CASE i > Len(f)
    <3>0. PICK m \in Nat, l \in Nat : m = Len(f) /\ l = Len(g) /\ i \in 1..l - 1
      BY <1>4, <1>9
    <3>1. PICK k \in Int : k = i - Len(f)
      BY <3>0
    <3>2. k \in 1..n /\ k + 1 \in 1..n /\ i = Len(f) + k /\ i + 1 = Len(f) + (k + 1)
      BY <1>4, <1>9, <2>3, <3>1
    <3>3. g[i] = d + k /\ g[i + 1] = d + (k + 1)
      BY <1>4, <3>2
    <3> QED  BY <3>2, <3>3
  <2> QED  BY <1>4, <2>1, <2>2, <2>3
<1>6. Range(g) = Range(f) \cup d + 1..d + n
  <2>1. DOMAIN g = 1..Len(f) + n /\ DOMAIN f = 1..Len(f)
    BY <1>1, <1>4, LenProperties
  <2>2. ASSUME NEW x \in Range(g) PROVE x \in Range(f) \cup d + 1..d + n
    <3>1. PICK i \in 1..Len(f) + n : x = g[i]
      BY <2>1 DEF Range
    <3>2. CASE i <= Len(f)
      <4>1. i \in 1..Len(f)
        BY <1>4, <3>2
      <4> QED  BY <1>4, <2>1, <3>1, <4>1 DEF Range
    <3>3. CASE i > Len(f)
      <4>1. i - Len(f) \in 1..n /\ i = Len(f) + (i - Len(f))
        BY <1>4, <3>3
      <4>2. PICK k \in 1..n : i = Len(f) + k
        BY <4>1
      <4>3. x = d + k
        BY <1>4, <3>1, <4>2
      <4> QED  BY <4>3
    <3> QED  BY <1>4, <3>2, <3>3
  <2>3. ASSUME NEW x \in Range(f) PROVE x \in Range(g)
    <3>1. PICK i \in 1..Len(f) : x = f[i]
      BY <2>1 DEF Range
    <3>2. i \in DOMAIN g /\ x = g[i]
      BY <1>4, <2>1, <3>1
    <3> QED  BY <3>2 DEF Range
  <2>4. ASSUME NEW x \in d + 1..d + n PROVE x \in Range(g)
    <3>1. PICK k \in 1..n : x = d + k
      OBVIOUS
    <3>2. Len(f) + k \in DOMAIN g /\ x = g[Len(f) + k]
      BY <1>4, <2>1, <3>1
    <3> QED  BY <3>2 DEF Range
  <2> QED  BY <2>2, <2>3, <2>4
<1>7. Range(p) \subseteq 1..d
  BY <1>1, LenProperties, ElementOfSeq DEF Range
<1>8. Range(g) \cap Range(p) = {} /\ 1..d + n \subseteq Range(g) \cup Range(p)
  <2>1. (d + 1..d + n) \cap 1..d = {} /\ 1..d + n \subseteq 1..d \cup (d + 1..d + n)
    OBVIOUS
  <2> QED  BY <1>1, <1>6, <1>7, <2>1
<1> QED  BY <1>1, <1>2, <1>4, <1>5, <1>8 DEF Sorted, g

LEMMA FunctionIsSeq ==
  ASSUME NEW n \in Nat, NEW s \in [1..n -> Nat]
  PROVE  s \in Seq(Nat) /\ Len(s) = n
OBVIOUS

Assoc(s, t, u) == (s \o t) \o u = s \o (t \o u)

LEMMA ConcatNat ==
  ASSUME NEW s \in Seq(Nat), NEW t \in Seq(Nat), NEW u \in Seq(Nat)
  PROVE  Assoc(s, t, u)
BY ConcatAssociative, SMTT(60) DEF Assoc

(* A beginning of an increasing sequence is one.                           *)
LEMMA IncreasingPrefix ==
  ASSUME NEW s \in Seq(Nat), NEW t \in Seq(Nat), Increasing(s \o t)
  PROVE  Increasing(s)
<1> SUFFICES ASSUME NEW i \in 1..Len(s) - 1 PROVE s[i] < s[i + 1]
  BY DEF Increasing
<1>1. /\ Len(s) \in Nat /\ Len(t) \in Nat /\ Len(s \o t) = Len(s) + Len(t)
      /\ \A j \in 1..Len(s) + Len(t) :
           (s \o t)[j] = IF j <= Len(s) THEN s[j] ELSE t[j - Len(s)]
  BY ConcatProperties, LenProperties
<1>2. /\ i \in 1..Len(s \o t) - 1 /\ i \in 1..Len(s) + Len(t) /\ i + 1 \in 1..Len(s) + Len(t)
      /\ i <= Len(s) /\ i + 1 <= Len(s)
  BY <1>1
<1>3. (s \o t)[i] < (s \o t)[i + 1]
  BY <1>2 DEF Increasing
<1> QED  BY <1>1, <1>2, <1>3

LEMMA RangeConcat ==
  ASSUME NEW s \in Seq(Nat), NEW t \in Seq(Nat)
  PROVE  Range(s \o t) = Range(s) \cup Range(t)
<1> DEFINE g == s \o t
<1>1. /\ Len(s) \in Nat /\ Len(t) \in Nat
      /\ \A j \in 1..Len(s) + Len(t) : g[j] = IF j <= Len(s) THEN s[j] ELSE t[j - Len(s)]
      /\ DOMAIN g = 1..Len(s) + Len(t) /\ DOMAIN s = 1..Len(s) /\ DOMAIN t = 1..Len(t)
  BY ConcatProperties, LenProperties
<1> HIDE DEF g
<1>2. ASSUME NEW x \in Range(g) PROVE x \in Range(s) \cup Range(t)
  <2>1. PICK j \in 1..Len(s) + Len(t) : x = g[j]
    BY <1>1 DEF Range
  <2>2. CASE j <= Len(s)
    BY <1>1, <2>1, <2>2 DEF Range
  <2>3. CASE j > Len(s)
    <3>1. j - Len(s) \in 1..Len(t) /\ ~(j <= Len(s))
      BY <1>1, <2>3
    <3> QED  BY <1>1, <2>1, <3>1 DEF Range
  <2> QED  BY <1>1, <2>2, <2>3
<1>3. ASSUME NEW x \in Range(s) PROVE x \in Range(g)
  <2>1. PICK j \in 1..Len(s) : x = s[j]
    BY <1>1 DEF Range
  <2>2. j \in DOMAIN g /\ g[j] = x
    BY <1>1, <2>1
  <2> QED  BY <2>2 DEF Range
<1>4. ASSUME NEW x \in Range(t) PROVE x \in Range(g)
  <2>1. PICK j \in 1..Len(t) : x = t[j]
    BY <1>1 DEF Range
  <2>2. PICK i \in 1..Len(s) + Len(t) : i = Len(s) + j
    BY <1>1
  <2>3. i - Len(s) = j /\ ~(i <= Len(s))
    BY <1>1, <2>2
  <2>4. i \in DOMAIN g /\ g[i] = x
    BY <1>1, <2>1, <2>3
  <2> QED  BY <2>4 DEF Range
<1> QED  BY <1>2, <1>3, <1>4 DEF g
-----------------------------------------------------------------------------
(* What the rings hold, as statements about their contents.                *)

(* v is n bytes after the first d.                                         *)
Numbered(v, n, d) == \A k \in 0..n - 1 : v[k] = d + k + 1

(* The EMI ring holds the bytes after the first `gone' ones.               *)
EmiHolds(emi, rd, count, gone) ==
  \A k \in 0..count - 1 : At(emi, rd, EmiSize, k) = gone + k + 1

LEMMA EmiHoldsMore ==
  ASSUME NEW rd \in Int, NEW count \in 0..EmiSize - 1, NEW n \in 0..EmiSize - 1 - count,
         NEW wr \in Int, IsSlot(EmiSize, rd, count, wr), NEW gone \in Nat,
         NEW v, NEW b, NEW c, Written(b, c, EmiSize, wr, n, v), Numbered(v, n, gone + count),
         EmiHolds(b, rd, count, gone)
  PROVE  EmiHolds(c, rd, count + n, gone)
<1>1. /\ EmiSize \in Nat \ {0} /\ Divides(EmiSize, EmiSize)
      /\ count \in 0..EmiSize /\ n \in 0..EmiSize - count
  BY ConnsysLogAssumption DEF Divides
<1>2. Same(b, c, rd, EmiSize, count) /\ Holds(c, rd, EmiSize, count, n, v)
  BY <1>1, RingWritten, Zenon
<1> SUFFICES ASSUME NEW k \in 0..count + n - 1 PROVE At(c, rd, EmiSize, k) = gone + k + 1
  BY DEF EmiHolds
<1>3. CASE k < count
  BY <1>2, <1>3 DEF EmiHolds, Same
<1>4. CASE k >= count
  <2>1. PICK j \in 0..n - 1 : k = count + j
    <3>1. k - count \in 0..n - 1 /\ k = count + (k - count)
      BY <1>4
    <3> QED  BY <3>1
  <2>2. At(c, rd, EmiSize, k) = v[j] /\ v[j] = gone + count + j + 1
    BY <1>2, <2>1 DEF Holds, Numbered
  <2> QED  BY <2>1, <2>2
<1> QED  BY <1>3, <1>4

LEMMA EmiHoldsLess ==
  ASSUME NEW b, NEW rd \in Int, NEW count \in Nat, NEW n \in 0..count, NEW gone \in Nat,
         EmiHolds(b, rd, count, gone)
  PROVE  EmiHolds(b, (rd + n) % EmiSize, count - n, gone + n)
<1>1. EmiSize \in Nat \ {0} /\ Divides(EmiSize, EmiSize) /\ n \in Int
  BY ConnsysLogAssumption DEF Divides
<1> SUFFICES ASSUME NEW k \in 0..count - n - 1
             PROVE  At(b, (rd + n) % EmiSize, EmiSize, k) = gone + n + k + 1
  BY DEF EmiHolds
<1>2. k \in Int /\ n + k \in 0..count - 1
  OBVIOUS
<1>3. At(b, (rd + n) % EmiSize, EmiSize, k) = At(b, rd, EmiSize, n + k)
  <2>1. Shifted(b, rd, EmiSize, EmiSize, n, k)
    BY <1>1, <1>2, RingMoved, Zenon
  <2> QED  BY <2>1 DEF Shifted
<1>4. At(b, rd, EmiSize, n + k) = gone + (n + k) + 1
  BY <1>2 DEF EmiHolds
<1> QED  BY <1>3, <1>4

LEMMA EmiHoldsAt ==
  ASSUME NEW b, NEW rd \in 0..EmiSize - 1, NEW count \in Nat, NEW gone \in Nat,
         EmiHolds(b, rd, count, gone), NEW k \in 0..count - 1, rd + k < EmiSize
  PROVE  b[rd + k] = gone + k + 1
<1>1. EmiSize \in Nat \ {0} /\ rd \in Int /\ k \in Nat /\ rd \in Nat
  BY ConnsysLogAssumption
<1>2. IsSlot(EmiSize, rd, 0, rd)
  BY <1>1 DEF IsSlot
<1>3. At(b, rd, EmiSize, k) = b[rd + k]
  BY <1>1, <1>2, RingStraight
<1> QED  BY <1>1, <1>3 DEF EmiHolds

(* What of the cache no reader has taken yet.                              *)
Rest(ca, rd, count, taken) ==
  [k \in 1..count - taken |-> At(ca, rd, CacheSize, taken + k - 1)]

IsCache(ca) == ca \in [0..CacheSize - 1 -> Nat]

(* s is count - taken elements of the cache.                               *)
IsRest(s, ca, rd, count, taken) ==
  /\ s \in Seq(Nat) /\ Len(s) = count - taken
  /\ \A k \in 1..count - taken : s[k] = At(ca, rd, CacheSize, taken + k - 1)

LEMMA RestIs ==
  ASSUME NEW ca, IsCache(ca), NEW rd \in Int, NEW count \in Nat, NEW taken \in 0..count
  PROVE  IsRest(Rest(ca, rd, count, taken), ca, rd, count, taken)
<1>1. \A k \in Int : At(ca, rd, CacheSize, k) \in Nat
  <2> SUFFICES ASSUME NEW k \in Int PROVE At(ca, rd, CacheSize, k) \in Nat
    OBVIOUS
  <2>1. (rd + k) % CacheSize \in 0..CacheSize - 1
    <3>1. rd + k \in Int /\ CacheSize \in Nat \ {0}
      BY ConnsysLogAssumption
    <3> QED  BY <3>1, ModType, Zenon
  <2> QED  BY <2>1 DEF At, IsCache
<1>2. PICK n \in Nat : n = count - taken
  OBVIOUS
<1>3. Rest(ca, rd, count, taken) = [k \in 1..n |-> At(ca, rd, CacheSize, taken + k - 1)]
  BY <1>2 DEF Rest
<1>4. \A k \in 1..n : taken + k - 1 \in Int
  OBVIOUS
<1> DEFINE r == Rest(ca, rd, count, taken)
<1>5. r \in [1..n -> Nat] /\ \A k \in 1..n : r[k] = At(ca, rd, CacheSize, taken + k - 1)
  BY <1>1, <1>3, <1>4
<1> HIDE DEF r
<1>6. r \in Seq(Nat) /\ Len(r) = n
  BY <1>5
<1> QED  BY <1>2, <1>5, <1>6 DEF IsRest, r

LEMMA RestEqual ==
  ASSUME NEW ca, IsCache(ca), NEW rd \in Int, NEW count \in Nat, NEW taken \in 0..count,
         NEW s, IsRest(s, ca, rd, count, taken)
  PROVE  s = Rest(ca, rd, count, taken)
<1> DEFINE r == Rest(ca, rd, count, taken)
<1>1. IsRest(r, ca, rd, count, taken)
  BY RestIs, Zenon
<1> HIDE DEF r
<1>2. /\ s \in Seq(Nat) /\ r \in Seq(Nat) /\ Len(s) = Len(r)
      /\ \A k \in 1..Len(s) : s[k] = r[k]
  BY <1>1 DEF IsRest
<1> QED  BY <1>2, SeqEqual DEF r

(* Writing behind it leaves it alone, ...                                  *)
LEMMA RestKept ==
  ASSUME NEW b, IsCache(b), NEW c, IsCache(c), NEW rd \in Int, NEW count \in Nat,
         NEW taken \in 0..count, Same(b, c, rd, CacheSize, count)
  PROVE  Rest(c, rd, count, taken) = Rest(b, rd, count, taken)
<1>1. \A k \in 1..count - taken : taken + k - 1 \in 0..count - 1
  OBVIOUS
<1> QED  BY <1>1 DEF Rest, Same

(* ... the commit appends what was written, ...                            *)
Appended(ca, rd, count, taken, d, n) ==
  Rest(ca, rd, count + n, taken) = Rest(ca, rd, count, taken) \o Run(d, n)

LEMMA RestMore ==
  ASSUME NEW ca, IsCache(ca), NEW rd \in Int, NEW count \in Nat, NEW taken \in 0..count,
         NEW n \in Nat, NEW d \in Nat, NEW v, Holds(ca, rd, CacheSize, count, n, v),
         Numbered(v, n, d)
  PROVE  Appended(ca, rd, count, taken, d, n)
<1> DEFINE r == Rest(ca, rd, count, taken)
           s == r \o Run(d, n)
<1>1. /\ r \in Seq(Nat) /\ Len(r) = count - taken
      /\ \A k \in 1..count - taken : r[k] = At(ca, rd, CacheSize, taken + k - 1)
  BY RestIs DEF IsRest
<1>2. Run(d, n) \in Seq(Nat) /\ Len(Run(d, n)) = n /\ \A k \in 1..n : Run(d, n)[k] = d + k
  <2>1. Run(d, n) \in [1..n -> Nat]
    BY DEF Run
  <2> QED  BY <2>1 DEF Run
<1> HIDE DEF r
<1>3. /\ s \in Seq(Nat) /\ Len(s) = Len(r) + Len(Run(d, n))
      /\ \A k \in 1..Len(r) + Len(Run(d, n)) :
           s[k] = IF k <= Len(r) THEN r[k] ELSE Run(d, n)[k - Len(r)]
  BY <1>1, <1>2, ConcatProperties, Zenon
<1> HIDE DEF s
<1>4. Len(s) = count + n - taken
  BY <1>1, <1>2, <1>3
<1>5. ASSUME NEW k \in 1..count + n - taken
      PROVE  s[k] = At(ca, rd, CacheSize, taken + k - 1)
  <2>1. CASE k <= count - taken
    BY <1>1, <1>2, <1>3, <2>1
  <2>2. CASE k > count - taken
    <3>1. PICK j \in 0..n - 1 : k = count - taken + j + 1
      <4>1. k - (count - taken) - 1 \in 0..n - 1
        BY <2>2
      <4> QED  BY <4>1
    <3>2. j + 1 \in 1..n /\ k - Len(r) = j + 1 /\ ~(k <= Len(r)) /\ taken + k - 1 = count + j
      BY <1>1, <3>1
    <3>3. s[k] = d + (j + 1)
      <4>1. k \in 1..Len(r) + Len(Run(d, n))
        BY <1>1, <1>2
      <4>2. s[k] = Run(d, n)[j + 1]
        BY <1>3, <3>2, <4>1
      <4> QED  BY <1>2, <3>2, <4>2
    <3>4. At(ca, rd, CacheSize, taken + k - 1) = d + j + 1
      BY <3>2 DEF Holds, Numbered
    <3> QED  BY <3>3, <3>4
  <2> QED  BY <2>1, <2>2
<1>6. count + n \in Nat /\ taken \in 0..count + n
  OBVIOUS
<1>7. s = Rest(ca, rd, count + n, taken)
  <2>1. IsRest(s, ca, rd, count + n, taken)
    BY <1>3, <1>4, <1>5 DEF IsRest
  <2> QED  BY <1>6, <2>1, RestEqual
<1> QED  BY <1>7 DEF s, r, Appended

(* ... a reader takes its beginning ...                                    *)
Taken(ca, rd, count, n, t) == Rest(ca, rd, count, 0) = t \o Rest(ca, rd, count, n)

LEMMA RestTaken ==
  ASSUME NEW ca, IsCache(ca), NEW rd \in Int, NEW count \in Nat, NEW n \in 0..count,
         NEW pos \in Nat, IsSlot(CacheSize, rd, 0, pos), pos + n <= CacheSize,
         NEW t, t = [k \in 1..n |-> ca[pos + k - 1]]
  PROVE  t \in Seq(Nat) /\ Taken(ca, rd, count, n, t)
<1> DEFINE r == Rest(ca, rd, count, n)
           s == t \o r
<1>1. /\ r \in Seq(Nat) /\ Len(r) = count - n
      /\ \A k \in 1..count - n : r[k] = At(ca, rd, CacheSize, n + k - 1)
  BY RestIs DEF IsRest
<1>2. \A k \in 1..n : ca[pos + k - 1] \in Nat
  <2> SUFFICES ASSUME NEW k \in 1..n PROVE ca[pos + k - 1] \in Nat
    OBVIOUS
  <2>1. pos + k - 1 \in 0..CacheSize - 1
    BY ConnsysLogAssumption
  <2> QED  BY <2>1 DEF IsCache
<1>3. t \in Seq(Nat) /\ Len(t) = n /\ \A k \in 1..n : t[k] = ca[pos + k - 1]
  <2>1. t \in [1..n -> Nat] /\ \A k \in 1..n : t[k] = ca[pos + k - 1]
    BY <1>2
  <2>2. n \in Nat
    OBVIOUS
  <2>3. t \in Seq(Nat) /\ Len(t) = n
    BY <2>1, <2>2, FunctionIsSeq, Zenon
  <2> QED  BY <2>1, <2>3
<1>4. ASSUME NEW k \in 1..n PROVE t[k] = At(ca, rd, CacheSize, k - 1)
  <2>1. PICK j \in Nat : j = k - 1
    OBVIOUS
  <2>2. pos + j < CacheSize /\ CacheSize \in Nat \ {0}
    BY <2>1, ConnsysLogAssumption
  <2>3. At(ca, rd, CacheSize, j) = ca[pos + j]
    BY <2>2, RingStraight
  <2>4. pos + k - 1 = pos + j
    BY <2>1
  <2> QED  BY <1>3, <2>1, <2>3, <2>4
<1> HIDE DEF r
<1>5. /\ s \in Seq(Nat) /\ Len(s) = Len(t) + Len(r)
      /\ \A k \in 1..Len(t) + Len(r) : s[k] = IF k <= Len(t) THEN t[k] ELSE r[k - Len(t)]
  BY <1>1, <1>3, ConcatProperties, ZenonT(60)
<1> HIDE DEF s
<1>6. Len(s) = count - 0
  BY <1>1, <1>3, <1>5
<1>7. ASSUME NEW k \in 1..count - 0 PROVE s[k] = At(ca, rd, CacheSize, 0 + k - 1)
  <2>1. CASE k <= n
    <3>1. s[k] = t[k] /\ 0 + k - 1 = k - 1
      BY <1>1, <1>3, <1>5, <2>1
    <3> QED  BY <1>4, <2>1, <3>1
  <2>2. CASE k > n
    <3>1. PICK j \in 1..count - n : k = n + j
      <4>1. k - n \in 1..count - n
        BY <2>2
      <4> QED  BY <4>1
    <3>2. k - Len(t) = j /\ ~(k <= Len(t)) /\ 0 + k - 1 = n + j - 1
      BY <1>3, <3>1
    <3> QED  BY <1>1, <1>3, <1>5, <3>1, <3>2
  <2> QED  BY <2>1, <2>2
<1>8. 0 \in 0..count
  OBVIOUS
<1>9. s = Rest(ca, rd, count, 0)
  <2>1. IsRest(s, ca, rd, count, 0)
    BY <1>5, <1>6, <1>7 DEF IsRest
  <2> QED  BY <1>8, <2>1, RestEqual
<1> QED  BY <1>3, <1>9 DEF s, r, Taken

(* ... and leaves it behind.                                               *)
LEMMA RestMoved ==
  ASSUME NEW ca, IsCache(ca), NEW rd \in Int, NEW count \in Nat, NEW n \in 0..count
  PROVE  Rest(ca, (rd + n) % Modulus, count - n, 0) = Rest(ca, rd, count, n)
<1>1. /\ CacheSize \in Nat \ {0} /\ Modulus \in Nat \ {0} /\ Divides(CacheSize, Modulus)
      /\ n \in Int
  BY ConnsysLogAssumption DEF Divides
<1>2. ASSUME NEW k \in Int
      PROVE  At(ca, (rd + n) % Modulus, CacheSize, k) = At(ca, rd, CacheSize, n + k)
  <2>1. Shifted(ca, rd, CacheSize, Modulus, n, k)
    BY <1>1, RingMoved, Zenon
  <2> QED  BY <2>1 DEF Shifted
<1>3. ASSUME NEW k \in 1..count - n
      PROVE  At(ca, (rd + n) % Modulus, CacheSize, 0 + k - 1) = At(ca, rd, CacheSize, n + k - 1)
  <2>1. PICK j \in Int : j = 0 + k - 1
    OBVIOUS
  <2>2. n + j = n + k - 1
    BY <2>1
  <2> QED  BY <1>2, <2>1, <2>2
<1>4. count - n - 0 = count - n
  OBVIOUS
<1> QED  BY <1>3, <1>4 DEF Rest
-----------------------------------------------------------------------------
(* The cache holds what went to readers or will: with what is printed, d   *)
(* bytes. A reader may have taken the first ones without giving them back. *)
CacheHolds(ca, rd, count, taken, o, p, d) ==
  /\ IsCache(ca) /\ o \in Seq(Nat)
  /\ Sorted(o \o Rest(ca, rd, count, taken), p, d)
  /\ \A k \in 0..count - 1 : At(ca, rd, CacheSize, k) \in 1..d

LEMMA CacheWritten ==
  ASSUME NEW b, NEW c, NEW rd \in Int, NEW count \in Nat, NEW taken \in 0..count,
         NEW o, NEW p, NEW d, CacheHolds(b, rd, count, taken, o, p, d),
         IsCache(c), Same(b, c, rd, CacheSize, count)
  PROVE  CacheHolds(c, rd, count, taken, o, p, d)
<1>1. IsCache(b)
  BY DEF CacheHolds
<1>2. Rest(c, rd, count, taken) = Rest(b, rd, count, taken)
  BY <1>1, RestKept
<1>3. \A k \in 0..count - 1 : At(c, rd, CacheSize, k) = At(b, rd, CacheSize, k)
  BY DEF Same
<1> QED  BY <1>2, <1>3 DEF CacheHolds

LEMMA CacheCommitted ==
  ASSUME NEW ca, NEW rd \in Int, NEW count \in Nat, NEW taken \in 0..count,
         NEW o, NEW p, NEW d \in Nat, CacheHolds(ca, rd, count, taken, o, p, d),
         NEW n \in Nat, NEW v, Holds(ca, rd, CacheSize, count, n, v), Numbered(v, n, d)
  PROVE  CacheHolds(ca, rd, count + n, taken, o, p, d + n)
<1> DEFINE r == Rest(ca, rd, count, taken)
<1>1. IsCache(ca) /\ o \in Seq(Nat) /\ Sorted(o \o r, p, d)
  BY DEF CacheHolds
<1>2. r \in Seq(Nat)
  BY <1>1, RestIs DEF IsRest
<1>3. Run(d, n) \in Seq(Nat)
  <2>1. Run(d, n) \in [1..n -> Nat]
    BY DEF Run
  <2> QED  BY <2>1, FunctionIsSeq, Zenon
<1>4. Rest(ca, rd, count + n, taken) = r \o Run(d, n)
  <2>1. Appended(ca, rd, count, taken, d, n)
    BY <1>1, RestMore, Zenon
  <2> QED  BY <2>1 DEF Appended
<1> HIDE DEF r
<1>5. o \o Rest(ca, rd, count + n, taken) = (o \o r) \o Run(d, n)
  <2>1. (o \o r) \o Run(d, n) = o \o (r \o Run(d, n))
    BY <1>1, <1>2, <1>3, ConcatNat DEF Assoc
  <2> QED  BY <1>4, <2>1
<1>6. Sorted((o \o r) \o Run(d, n), p, d + n)
  BY <1>1, RunAdded, Zenon
<1>7. ASSUME NEW k \in 0..count + n - 1 PROVE At(ca, rd, CacheSize, k) \in 1..d + n
  <2>1. CASE k < count
    <3>1. At(ca, rd, CacheSize, k) \in 1..d
      BY <2>1 DEF CacheHolds
    <3> QED  BY <3>1
  <2>2. CASE k >= count
    <3>1. PICK j \in 0..n - 1 : k = count + j
      <4>1. k - count \in 0..n - 1
        BY <2>2
      <4> QED  BY <4>1
    <3>2. At(ca, rd, CacheSize, k) = d + j + 1
      BY <3>1 DEF Holds, Numbered
    <3> QED  BY <3>2
  <2> QED  BY <2>1, <2>2
<1>8. Sorted(o \o Rest(ca, rd, count + n, taken), p, d + n)
  BY <1>5, <1>6
<1> QED  BY <1>1, <1>7, <1>8 DEF CacheHolds

LEMMA CachePrinted ==
  ASSUME NEW ca, NEW rd \in Int, NEW count \in Nat, NEW taken \in 0..count,
         NEW o, NEW p, NEW d \in Nat, CacheHolds(ca, rd, count, taken, o, p, d), NEW n \in Nat
  PROVE  CacheHolds(ca, rd, count, taken, o, p \o Run(d, n), d + n)
<1> DEFINE f == o \o Rest(ca, rd, count, taken)
<1>1. IsCache(ca) /\ o \in Seq(Nat) /\ Sorted(f, p, d)
  BY DEF CacheHolds
<1> HIDE DEF f
<1>2. Sorted(p \o Run(d, n), f, d + n)
  BY <1>1, SortedSwap, RunAdded, Zenon
<1>3. Sorted(f, p \o Run(d, n), d + n)
  BY <1>2, SortedSwap, Zenon
<1>4. \A k \in 0..count - 1 : At(ca, rd, CacheSize, k) \in 1..d + n
  <2>1. 1..d \subseteq 1..d + n
    OBVIOUS
  <2> QED  BY <2>1 DEF CacheHolds
<1> QED  BY <1>1, <1>3, <1>4 DEF CacheHolds, f

LEMMA CacheTaken ==
  ASSUME NEW ca, NEW rd \in Int, NEW count \in Nat, NEW n \in 0..count,
         NEW o, NEW p, NEW d, CacheHolds(ca, rd, count, 0, o, p, d),
         NEW pos \in Nat, IsSlot(CacheSize, rd, 0, pos), pos + n <= CacheSize,
         NEW t, t = [k \in 1..n |-> ca[pos + k - 1]]
  PROVE  CacheHolds(ca, rd, count, n, o \o t, p, d)
<1>1. IsCache(ca) /\ o \in Seq(Nat) /\ Sorted(o \o Rest(ca, rd, count, 0), p, d)
  BY DEF CacheHolds
<1> DEFINE r == Rest(ca, rd, count, n)
<1>2. t \in Seq(Nat) /\ Rest(ca, rd, count, 0) = t \o r
  <2>1. t \in Seq(Nat) /\ Taken(ca, rd, count, n, t)
    BY <1>1, RestTaken, Zenon
  <2> QED  BY <2>1 DEF Taken
<1>3. r \in Seq(Nat)
  BY <1>1, RestIs DEF IsRest
<1> HIDE DEF r
<1>4. (o \o t) \o r = o \o Rest(ca, rd, count, 0) /\ o \o t \in Seq(Nat)
  <2>1. Assoc(o, t, r)
    BY <1>1, <1>2, <1>3, ConcatNat, Zenon
  <2>2. o \o t \in Seq(Nat)
    BY <1>1, <1>2, ConcatProperties
  <2> QED  BY <1>2, <2>1, <2>2 DEF Assoc
<1>5. Sorted((o \o t) \o r, p, d)
  BY <1>1, <1>4
<1> QED  BY <1>1, <1>4, <1>5 DEF CacheHolds, r

LEMMA CacheMoved ==
  ASSUME NEW ca, NEW rd \in Int, NEW count \in Nat, NEW n \in 0..count,
         NEW o, NEW p, NEW d, CacheHolds(ca, rd, count, n, o, p, d)
  PROVE  CacheHolds(ca, (rd + n) % Modulus, count - n, 0, o, p, d)
<1>1. IsCache(ca) /\ o \in Seq(Nat) /\ Sorted(o \o Rest(ca, rd, count, n), p, d)
  BY DEF CacheHolds
<1>2. Rest(ca, (rd + n) % Modulus, count - n, 0) = Rest(ca, rd, count, n)
  BY <1>1, RestMoved
<1>3. ASSUME NEW k \in 0..count - n - 1
      PROVE  At(ca, (rd + n) % Modulus, CacheSize, k) \in 1..d
  <2>1. /\ CacheSize \in Nat \ {0} /\ Modulus \in Nat \ {0} /\ Divides(CacheSize, Modulus)
        /\ n \in Int /\ k \in Int /\ n + k \in 0..count - 1
    BY ConnsysLogAssumption DEF Divides
  <2>2. Shifted(ca, rd, CacheSize, Modulus, n, k)
    BY <2>1, RingMoved, Zenon
  <2>3. At(ca, rd, CacheSize, n + k) \in 1..d
    BY <2>1 DEF CacheHolds
  <2> QED  BY <2>2, <2>3 DEF Shifted
<1> QED  BY <1>1, <1>2, <1>3 DEF CacheHolds

(* What it means for the log.                                              *)
LEMMA CacheMeans ==
  ASSUME NEW ca, NEW rd \in Int, NEW count \in Nat, NEW taken \in 0..count,
         NEW o, NEW p, NEW d \in Nat, CacheHolds(ca, rd, count, taken, o, p, d)
  PROVE  /\ Increasing(o) /\ Increasing(p) /\ Range(o) \cap Range(p) = {}
         /\ 1..d = Range(o) \cup Range(p) \cup {At(ca, rd, CacheSize, k) : k \in 0..count - 1}
<1> DEFINE r == Rest(ca, rd, count, taken)
<1>1. /\ IsCache(ca) /\ o \in Seq(Nat)
      /\ Increasing(o \o r) /\ Increasing(p) /\ Range(o \o r) \cap Range(p) = {}
      /\ 1..d \subseteq Range(o \o r) \cup Range(p)
      /\ o \o r \in Seq(1..d) /\ p \in Seq(1..d)
  BY DEF CacheHolds, Sorted
<1>8. IsCache(ca)
  BY <1>1
<1>2. /\ r \in Seq(Nat) /\ Len(r) = count - taken
      /\ \A k \in 1..count - taken : r[k] = At(ca, rd, CacheSize, taken + k - 1)
  BY <1>8, RestIs DEF IsRest
<1> HIDE DEF r
<1>3. Range(o \o r) = Range(o) \cup Range(r)
  BY <1>1, <1>2, RangeConcat
<1>4. Increasing(o)
  BY <1>1, <1>2, IncreasingPrefix, Zenon
<1>5. Range(r) \subseteq {At(ca, rd, CacheSize, k) : k \in 0..count - 1}
  <2>1. SUFFICES ASSUME NEW x \in Range(r)
                 PROVE  \E k \in 0..count - 1 : x = At(ca, rd, CacheSize, k)
    OBVIOUS
  <2>2. PICK j \in 1..count - taken : x = r[j]
    BY <1>2, LenProperties DEF Range
  <2>3. taken + j - 1 \in 0..count - 1
    OBVIOUS
  <2> QED  BY <1>2, <2>2, <2>3
<1>6. Range(o \o r) \subseteq 1..d /\ Range(p) \subseteq 1..d
  <2>1. ASSUME NEW s \in Seq(1..d) PROVE Range(s) \subseteq 1..d
    BY LenProperties, ElementOfSeq DEF Range
  <2> QED  BY <1>1, <2>1
<1>7. {At(ca, rd, CacheSize, k) : k \in 0..count - 1} \subseteq 1..d
  BY DEF CacheHolds
<1> QED  BY <1>1, <1>3, <1>4, <1>5, <1>6, <1>7
-----------------------------------------------------------------------------
(* The EMI ring: its indexes wrap at its size.                             *)
LEMMA EmiIndexes ==
  ASSUME IndexTypes
  PROVE  /\ EmiCount \in 0..EmiSize - 1
         /\ EmiCount = 0 <=> emiRd = emiWr
         /\ \A n \in 0..EmiCount :
              /\ (emiRd + n) % EmiSize \in 0..EmiSize - 1
              /\ (emiWr - ((emiRd + n) % EmiSize)) % EmiSize = EmiCount - n
         /\ \A n \in 0..EmiSize - 1 - EmiCount :
              /\ (emiWr + n) % EmiSize \in 0..EmiSize - 1
              /\ (((emiWr + n) % EmiSize) - emiRd) % EmiSize = EmiCount + n
BY ConnsysLogAssumption DEF IndexTypes, EmiCount

LEMMA EmiTake ==
  ASSUME IndexTypes, NEW n \in 0..EmiCount, NEW i \in Int, i = (emiRd + n) % EmiSize
  PROVE  i \in 0..EmiSize - 1 /\ (emiWr - i) % EmiSize = EmiCount - n
BY ConnsysLogAssumption DEF IndexTypes, EmiCount

(* A segment of n bytes is some of them, and all that fit before the end.  *)
LEMMA EmiSegment ==
  ASSUME NEW i \in 0..EmiSize - 1, NEW n \in Nat
  PROVE  /\ EmiSeg(i, n) \in 0..n /\ i + EmiSeg(i, n) <= EmiSize
         /\ EmiSeg(i, n) = 0 => n = 0
BY ConnsysLogAssumption DEF EmiSeg, Least

LEMMA CacheSegment ==
  ASSUME NEW i \in Nat, NEW n \in Nat
  PROVE  /\ CacheSeg(i, n) \in 0..n /\ (i % CacheSize) + CacheSeg(i, n) <= CacheSize
         /\ i % CacheSize \in Nat
         /\ CacheSeg(i, n) = 0 => n = 0
<1>1. CacheSize \in Nat \ {0} /\ i \in Int
  BY ConnsysLogAssumption
<1>2. i % CacheSize \in 0..CacheSize - 1
  BY <1>1, ModType
<1> QED  BY <1>1, <1>2 DEF CacheSeg, Least

(* The cache: its indexes wrap at Modulus.                                 *)
LEMMA CacheIndexes ==
  ASSUME IndexTypes
  PROVE  /\ CaCount \in 0..Modulus - 1
         /\ CaRoom \in 0..Modulus - 1
         /\ CaCount <= CacheSize => CaRoom = CacheSize - CaCount
         /\ \A n \in 0..CaCount :
              /\ (caRd + n) % Modulus \in 0..Modulus - 1
              /\ (caWr - ((caRd + n) % Modulus)) % Modulus = CaCount - n
         /\ \A n \in 0..Modulus - 1 - CaCount :
              /\ (caWr + n) % Modulus \in 0..Modulus - 1
              /\ (((caWr + n) % Modulus) - caRd) % Modulus = CaCount + n
<1>1. CaCount \in 0..Modulus - 1
  BY ConnsysLogAssumption DEF IndexTypes, CaCount
<1>2. /\ CaRoom \in 0..Modulus - 1
      /\ CaCount <= CacheSize => CaRoom = CacheSize - CaCount
  BY <1>1, ConnsysLogAssumption DEF CaRoom
<1> QED  BY <1>1, <1>2, ConnsysLogAssumption, SMTT(60) DEF IndexTypes, CaCount
-----------------------------------------------------------------------------
(* No data is forgotten in the EMI ring.                                   *)

(* Initially there is none.                                                *)
LEMMA WakeInit == Init => WakeAll
<1> SUFFICES ASSUME Init PROVE WakeAll
  OBVIOUS
<1>1. IndexTypes /\ WorkTypes /\ ReadTypes
  <2>1. IndexTypes
    BY ConnsysLogAssumption DEF Init, IndexTypes
  <2>2. WorkTypes
    BY DEF Init, WorkTypes, WorkPcs
  <2>3. ReadTypes
    BY DEF Init, ReadTypes, ReadPcs
  <2> QED  BY <2>1, <2>2, <2>3
<1>2. ClaimInv /\ WakeInv
  BY DEF Init, ClaimInv, WakeInv, Claiming
<1> QED  BY <1>1, <1>2 DEF WakeAll

(* Writing raises the interrupt.                                           *)
LEMMA FirmwareWake == WakeAll /\ Firmware => WakeAll'
<1> SUFFICES ASSUME WakeAll, Firmware PROVE WakeAll'
  OBVIOUS
<1>1. PICK n \in 1..EmiSize - 1 : FwWrite(n)
  BY DEF Firmware
<1>2. /\ n \in 0..EmiSize - 1 - EmiCount
      /\ emiWr' = (emiWr + n) % EmiSize /\ produced' = produced + n /\ irq' = TRUE
      /\ UNCHANGED <<emiRd, caRd, caWr, schedVars, workVars, readVars>>
  BY <1>1, EmiIndexes, ConnsysLogAssumption DEF WakeAll, FwWrite, caVars
<1>3. emiWr' \in 0..EmiSize - 1 /\ EmiCount' = EmiCount + n
  BY <1>2, EmiIndexes DEF WakeAll, EmiCount
<1>4. IndexTypes' /\ WorkTypes' /\ ReadTypes'
  BY <1>2, <1>3 DEF WakeAll, IndexTypes, WorkTypes, ReadTypes, schedVars, workVars, readVars
<1>5. ClaimInv'
  BY <1>2, <1>3, EmiIndexes DEF WakeAll, ClaimInv, WorkTypes, workVars
<1>6. WakeInv'
  BY <1>2 DEF WakeInv
<1> QED  BY <1>4, <1>5, <1>6 DEF WakeAll

(* The interrupt, the timer and the alarm queue the work.                  *)
LEMMA ScheduleWake == WakeAll /\ (Irq \/ TimerFires \/ Alarm) => WakeAll'
<1> SUFFICES ASSUME WakeAll, Irq \/ TimerFires \/ Alarm PROVE WakeAll'
  OBVIOUS
<1>1. /\ pending' = TRUE /\ eirqOn' = pending
      /\ irq' \in BOOLEAN /\ timer' \in BOOLEAN
      /\ UNCHANGED <<emiVars, caVars, produced, workVars, readVars>>
  BY DEF Irq, TimerFires, Alarm, Schedule, WakeAll, WorkTypes, fwVars
<1>2. IndexTypes' /\ WorkTypes' /\ ReadTypes'
  BY <1>1 DEF WakeAll, IndexTypes, WorkTypes, ReadTypes, emiVars, caVars, workVars, readVars
<1>3. ClaimInv' /\ WakeInv'
  BY <1>1 DEF WakeAll, ClaimInv, WakeInv, EmiCount, emiVars, workVars
<1> QED  BY <1>2, <1>3 DEF WakeAll

(* A reader and a change of mode touch neither the EMI ring nor the work.  *)
LEMMA ReadTypesStep ==
  ASSUME IndexTypes, ReadTypes, NEW r \in Readers, Read(r)
  PROVE  ReadTypes' /\ caRd' \in 0..Modulus - 1
<1>1. /\ CaCount \in Nat /\ caRd \in 0..Modulus - 1 /\ caRd \in Nat
      /\ rsize[r] \in Nat /\ rsz[r] \in Nat /\ rremain[r] \in Nat
  BY CacheIndexes DEF IndexTypes, ReadTypes
<1>2. CASE ReadStart(r)
  <2>1. \A c \in Counts : Least(c, CaCount) \in Nat
    BY <1>1, ConnsysLogAssumption DEF Least
  <2>2. PICK c \in Counts : rsize' = [rsize EXCEPT ![r] = Least(c, CaCount)]
    BY <1>2 DEF ReadStart
  <2>3. /\ rpc' = [rpc EXCEPT ![r] = "prepare"]
        /\ UNCHANGED <<caRd, rremain, rsz, rpos>>
    BY <1>2 DEF ReadStart
  <2> QED  BY <1>1, <2>1, <2>2, <2>3 DEF ReadTypes, ReadPcs
<1>3. ASSUME NEW i \in Nat, NEW n \in Nat, NextPiece(r, i, n) PROVE ReadTypes'
  <2>0. CacheSeg(i, n) \in 0..n /\ i % CacheSize \in Nat
    BY CacheSegment
  <2>1. CacheSeg(i, n) \in Nat /\ n - CacheSeg(i, n) \in Nat /\ i % CacheSize \in Nat
    BY <2>0
  <2>2. PICK p \in ReadPcs, q \in Nat :
          /\ rsz' = [rsz EXCEPT ![r] = CacheSeg(i, n)]
          /\ rremain' = [rremain EXCEPT ![r] = n - CacheSeg(i, n)]
          /\ rpos' = [rpos EXCEPT ![r] = q] /\ rpc' = [rpc EXCEPT ![r] = p]
          /\ rsize' = [rsize EXCEPT ![r] = 0]
    <3>1. CASE n = 0   BY <1>3, <3>1, <2>1 DEF NextPiece, ReadPcs
    <3>2. CASE n # 0   BY <1>3, <3>2, <2>1 DEF NextPiece, ReadPcs
    <3> QED  BY <3>1, <3>2
  <2> QED  BY <2>1, <2>2 DEF ReadTypes
<1>4. CASE ReadPrepare(r)
  <2>1. Least(rsize[r], CaCount) \in Nat
    BY <1>1 DEF Least
  <2> QED  BY <1>1, <1>3, <1>4, <2>1 DEF ReadPrepare
<1>5. CASE ReadCopy(r)
  BY <1>1, <1>5 DEF ReadCopy, ReadTypes, ReadPcs
<1>6. CASE ReadFault(r)
  BY <1>1, <1>6 DEF ReadFault, ReadTypes, ReadPcs, workside
<1>7. CASE ReadCommit(r)
  <2>1. caRd + rsz[r] \in Int /\ Modulus \in Nat \ {0}
    BY <1>1, ConnsysLogAssumption
  <2>2. caRd' \in 0..Modulus - 1 /\ caRd' \in Nat
    BY <1>7, <2>1, ModType DEF ReadCommit
  <2> QED  BY <1>1, <1>3, <1>7, <2>2 DEF ReadCommit
<1> QED  BY <1>2, <1>4, <1>5, <1>6, <1>7 DEF Read

LEMMA OthersWake ==
  WakeAll /\ ((\E r \in Readers : Read(r)) \/ (\E m \in Modes : SetMode(m)) \/ UNCHANGED vars)
    => WakeAll'
<1> SUFFICES ASSUME WakeAll,
               (\E r \in Readers : Read(r)) \/ (\E m \in Modes : SetMode(m)) \/ UNCHANGED vars
             PROVE  WakeAll'
  OBVIOUS
<1>1. UNCHANGED <<emiVars, caWr, fwVars, schedVars, workVars>>
  BY DEF Read, ReadStart, ReadPrepare, ReadCopy, ReadFault, ReadCommit, workside, SetMode,
         vars, caVars
<1>2. ReadTypes' /\ caRd' \in 0..Modulus - 1
  <2>1. CASE \E r \in Readers : Read(r)
    BY <2>1, ReadTypesStep DEF WakeAll
  <2>2. CASE (\E m \in Modes : SetMode(m)) \/ UNCHANGED vars
    BY <2>2 DEF SetMode, vars, caVars, readVars, WakeAll, ReadTypes, IndexTypes
  <2> QED  BY <2>1, <2>2
<1>3. IndexTypes' /\ WorkTypes'
  BY <1>1, <1>2 DEF WakeAll, IndexTypes, WorkTypes, emiVars, fwVars, schedVars, workVars
<1>4. ClaimInv' /\ WakeInv'
  BY <1>1 DEF WakeAll, ClaimInv, WakeInv, EmiCount, emiVars, fwVars, schedVars, workVars
<1> QED  BY <1>2, <1>3, <1>4 DEF WakeAll

(* Claiming up to n bytes of what is in the EMI ring.                      *)
LEMMA FirstSegmentIs ==
  ASSUME WakeAll, NEW n \in Nat, NEW p \in Claiming, FirstSegment(n, p)
  PROVE  /\ sz' \in Nat /\ remain' \in Nat /\ wpc' = p
         /\ emiRd + sz' <= EmiSize
         /\ sz' + remain' = Least(n, EmiCount) /\ Least(n, EmiCount) <= EmiCount
         /\ Least(n, EmiCount) <= n /\ Least(n, EmiCount) \in Nat
<1>1. EmiCount \in Nat /\ emiRd \in 0..EmiSize - 1
  BY EmiIndexes DEF WakeAll, IndexTypes
<1>2. /\ Least(n, EmiCount) \in Nat /\ Least(n, EmiCount) <= EmiCount
      /\ Least(n, EmiCount) <= n
  BY <1>1 DEF Least
<1> DEFINE t == Least(n, EmiCount)
<1>3. EmiSeg(emiRd, t) \in 0..t /\ emiRd + EmiSeg(emiRd, t) <= EmiSize
  BY <1>1, <1>2, EmiSegment
<1>4. sz' = EmiSeg(emiRd, t) /\ remain' = t - EmiSeg(emiRd, t) /\ wpc' = p
  BY DEF FirstSegment
<1> HIDE DEF t
<1>5. t \in Nat
  BY <1>2 DEF t
<1>6. sz' + remain' = t /\ sz' \in Nat /\ remain' \in Nat /\ emiRd + sz' <= EmiSize
  BY <1>3, <1>4, <1>5
<1> QED  BY <1>2, <1>4, <1>6 DEF t

(* Committing a segment: the claim goes on with the rest.                  *)
LEMMA NextSegmentIs ==
  ASSUME WakeAll, wpc \in Claiming, NEW p \in Claiming, NextSegment(p), emiWr' = emiWr
  PROVE  /\ sz' \in Nat /\ remain' \in Nat /\ emiRd' \in 0..EmiSize - 1
         /\ emiRd' = (emiRd + sz) % EmiSize
         /\ EmiCount' = EmiCount - sz /\ sz <= EmiCount
         /\ emiRd' + sz' <= EmiSize /\ sz' + remain' = remain
         /\ sz' = 0 => remain = 0 /\ wpc' = "end"
         /\ sz' # 0 => wpc' = p
<1>1. /\ EmiCount \in Nat /\ sz \in Nat /\ remain \in Nat /\ sz + remain <= EmiCount
  BY EmiIndexes DEF WakeAll, WorkTypes, ClaimInv
<1>2. sz \in 0..EmiCount
  BY <1>1
<1>3. emiRd' = (emiRd + sz) % EmiSize
  BY DEF NextSegment
<1>4. emiRd' \in 0..EmiSize - 1 /\ EmiCount' = EmiCount - sz
  <2>1. PICK i \in Int : i = emiRd' /\ i = (emiRd + sz) % EmiSize
    BY <1>2, <1>3, EmiIndexes DEF WakeAll
  <2>2. i \in 0..EmiSize - 1 /\ (emiWr - i) % EmiSize = EmiCount - sz
    BY <1>2, <2>1, EmiTake DEF WakeAll
  <2>3. EmiCount' = (emiWr - i) % EmiSize
    BY <2>1, <2>2 DEF EmiCount
  <2> QED  BY <2>1, <2>2, <2>3
<1>5. /\ EmiSeg(emiRd', remain) \in 0..remain
      /\ emiRd' + EmiSeg(emiRd', remain) <= EmiSize
      /\ EmiSeg(emiRd', remain) = 0 => remain = 0
  BY <1>1, <1>4, EmiSegment
<1>6. sz' = EmiSeg(emiRd', remain) /\ remain' = remain - sz'
      /\ wpc' = IF sz' = 0 THEN "end" ELSE p
  BY DEF NextSegment
<1> QED  BY <1>1, <1>3, <1>4, <1>5, <1>6

(* The work item between two looks at the EMI ring.                        *)
LEMMA WorkWake == WakeAll /\ Work => WakeAll'
<1> SUFFICES ASSUME WakeAll, Work PROVE WakeAll'
  OBVIOUS
<1>1. /\ UNCHANGED <<emiWr, caRd, produced, irq, readVars>>
      /\ WorkTypes /\ IndexTypes /\ ReadTypes
  BY DEF Work, WorkStart, WorkCheck, WorkRoom, WorkPrepare, WorkSegment, WorkCopy, WorkCommit,
         WorkEmiCommit, WorkPrint, WorkPrintCopy, WorkPrintCommit, WorkEnd, outside, fwVars, WakeAll
<1>2. ReadTypes'
  BY <1>1 DEF ReadTypes, readVars
<1>3. CASE WorkStart
  <2>1. WorkTypes' /\ IndexTypes'
    BY <1>1, <1>3 DEF WorkStart, WorkTypes, IndexTypes, WorkPcs
  <2> QED  BY <1>1, <1>2, <1>3, <2>1 DEF WorkStart, WakeAll, ClaimInv, WakeInv, Claiming
<1>4. CASE WorkCheck
  <2>1. WorkTypes' /\ IndexTypes'
    BY <1>1, <1>4 DEF WorkCheck, WorkTypes, IndexTypes, WorkPcs, schedVars
  <2> QED  BY <1>1, <1>2, <1>4, <2>1 DEF WorkCheck, WakeAll, ClaimInv, WakeInv, Claiming
<1>5. CASE WorkRoom
  <2>1. CaRoom \in Nat
    BY <1>1, CacheIndexes
  <2>2. WorkTypes' /\ IndexTypes'
    BY <1>1, <1>5, <2>1 DEF WorkRoom, WorkTypes, IndexTypes, WorkPcs, schedVars
  <2> QED  BY <1>1, <1>2, <1>5, <2>2 DEF WorkRoom, WakeAll, ClaimInv, WakeInv, Claiming
<1>6. CASE WorkPrepare \/ WorkPrint
  <2>0. EmiCount \in Nat
    BY <1>1, EmiIndexes
  <2>1. PICK n \in Nat, p \in Claiming :
          FirstSegment(n, p) /\ (n >= EmiCount \/ short') /\ short' \in BOOLEAN
    <3>1. CASE WorkPrepare
      <4>1. PICK n \in Nat : n = room
        BY <1>1 DEF WorkTypes
      <4>2. FirstSegment(n, "segment")
        BY <3>1, <4>1 DEF WorkPrepare, FirstSegment
      <4>3. short' = (n < EmiCount)
        BY <3>1, <4>1 DEF WorkPrepare
      <4>4. n >= EmiCount \/ n < EmiCount
        BY <2>0
      <4>5. (n >= EmiCount \/ short') /\ short' \in BOOLEAN
        <5>1. CASE n < EmiCount   BY <4>3, <5>1, Zenon
        <5>2. CASE n >= EmiCount
          <6>1. short' = TRUE \/ short' = FALSE
            BY <4>3
          <6> QED  BY <5>2, <6>1, Zenon
        <5> QED  BY <4>4, <5>1, <5>2, Zenon
      <4>6. "segment" \in Claiming
        BY DEF Claiming
      <4> QED  BY <4>2, <4>5, <4>6, Zenon
    <3>2. CASE WorkPrint
      <4>1. EmiCount < EmiSize /\ EmiSize \in Nat /\ EmiCount \in Nat
        BY <1>1, EmiIndexes, ConnsysLogAssumption
      <4>2. FirstSegment(EmiSize, "printCopy") /\ short' = FALSE
        BY <3>2 DEF WorkPrint
      <4>3. EmiSize >= EmiCount
        BY <4>1
      <4> QED  BY <4>1, <4>2, <4>3 DEF Claiming
    <3> QED  BY <1>6, <3>1, <3>2
  <2>2. /\ UNCHANGED <<emiRd, caWr, schedVars, room, iremain, isz, ipos>>
    BY <1>6 DEF WorkPrepare, WorkPrint
  <2>3. /\ sz' \in Nat /\ remain' \in Nat /\ wpc' \in Claiming
        /\ emiRd + sz' <= EmiSize
        /\ sz' + remain' = Least(n, EmiCount) /\ Least(n, EmiCount) <= EmiCount
    BY <2>1, FirstSegmentIs, Zenon
  <2>4. WorkTypes' /\ IndexTypes'
    BY <1>1, <2>1, <2>2, <2>3 DEF WorkTypes, IndexTypes, WorkPcs, Claiming, schedVars
  <2>5. EmiCount' = EmiCount
    BY <1>1, <2>2 DEF EmiCount
  <2>6. ClaimInv'
    BY <2>2, <2>3, <2>5 DEF ClaimInv
  <2>7. sz' + remain' = EmiCount \/ short'
    <3>1. n >= EmiCount => Least(n, EmiCount) = EmiCount
      BY <2>0 DEF Least
    <3> QED  BY <2>1, <2>3, <3>1, Zenon
  <2>8. WakeInv'
    BY <2>3, <2>5, <2>7 DEF WakeInv, Claiming
  <2> QED  BY <1>2, <2>4, <2>6, <2>8 DEF WakeAll
<1>7. CASE WorkSegment \/ WorkCopy \/ WorkCommit \/ WorkPrintCopy
  <2>1. /\ wpc \in Claiming /\ wpc' \in Claiming
        /\ UNCHANGED <<emiRd, schedVars, room, remain, sz, short>>
    BY <1>7 DEF WorkSegment, WorkCopy, WorkCommit, WorkPrintCopy, Claiming
  <2>2. /\ isz' \in Nat /\ iremain' \in Nat /\ ipos' \in Nat
        /\ caWr' \in 0..Modulus - 1
    <3>1. CASE WorkSegment
      <4>1. Least(sz, CaRoom) \in Nat /\ caWr \in Nat
        BY <1>1, CacheIndexes DEF WorkTypes, IndexTypes, Least
      <4> DEFINE t == Least(sz, CaRoom)
      <4>2. CacheSeg(caWr, t) \in 0..t
        BY <4>1, CacheSegment
      <4>3. isz' = CacheSeg(caWr, t) /\ iremain' = t - CacheSeg(caWr, t)
            /\ ipos' = 0 /\ caWr' = caWr
        BY <3>1 DEF WorkSegment
      <4> HIDE DEF t
      <4>4. t \in Nat
        BY <4>1 DEF t
      <4> QED  BY <1>1, <4>2, <4>3, <4>4 DEF IndexTypes
    <3>2. CASE WorkCopy \/ WorkPrintCopy
      BY <1>1, <3>2 DEF WorkCopy, WorkPrintCopy, WorkTypes, IndexTypes
    <3>3. CASE WorkCommit
      <4>1. caWr + isz \in Nat /\ iremain \in Nat /\ ipos + isz \in Nat
        BY <1>1 DEF WorkTypes, IndexTypes
      <4>2. CacheSeg(caWr + isz, iremain) \in 0..iremain
        BY <4>1, CacheSegment
      <4>3. (caWr + isz) % Modulus \in 0..Modulus - 1
        <5>1. caWr + isz \in Int /\ Modulus \in Nat \ {0}
          BY <4>1, ConnsysLogAssumption
        <5> QED  BY <5>1, ModType
      <4> QED  BY <3>3, <4>1, <4>2, <4>3 DEF WorkCommit
    <3> QED  BY <1>7, <3>1, <3>2, <3>3
  <2>3. WorkTypes' /\ IndexTypes'
    BY <1>1, <2>1, <2>2 DEF WorkTypes, IndexTypes, WorkPcs, Claiming, schedVars
  <2>4. ClaimInv' /\ WakeInv'
    BY <1>1, <2>1 DEF WakeAll, ClaimInv, WakeInv, EmiCount, Claiming, schedVars
  <2> QED  BY <1>2, <2>3, <2>4 DEF WakeAll
<1>8. CASE WorkEmiCommit \/ WorkPrintCommit
  <2>1. PICK p \in Claiming : wpc \in Claiming /\ NextSegment(p)
    BY <1>8 DEF WorkEmiCommit, WorkPrintCommit, Claiming
  <2>2. UNCHANGED <<caWr, schedVars, room, iremain, isz, ipos, short>>
    BY <1>8 DEF WorkEmiCommit, WorkPrintCommit
  <2>3. /\ sz' \in Nat /\ remain' \in Nat /\ emiRd' \in 0..EmiSize - 1
        /\ EmiCount' = EmiCount - sz /\ EmiCount \in Nat /\ sz + remain <= EmiCount
        /\ emiRd' + sz' <= EmiSize /\ sz' + remain' = remain
        /\ sz' = 0 => remain = 0 /\ wpc' = "end"
        /\ sz' # 0 => wpc' = p
    BY <1>1, <2>1, NextSegmentIs, EmiIndexes DEF WakeAll, ClaimInv
  <2>4. WorkTypes' /\ IndexTypes'
    BY <1>1, <2>1, <2>2, <2>3 DEF WorkTypes, IndexTypes, WorkPcs, Claiming, schedVars
  <2>0. sz \in Nat /\ remain \in Nat /\ p # "end" /\ p # "idle"
    BY <1>1 DEF WorkTypes, Claiming
  <2>9. PICK c \in Nat, z \in Nat, n \in Nat : c = EmiCount /\ z = sz /\ n = remain
    BY <2>0, <2>3
  <2>10. PICK z1 \in Nat, n1 \in Nat : z1 = sz' /\ n1 = remain' /\ z1 + n1 = n
    BY <2>3, <2>9
  <2>11. EmiCount' = c - z /\ z + n <= c
    BY <2>3, <2>9
  <2>12. z1 + n1 <= c - z /\ (z + n = c => z1 + n1 = c - z)
    <3>1. z1 + n1 = n
      BY <2>10
    <3>2. z + n <= c
      BY <2>11
    <3> QED  BY <3>1, <3>2
  <2>5. ClaimInv'
    <3>1. sz' + remain' <= EmiCount'
      BY <2>10, <2>11, <2>12
    <3> QED  BY <2>3, <3>1 DEF ClaimInv
  <2>6. sz + remain = EmiCount \/ irq \/ pending \/ short
    BY <2>1 DEF WakeAll, WakeInv
  <2>7. EmiCount' = 0 <=> emiRd' = emiWr'
    <3>1. emiRd' \in 0..EmiSize - 1 /\ emiWr' \in 0..EmiSize - 1 /\ EmiSize \in Nat \ {0}
      BY <2>4, ConnsysLogAssumption DEF IndexTypes
    <3>2. PICK a \in 0..EmiSize - 1, b \in 0..EmiSize - 1 : a = emiRd' /\ b = emiWr'
      BY <3>1
    <3>3. (b - a) % EmiSize = 0 <=> a = b
      BY <3>1
    <3> QED  BY <3>2, <3>3 DEF EmiCount
  <2>8. WakeInv'
    <3>1. UNCHANGED <<irq, pending, short>>
      BY <1>1, <2>2 DEF schedVars
    <3>2. CASE sz' = 0
      <4>1. EmiCount' = 0 \/ irq \/ pending \/ short
        BY <2>0, <2>3, <2>6, <3>2
      <4> QED  BY <2>3, <2>7, <3>1, <3>2, <4>1 DEF WakeInv, Claiming
    <3>3. CASE sz' # 0
      <4>1. sz' + remain' = EmiCount' \/ irq \/ pending \/ short
        <5>1. sz + remain = EmiCount => sz' + remain' = EmiCount'
          BY <2>9, <2>10, <2>11, <2>12
        <5> QED  BY <2>6, <5>1, Zenon
      <4> QED  BY <2>0, <2>3, <3>1, <3>3, <4>1 DEF WakeInv
    <3> QED  BY <3>2, <3>3
  <2> QED  BY <1>2, <2>4, <2>5, <2>8 DEF WakeAll
<1>9. CASE WorkEnd
  <2>1. WorkTypes' /\ IndexTypes'
    BY <1>1, <1>9 DEF WorkEnd, WorkTypes, IndexTypes, WorkPcs
  <2>2. WakeInv'
    BY <1>1, <1>9 DEF WorkEnd, WakeAll, WakeInv, Claiming
  <2> QED  BY <1>2, <1>9, <2>1, <2>2 DEF WorkEnd, WakeAll, ClaimInv, Claiming
<1> QED  BY <1>3, <1>4, <1>5, <1>6, <1>7, <1>8, <1>9 DEF Work

(* Every step keeps what there is to wake the work item.                   *)
LEMMA WakeStep == WakeAll /\ [Next]_vars => WakeAll'
BY FirmwareWake, ScheduleWake, OthersWake, WorkWake DEF Next, Finished

(* Data in the EMI ring is never forgotten, for rings of any size and any  *)
(* number of readers, wherever in a run of the work item the interrupt     *)
(* comes: eirqOn and the pending work see to it.                           *)
THEOREM DataIsNotForgotten == Spec => []NoLostWakeup
<1>1. WakeAll => NoLostWakeup
  BY DEF WakeAll, WakeInv, NoLostWakeup
<1> QED  BY <1>1, WakeInit, WakeStep, PTL DEF Spec
-----------------------------------------------------------------------------
(* With one reader: what the rings hold, and what went out of them.        *)

OneReader == \E r : Readers = {r}

(* What the reader has taken and not given back.                           *)
TakenBy(r) == IF rpc[r] = "commit" THEN rsz[r] ELSE 0

(* The n bytes after the first d.                                          *)
Bytes(n, d) == [k \in 0..n - 1 |-> d + k + 1]

DataInv(r) ==
  /\ emiBuf \in [0..EmiSize - 1 -> Nat] /\ EmiCount <= produced
  /\ EmiHolds(emiBuf, emiRd, EmiCount, Gone)
  /\ CacheHolds(caBuf, caRd, CaCount, TakenBy(r), out, printed, Done)
  /\ wpc = "commit" => Holds(caBuf, caRd, CacheSize, CaCount, isz, Bytes(isz, Done))

LogInv(r) == WakeAll /\ RoomInv /\ ReadInv /\ DataInv(r)

(* Taking n bytes out of the cache, and putting n into it.                 *)
LEMMA CacheTake ==
  ASSUME IndexTypes, NEW n \in 0..CaCount, NEW i \in Int, i = (caRd + n) % Modulus
  PROVE  (caWr - i) % Modulus = CaCount - n
BY ConnsysLogAssumption DEF IndexTypes, CaCount

LEMMA CachePut ==
  ASSUME IndexTypes, NEW n \in 0..CacheSize - CaCount, CaCount <= CacheSize,
         NEW i \in Int, i = (caWr + n) % Modulus
  PROVE  (i - caRd) % Modulus = CaCount + n
<1>1. n \in 0..Modulus - 1 - CaCount
  BY CacheIndexes, ConnsysLogAssumption
<1> QED  BY <1>1, CacheIndexes

(* What a reader has in hand is in the cache and stays there until it      *)
(* moves the index.                                                        *)
LEMMA ReadRoom ==
  ASSUME WakeAll, RoomInv, ReadInv, NEW r, Readers = {r}, Read(r)
  PROVE  /\ UNCHANGED <<caWr, workVars>>
         /\ CaCount' \in 0..CaCount /\ ReadInv'
         /\ ~ReadCommit(r) => caRd' = caRd
         /\ ReadCommit(r) => rsz[r] \in 0..CaCount /\ caRd' = (caRd + rsz[r]) % Modulus
                            /\ CaCount' = CaCount - rsz[r]
<1>0. /\ CaCount \in Nat /\ caRd \in Nat /\ r \in Readers
      /\ rsize[r] \in Nat /\ rsz[r] \in Nat /\ rremain[r] \in Nat /\ rpc[r] \in ReadPcs
      /\ DOMAIN rpc = Readers /\ DOMAIN rsz = Readers /\ DOMAIN rremain = Readers
      /\ DOMAIN rpos = Readers
  BY CacheIndexes DEF WakeAll, IndexTypes, ReadTypes
<1>1. UNCHANGED <<caWr, workVars>>
  BY DEF Read, ReadStart, ReadPrepare, ReadCopy, ReadFault, ReadCommit, workside
<1>2. ASSUME NEW i \in Nat, NEW n \in Nat, NextPiece(r, i, n), caRd' = i,
             NEW c \in Nat, CaCount' = c, n <= c
      PROVE  ReadInv'
  <2>1. /\ CacheSeg(i, n) \in 0..n /\ (i % CacheSize) + CacheSeg(i, n) <= CacheSize
    BY CacheSegment
  <2>2. PICK z \in 0..n : z = CacheSeg(i, n)
    BY <2>1
  <2>3. z + (n - z) <= c
    BY <1>2
  <2>4. /\ rsz'[r] = z /\ rremain'[r] = n - z
        /\ rpos'[r] = IF n = 0 THEN 0 ELSE i % CacheSize
        /\ rpc'[r] = IF n = 0 THEN "idle" ELSE "copy"
    BY <1>0, <1>2, <2>2 DEF NextPiece
  <2>5. CASE n = 0
    BY <2>4, <2>5 DEF ReadInv
  <2>6. CASE n # 0
    BY <1>2, <2>1, <2>2, <2>3, <2>4, <2>6 DEF ReadInv
  <2> QED  BY <2>5, <2>6
<1>3. CASE ReadCommit(r)
  <2>1. rsz[r] \in 0..CaCount /\ rremain[r] <= CaCount - rsz[r] /\ rpc[r] = "commit"
    BY <1>0, <1>3 DEF ReadInv, ReadCommit
  <2>2. PICK i \in Nat : i = caRd' /\ i = (caRd + rsz[r]) % Modulus
    <3>1. caRd + rsz[r] \in Int /\ Modulus \in Nat \ {0}
      BY <1>0, ConnsysLogAssumption
    <3> QED  BY <1>3, <3>1, ModType DEF ReadCommit
  <2>3. (caWr - i) % Modulus = CaCount - rsz[r]
    BY <2>1, <2>2, CacheTake DEF WakeAll
  <2>4. CaCount' = CaCount - rsz[r]
    BY <1>1, <2>2, <2>3 DEF CaCount
  <2>5. PICK c \in Nat : c = CaCount' /\ c = CaCount - rsz[r] /\ rremain[r] <= c
    BY <1>0, <2>1, <2>4
  <2>6. ReadInv'
    <3>1. NextPiece(r, i, rremain[r]) /\ caRd' = i /\ rremain[r] \in Nat
      BY <1>0, <1>3, <2>2 DEF ReadCommit
    <3> QED  BY <1>2, <2>5, <3>1
  <2>7. CaCount' \in 0..CaCount
    BY <1>0, <2>1, <2>4
  <2> QED  BY <1>1, <1>3, <2>1, <2>2, <2>4, <2>6, <2>7
<1>4. CASE ~ReadCommit(r)
  <2>1. caRd' = caRd /\ (ReadStart(r) \/ ReadPrepare(r) \/ ReadCopy(r) \/ ReadFault(r))
    BY <1>4 DEF Read, ReadStart, ReadPrepare, ReadCopy, ReadFault
  <2>2. CaCount' = CaCount
    BY <1>1, <2>1 DEF CaCount
  <2>3. ReadInv'
    <3>1. CASE ReadStart(r)
      BY <1>0, <3>1 DEF ReadStart, ReadInv
    <3>2. CASE ReadPrepare(r)
      <4>1. Least(rsize[r], CaCount) \in Nat /\ Least(rsize[r], CaCount) <= CaCount
        BY <1>0 DEF Least
      <4>2. NextPiece(r, caRd, Least(rsize[r], CaCount))
        BY <3>2 DEF ReadPrepare
      <4> QED  BY <1>0, <1>2, <2>1, <2>2, <4>1, <4>2
    <3>3. CASE ReadCopy(r)
      BY <1>0, <2>1, <2>2, <3>3 DEF ReadCopy, ReadInv
    <3>4. CASE ReadFault(r)
      BY <1>0, <3>4 DEF ReadFault, ReadInv
    <3> QED  BY <2>1, <3>1, <3>2, <3>3, <3>4
  <2> QED  BY <1>0, <1>1, <1>4, <2>1, <2>2, <2>3
<1> QED  BY <1>3, <1>4

(* Only what the work item copied is added to the cache, and it had room.  *)
LEMMA CommitRoom ==
  ASSUME WakeAll, RoomInv, WorkCommit
  PROVE  isz \in 0..Free /\ CaCount' = CaCount + isz /\ Free \in Nat
<1>1. CaCount \in Nat /\ CaCount <= CacheSize /\ isz \in Nat /\ CacheSize \in Nat
  BY CacheIndexes, ConnsysLogAssumption DEF WakeAll, WorkTypes, RoomInv
<1>2. isz + iremain + remain <= Free /\ iremain \in Nat /\ remain \in Nat
  BY DEF WorkCommit, RoomInv, WakeAll, WorkTypes
<1>3. isz \in 0..CacheSize - CaCount
  BY <1>1, <1>2 DEF Free
<1>4. PICK i \in Int : i = caWr' /\ i = (caWr + isz) % Modulus
  <2>1. caWr + isz \in Int /\ Modulus \in Nat \ {0}
    BY <1>1, ConnsysLogAssumption DEF WakeAll, IndexTypes
  <2> QED  BY <2>1, ModType DEF WorkCommit
<1>5. (i - caRd) % Modulus = CaCount + isz
  BY <1>1, <1>3, <1>4, CachePut DEF WakeAll
<1>6. caRd' = caRd
  BY DEF WorkCommit, outside
<1> QED  BY <1>1, <1>3, <1>4, <1>5, <1>6 DEF CaCount, Free

(* The work item never claims more than there is room for.                 *)
LEMMA WorkRoomKept ==
  ASSUME WakeAll, RoomInv, Work
  PROVE  RoomInv'
<1>1. /\ CaCount \in Nat /\ CaCount <= CacheSize /\ CacheSize \in Nat /\ caWr \in Nat
      /\ CaRoom = CacheSize - CaCount /\ EmiCount \in Nat
      /\ sz \in Nat /\ remain \in Nat /\ isz \in Nat /\ iremain \in Nat /\ ipos \in Nat
      /\ room \in Nat
  BY CacheIndexes, EmiIndexes, ConnsysLogAssumption
     DEF WakeAll, WorkTypes, IndexTypes, RoomInv
<1>2. PICK f \in Nat : f = Free /\ f = CacheSize - CaCount
  BY <1>1 DEF Free
<1>3. CASE ~WorkCommit
  <2>1. UNCHANGED <<caRd, caWr>>
    BY <1>3 DEF Work, WorkStart, WorkCheck, WorkRoom, WorkPrepare, WorkSegment, WorkCopy,
         WorkEmiCommit, WorkPrint, WorkPrintCopy, WorkPrintCommit, WorkEnd, outside
  <2>2. CaCount' = CaCount /\ Free' = f
    BY <1>2, <2>1 DEF CaCount, Free
  <2>3. CaCount' <= CacheSize
    BY <1>1, <2>2
  <2>4. CASE WorkStart \/ WorkCheck \/ WorkPrintCopy \/ WorkEnd
    BY <2>3, <2>4 DEF WorkStart, WorkCheck, WorkPrintCopy, WorkEnd, RoomInv
  <2>5. CASE WorkRoom
    BY <1>1, <1>2, <2>2, <2>3, <2>5 DEF WorkRoom, RoomInv
  <2>6. CASE WorkPrepare
    <3>1. FirstSegment(room, "segment") /\ room <= f
      BY <1>2, <2>6 DEF WorkPrepare, RoomInv
    <3>2. /\ wpc' = "segment" /\ sz' + remain' = Least(room, EmiCount)
          /\ Least(room, EmiCount) <= room /\ Least(room, EmiCount) \in Nat
      BY <1>1, <3>1, FirstSegmentIs DEF Claiming
    <3>3. sz' + remain' <= f
      BY <1>1, <3>1, <3>2
    <3> QED  BY <2>2, <2>3, <3>2, <3>3 DEF RoomInv
  <2>7. CASE WorkSegment
    <3>1. sz + remain <= f
      BY <1>2, <2>7 DEF WorkSegment, RoomInv
    <3>2. Least(sz, CaRoom) = sz
      BY <1>1, <1>2, <3>1 DEF Least
    <3>3. CacheSeg(caWr, sz) \in 0..sz
      BY <1>1, CacheSegment
    <3>4. PICK z \in 0..sz : z = CacheSeg(caWr, sz)
      BY <3>3
    <3>5. /\ isz' = z /\ iremain' = sz - z /\ ipos' = 0 /\ wpc' = "copy"
          /\ sz' = sz /\ remain' = remain
      BY <2>7, <3>2, <3>4 DEF WorkSegment
    <3>6. 0 + z + (sz - z) = sz /\ z + (sz - z) + remain <= f
      BY <1>1, <3>1
    <3> QED  BY <2>2, <2>3, <3>5, <3>6 DEF RoomInv
  <2>8. CASE WorkCopy
    <3>1. /\ wpc' = "commit" /\ UNCHANGED <<sz, remain, isz, iremain, ipos>>
          /\ ipos + isz + iremain = sz /\ isz + iremain + remain <= f
      BY <1>2, <2>8 DEF WorkCopy, RoomInv
    <3> QED  BY <2>2, <2>3, <3>1 DEF RoomInv
  <2>9. CASE WorkEmiCommit
    <3>1. /\ remain <= f /\ NextSegment("segment") /\ wpc \in Claiming /\ emiWr' = emiWr
      BY <1>1, <1>2, <2>9 DEF WorkEmiCommit, RoomInv, Claiming, outside
    <3>2. sz' + remain' = remain /\ wpc' \in {"end", "segment"}
      BY <3>1, NextSegmentIs DEF Claiming
    <3>3. sz' + remain' <= f
      BY <3>1, <3>2
    <3> QED  BY <2>2, <2>3, <3>2, <3>3 DEF RoomInv
  <2>10. CASE WorkPrint \/ WorkPrintCommit
    <3>1. wpc' \in {"printCopy", "end"}
      BY <2>10 DEF WorkPrint, WorkPrintCommit, FirstSegment, NextSegment
    <3> QED  BY <2>3, <3>1 DEF RoomInv
  <2> QED  BY <1>3, <2>4, <2>5, <2>6, <2>7, <2>8, <2>9, <2>10 DEF Work
<1>4. CASE WorkCommit
  <2>1. /\ ipos + isz + iremain = sz /\ isz + iremain + remain <= f
    BY <1>2, <1>4 DEF WorkCommit, RoomInv
  <2>2. CacheSeg(caWr + isz, iremain) \in 0..iremain
        /\ (CacheSeg(caWr + isz, iremain) = 0 => iremain = 0)
    <3>1. caWr + isz \in Nat
      BY <1>1
    <3> QED  BY <1>1, <3>1, CacheSegment
  <2>3. PICK z \in 0..iremain : z = CacheSeg(caWr + isz, iremain) /\ (z = 0 => iremain = 0)
    BY <2>2
  <2>4. /\ isz' = z /\ iremain' = iremain - z /\ ipos' = ipos + isz
        /\ wpc' = (IF z = 0 THEN "emiCommit" ELSE "copy")
        /\ sz' = sz /\ remain' = remain
    BY <1>4, <2>3 DEF WorkCommit
  <2>5. CaCount' = CaCount + isz /\ Free' = f - isz
    <3>1. CaCount' = CaCount + isz
      BY <1>4, CommitRoom
    <3>2. PICK c \in Nat : c = CaCount' /\ c = CaCount + isz
      BY <1>1, <3>1
    <3>3. CacheSize - c = f - isz
      BY <1>1, <1>2, <3>2
    <3> QED  BY <3>1, <3>2, <3>3 DEF Free
  <2>6. /\ (ipos + isz) + z + (iremain - z) = sz
        /\ z + (iremain - z) + remain <= f - isz
        /\ CaCount + isz <= CacheSize
        /\ z = 0 => iremain - z = 0
    BY <1>1, <1>2, <2>1, <2>3
  <2> QED  BY <2>4, <2>5, <2>6 DEF RoomInv
<1> QED  BY <1>3, <1>4

(* The steps that touch neither the cache nor what is claimed.             *)
Quiet == Firmware \/ Irq \/ TimerFires \/ Alarm \/ (\E m \in Modes : SetMode(m)) \/ UNCHANGED vars

LEMMA QuietIs == Quiet => UNCHANGED <<emiRd, caVars, workVars, readVars, out, printed>>
BY DEF Quiet, Firmware, FwWrite, Irq, TimerFires, Alarm, SetMode, vars, emiVars

LEMMA RoomStep ==
  ASSUME WakeAll, RoomInv, ReadInv, NEW r, Readers = {r}, [Next]_vars
  PROVE  RoomInv' /\ ReadInv'
<1>1. CASE Quiet
  <2>1. CaCount' = CaCount /\ UNCHANGED <<caRd, workVars, readVars>>
    BY <1>1, QuietIs DEF CaCount, caVars
  <2> QED  BY <2>1 DEF RoomInv, ReadInv, Free, workVars, readVars
<1>2. CASE Work
  <2>1. /\ UNCHANGED <<caRd, readVars>>
    BY <1>2 DEF Work, WorkStart, WorkCheck, WorkRoom, WorkPrepare, WorkSegment, WorkCopy,
         WorkCommit, WorkEmiCommit, WorkPrint, WorkPrintCopy, WorkPrintCommit, WorkEnd, outside
  <2>2. PICK c \in Nat, d \in Nat : c = CaCount /\ d = CaCount' /\ c <= d
    <3>1. CaCount \in Nat
      BY CacheIndexes DEF WakeAll
    <3>2. CASE WorkCommit
      <4>1. PICK n \in Nat : CaCount' = CaCount + n
        BY <1>2, <3>2, CommitRoom
      <4>2. CaCount + n \in Nat /\ CaCount <= CaCount + n
        BY <3>1
      <4> QED  BY <3>1, <4>1, <4>2
    <3>3. CASE ~WorkCommit
      <4>1. caWr' = caWr
        BY <1>2, <3>3 DEF Work, WorkStart, WorkCheck, WorkRoom, WorkPrepare, WorkSegment,
           WorkCopy, WorkEmiCommit, WorkPrint, WorkPrintCopy, WorkPrintCommit, WorkEnd
      <4> QED  BY <2>1, <3>1, <4>1 DEF CaCount
    <3> QED  BY <3>2, <3>3
  <2>3. ReadInv'
    <3>1. \A q \in Readers : rsz[q] \in Nat /\ rremain[q] \in Nat
      BY DEF WakeAll, ReadTypes
    <3>2. \A q \in Readers : rsz[q] + rremain[q] <= c => rsz[q] + rremain[q] <= d
      BY <2>2, <3>1
    <3> QED  BY <2>1, <2>2, <3>2 DEF ReadInv, readVars
  <2> QED  BY <1>2, <2>3, WorkRoomKept
<1>3. CASE Read(r)
  <2>1. CaCount' \in 0..CaCount /\ ReadInv' /\ UNCHANGED workVars
    BY <1>3, ReadRoom
  <2>2. CaCount \in Nat /\ CaCount <= CacheSize /\ CacheSize \in Nat
    BY CacheIndexes, ConnsysLogAssumption DEF WakeAll, RoomInv
  <2>3. PICK c \in Nat, d \in Nat : c = CaCount' /\ d = CaCount /\ c <= d /\ d <= CacheSize
    BY <2>1, <2>2
  <2>4. PICK f \in Nat, g \in Nat : f = Free /\ g = Free' /\ f <= g
    <3>1. Free = CacheSize - d /\ Free' = CacheSize - c
      BY <2>3 DEF Free
    <3>2. CacheSize - d \in Nat /\ CacheSize - c \in Nat /\ CacheSize - d <= CacheSize - c
      <4>1. CacheSize \in Nat /\ c <= d /\ d <= CacheSize
        BY <2>2, <2>3
      <4> QED  BY <4>1
    <3> QED  BY <3>1, <3>2
  <2>5. /\ sz \in Nat /\ remain \in Nat /\ isz \in Nat /\ iremain \in Nat /\ room \in Nat
    BY DEF WakeAll, WorkTypes
  <2>6. /\ room <= f => room <= g
        /\ sz + remain <= f => sz + remain <= g
        /\ isz + iremain + remain <= f => isz + iremain + remain <= g
    BY <2>4, <2>5
  <2>7. CaCount' <= CacheSize
    BY <2>2, <2>3
  <2>8. RoomInv'
    BY <2>1, <2>4, <2>6, <2>7 DEF RoomInv, workVars
  <2> QED  BY <2>1, <2>8
<1> QED  BY <1>1, <1>2, <1>3 DEF Next, Quiet, Finished

(* The write indexes are where the contents end.                           *)
LEMMA WriteSlots ==
  ASSUME IndexTypes
  PROVE  IsSlot(EmiSize, emiRd, EmiCount, emiWr) /\ IsSlot(Modulus, caRd, CaCount, caWr)
<1>1. ASSUME NEW S \in Nat \ {0}, NEW a \in 0..S - 1, NEW b \in 0..S - 1
      PROVE  b = (a + ((b - a) % S)) % S
  <2>1. CASE a <= b
    BY <2>1
  <2>2. CASE a > b
    BY <2>2
  <2> QED  BY <2>1, <2>2
<1> QED  BY <1>1, ConnsysLogAssumption DEF IndexTypes, IsSlot, EmiCount, CaCount

(* Initially both rings are empty.                                         *)
LEMMA DataInit ==
  ASSUME NEW r, Readers = {r}, Init
  PROVE  RoomInv /\ ReadInv /\ DataInv(r)
<1>1. CaCount = 0 /\ EmiCount = 0 /\ CacheSize \in Nat
  BY ConnsysLogAssumption DEF Init, CaCount, EmiCount
<1>2. RoomInv /\ ReadInv
  BY <1>1 DEF Init, RoomInv, ReadInv
<1>3. Gone = 0 /\ Done = 0 /\ TakenBy(r) = 0 /\ wpc = "idle"
  BY <1>1 DEF Init, Gone, Moved, Done, TakenBy
<1>4. emiBuf \in [0..EmiSize - 1 -> Nat] /\ EmiCount <= produced
  BY <1>1 DEF Init
<1>5. EmiHolds(emiBuf, emiRd, EmiCount, Gone)
  BY <1>1 DEF EmiHolds
<1>6. CacheHolds(caBuf, caRd, CaCount, TakenBy(r), out, printed, Done)
  <2>1. IsCache(caBuf) /\ caRd \in Int /\ out = <<>> /\ printed = <<>>
    BY DEF Init, IsCache
  <2>2. IsRest(Rest(caBuf, caRd, 0, 0), caBuf, caRd, 0, 0)
    BY <2>1, RestIs
  <2>3. Rest(caBuf, caRd, 0, 0) = <<>>
    BY <2>2, EmptySeq DEF IsRest
  <2>4. out \o Rest(caBuf, caRd, 0, 0) = <<>>
    BY <2>1, <2>3
  <2>5. /\ <<>> \in Seq(1..0) /\ <<>> \in Seq(Nat) /\ Len(<<>>) = 0 /\ DOMAIN <<>> = {}
    OBVIOUS
  <2>6. Sorted(<<>>, <<>>, 0)
    BY <2>5 DEF Sorted, Increasing, Range
  <2> QED  BY <1>1, <1>3, <2>1, <2>4, <2>5, <2>6 DEF CacheHolds
<1> QED  BY <1>2, <1>3, <1>4, <1>5, <1>6 DEF DataInv

(* The counts are numbers.                                                 *)
LEMMA DataCounts ==
  ASSUME WakeAll, RoomInv, ReadInv, NEW r, Readers = {r}, DataInv(r)
  PROVE  /\ produced \in Nat /\ EmiCount \in 0..EmiSize - 1 /\ Gone \in Nat
         /\ produced = Gone + EmiCount
         /\ Moved \in Nat /\ Done \in Nat /\ Done = Gone + Moved
         /\ CaCount \in 0..CacheSize /\ TakenBy(r) \in 0..CaCount
         /\ emiRd \in 0..EmiSize - 1 /\ emiWr \in Int /\ caRd \in Int /\ caWr \in Int
<1>1. /\ produced \in Nat /\ EmiCount \in 0..EmiSize - 1 /\ EmiCount <= produced
      /\ CaCount \in 0..CacheSize /\ ipos \in Nat /\ sz \in Nat
      /\ emiRd \in 0..EmiSize - 1 /\ emiWr \in Int /\ caRd \in Int /\ caWr \in Int
  BY EmiIndexes, CacheIndexes, ConnsysLogAssumption
     DEF WakeAll, IndexTypes, WorkTypes, DataInv, RoomInv
<1>2. Gone \in Nat /\ produced = Gone + EmiCount
  BY <1>1 DEF Gone
<1>3. Moved \in Nat
  BY <1>1 DEF Moved
<1>4. TakenBy(r) \in 0..CaCount
  <2>1. rsz[r] \in Nat /\ rremain[r] \in Nat /\ r \in Readers
    BY DEF WakeAll, ReadTypes
  <2>2. rpc[r] = "commit" => rsz[r] + rremain[r] <= CaCount
    BY <2>1 DEF ReadInv
  <2> QED  BY <1>1, <2>1, <2>2 DEF TakenBy
<1>5. Done \in Nat /\ Done = Gone + Moved
  BY <1>2, <1>3 DEF Done
<1> QED  BY <1>1, <1>2, <1>3, <1>4, <1>5

(* The firmware writes behind what the EMI ring holds.                     *)
LEMMA FirmwareData ==
  ASSUME WakeAll, RoomInv, ReadInv, NEW r, Readers = {r}, DataInv(r), Firmware
  PROVE  DataInv(r)'
<1>1. PICK n \in 1..EmiSize - 1 : FwWrite(n)
  BY DEF Firmware
<1>2. PICK c \in 0..EmiSize - 1, g \in Nat : c = EmiCount /\ g = Gone /\ produced = g + c
  BY DataCounts
<1>3. n \in 0..EmiSize - 1 - c
  BY <1>1, <1>2, ConnsysLogAssumption DEF FwWrite
<1>4. EmiCount' = c + n /\ produced' = g + c + n
  <2>1. emiWr' = (emiWr + n) % EmiSize /\ emiRd' = emiRd /\ produced' = produced + n
    BY <1>1 DEF FwWrite
  <2>2. EmiCount' = EmiCount + n
    BY <1>2, <1>3, <2>1, EmiIndexes DEF WakeAll, EmiCount
  <2> QED  BY <1>2, <2>1, <2>2
<1>5. /\ UNCHANGED <<emiRd, caRd, caWr, caBuf, workVars, readVars, out, printed>>
  BY <1>1 DEF FwWrite, caVars
<1>6. Gone' = g /\ EmiCount' <= produced'
  <2>1. g + c + n - (c + n) = g /\ c + n <= g + c + n
    BY <1>2, <1>3
  <2> QED  BY <1>4, <2>1 DEF Gone
<1>7. Done' = Done /\ CaCount' = CaCount /\ TakenBy(r)' = TakenBy(r)
  BY <1>2, <1>5, <1>6 DEF Done, Moved, CaCount, TakenBy, workVars, readVars
<1>8. emiBuf' \in [0..EmiSize - 1 -> Nat] /\ EmiHolds(emiBuf', emiRd, c + n, g)
  <2>1. /\ EmiSize \in Nat \ {0} /\ emiBuf \in [0..EmiSize - 1 -> Nat] /\ emiWr \in Int
        /\ emiRd \in Int /\ c \in Nat /\ n \in Nat
    BY <1>2, <1>3, DataCounts, ConnsysLogAssumption DEF DataInv
  <2>2. \A i \in 0..EmiSize - 1 : (i - emiWr) % EmiSize \in Nat
    <3> SUFFICES ASSUME NEW i \in 0..EmiSize - 1 PROVE (i - emiWr) % EmiSize \in Nat
      OBVIOUS
    <3>1. i - emiWr \in Int
      BY <2>1
    <3> QED  BY <2>1, <3>1, ModType, Zenon
  <2>3. \A i \in 0..EmiSize - 1 :
          emiBuf'[i] = IF (i - emiWr) % EmiSize < n THEN produced + ((i - emiWr) % EmiSize) + 1
                       ELSE emiBuf[i]
    BY <1>1, <2>1 DEF FwWrite
  <2>4. emiBuf' \in [0..EmiSize - 1 -> Nat]
    <3>1. \A i \in 0..EmiSize - 1 : emiBuf'[i] \in Nat
      BY <1>2, <2>1, <2>2, <2>3
    <3>2. DOMAIN emiBuf' = 0..EmiSize - 1 /\ emiBuf' = [i \in DOMAIN emiBuf' |-> emiBuf'[i]]
      BY <1>1, <2>1 DEF FwWrite
    <3> QED  BY <3>1, <3>2
  <2>5. Written(emiBuf, emiBuf', EmiSize, emiWr, n, Bytes(n, g + c))
    <3> SUFFICES ASSUME NEW i \in 0..EmiSize - 1, NEW k \in Nat, k = (i - emiWr) % EmiSize
                 PROVE  emiBuf'[i] = IF k < n THEN Bytes(n, g + c)[k] ELSE emiBuf[i]
      BY <2>2 DEF Written
    <3>1. emiBuf'[i] = IF k < n THEN produced + k + 1 ELSE emiBuf[i]
      BY <2>3
    <3>2. k < n => Bytes(n, g + c)[k] = g + c + k + 1
      BY <2>1 DEF Bytes
    <3> QED  BY <1>2, <3>1, <3>2
  <2>6. Numbered(Bytes(n, g + c), n, g + c)
    BY DEF Numbered, Bytes
  <2>7. IsSlot(EmiSize, emiRd, c, emiWr) /\ EmiHolds(emiBuf, emiRd, c, g)
    BY <1>2, WriteSlots DEF WakeAll, DataInv
  <2>8. EmiHolds(emiBuf', emiRd, c + n, g)
    BY <1>3, <2>1, <2>5, <2>6, <2>7, EmiHoldsMore, Zenon
  <2> QED  BY <2>4, <2>8
<1> QED  BY <1>4, <1>5, <1>6, <1>7, <1>8 DEF DataInv, workVars

(* Steps that move no data, with the work item where it has none in hand.  *)
LEMMA StillData ==
  ASSUME NEW r, DataInv(r), wpc' = "commit" => wpc = "commit" /\ isz' = isz,
         Moved' = Moved, TakenBy(r)' = TakenBy(r),
         UNCHANGED <<emiVars, caVars, produced, out, printed>>
  PROVE  DataInv(r)'
<1>1. EmiCount' = EmiCount /\ CaCount' = CaCount
  BY DEF EmiCount, CaCount, emiVars, caVars
<1>2. Gone' = Gone /\ Done' = Done
  BY <1>1 DEF Gone, Done
<1> QED  BY <1>1, <1>2 DEF DataInv, emiVars, caVars

(* The work item copies from the EMI ring to behind the end of the cache.  *)
LEMMA CopyData ==
  ASSUME WakeAll, RoomInv, ReadInv, NEW r, Readers = {r}, DataInv(r), WorkCopy
  PROVE  DataInv(r)'
<1>1. PICK g \in Nat, e \in Nat, c \in 0..CacheSize, d \in Nat, w \in Int :
        g = Gone /\ e = EmiCount /\ c = CaCount /\ d = Done /\ w = caWr
  BY DataCounts
<1>2. /\ caRd \in Int /\ TakenBy(r) \in 0..c /\ ipos \in Nat /\ isz \in Nat
      /\ emiRd \in 0..EmiSize - 1 /\ CacheSize \in Nat \ {0} /\ EmiSize \in Nat \ {0}
  BY <1>1, DataCounts, ConnsysLogAssumption DEF WakeAll, WorkTypes
<1>3. /\ d = g + ipos /\ ipos + isz <= e /\ emiRd + (ipos + isz) <= EmiSize
      /\ isz \in 0..CacheSize - c
  <2>1. /\ ipos + isz + iremain = sz /\ isz + iremain + remain <= CacheSize - c
        /\ emiRd + sz <= EmiSize /\ sz + remain <= e
        /\ iremain \in Nat /\ remain \in Nat /\ sz \in Nat
    BY <1>1 DEF WorkCopy, RoomInv, Free, WakeAll, ClaimInv, Claiming, WorkTypes
  <2>2. d = g + ipos
    BY <1>1 DEF WorkCopy, Done, Moved
  <2>3. PICK x \in Nat, y \in Nat, z \in Nat :
          x = sz /\ y = iremain /\ z = remain /\ ipos + isz + y = x /\ isz + y + z <= CacheSize - c
          /\ emiRd + x <= EmiSize /\ x + z <= e
    BY <2>1
  <2>4. ipos + isz <= e /\ emiRd + (ipos + isz) <= EmiSize /\ isz \in 0..CacheSize - c
    BY <1>1, <1>2, <2>3
  <2> QED  BY <2>2, <2>4
<1>4. /\ wpc' = "commit" /\ UNCHANGED <<emiVars, caRd, caWr, produced, readVars, out, printed>>
      /\ isz' = isz /\ ipos' = ipos /\ wpc = "copy"
  BY DEF WorkCopy, outside, emiVars, fwVars
<1>5. EmiCount' = e /\ CaCount' = c /\ Gone' = g /\ Done' = d /\ TakenBy(r)' = TakenBy(r)
  <2>1. EmiCount' = e /\ CaCount' = c
    BY <1>1, <1>4 DEF EmiCount, CaCount, emiVars
  <2>2. Gone' = g
    BY <1>1, <1>4, <2>1 DEF Gone
  <2>3. Done' = d
    BY <1>1, <1>4, <2>2 DEF Done, Moved
  <2>4. TakenBy(r)' = TakenBy(r)
    BY <1>4 DEF TakenBy, readVars
  <2> QED  BY <2>1, <2>2, <2>3, <2>4
<1>6. /\ emiBuf \in [0..EmiSize - 1 -> Nat] /\ EmiHolds(emiBuf, emiRd, e, g)
      /\ CacheHolds(caBuf, caRd, c, TakenBy(r), out, printed, d)
  BY <1>1 DEF DataInv
<1>7. caBuf \in [0..CacheSize - 1 -> Nat]
  BY <1>6 DEF CacheHolds, IsCache
<1>8. \A i \in 0..CacheSize - 1 : (i - w) % CacheSize \in Nat
  <2> SUFFICES ASSUME NEW i \in 0..CacheSize - 1 PROVE (i - w) % CacheSize \in Nat
    OBVIOUS
  <2>1. i - w \in Int
    BY <1>1, <1>2
  <2> QED  BY <1>2, <2>1, ModType, Zenon
<1>9. DOMAIN caBuf' = 0..CacheSize - 1 /\ caBuf' = [i \in DOMAIN caBuf' |-> caBuf'[i]]
  BY <1>7 DEF WorkCopy
<1>10. ASSUME NEW i \in 0..CacheSize - 1, NEW k \in Nat, k = (i - w) % CacheSize
       PROVE  caBuf'[i] = IF k < isz THEN Bytes(isz, d)[k] ELSE caBuf[i]
  <2>1. caBuf'[i] = IF k < isz THEN emiBuf[emiRd + ipos + k] ELSE caBuf[i]
    BY <1>1, <1>7, <1>10 DEF WorkCopy
  <2>2. ASSUME k < isz PROVE emiBuf[emiRd + ipos + k] = Bytes(isz, d)[k]
    <3>1. PICK j \in 0..e - 1 : j = ipos + k
      BY <1>1, <1>2, <1>3, <2>2
    <3>2. emiRd + j < EmiSize /\ emiRd + ipos + k = emiRd + j
      BY <1>2, <1>3, <2>2, <3>1
    <3>3. emiBuf[emiRd + j] = g + j + 1
      BY <1>1, <1>2, <1>6, <3>2, EmiHoldsAt
    <3>4. Bytes(isz, d)[k] = d + k + 1
      BY <1>2, <2>2 DEF Bytes
    <3>5. g + j + 1 = d + k + 1
      BY <1>1, <1>2, <1>3, <3>1
    <3> QED  BY <3>2, <3>3, <3>4, <3>5
  <2> QED  BY <2>1, <2>2
<1>11. \A k \in 0..isz - 1 : Bytes(isz, d)[k] = d + k + 1 /\ Bytes(isz, d)[k] \in Nat
  BY <1>1, <1>2 DEF Bytes
<1>12. IsCache(caBuf')
  <2>1. \A i \in 0..CacheSize - 1 : caBuf'[i] \in Nat
    <3> SUFFICES ASSUME NEW i \in 0..CacheSize - 1 PROVE caBuf'[i] \in Nat
      OBVIOUS
    <3>1. PICK k \in Nat : k = (i - w) % CacheSize
      BY <1>8
    <3>2. CASE k < isz
      BY <1>2, <1>10, <1>11, <3>1, <3>2, SMTT(60)
    <3>3. CASE ~(k < isz)
      BY <1>7, <1>10, <3>1, <3>3
    <3> QED  BY <3>2, <3>3
  <2> QED  BY <1>9, <2>1 DEF IsCache
<1>13. Written(caBuf, caBuf', CacheSize, w, isz, Bytes(isz, d))
  BY <1>8, <1>10 DEF Written
<1>14. Same(caBuf, caBuf', caRd, CacheSize, c)
       /\ Holds(caBuf', caRd, CacheSize, c, isz, Bytes(isz, d))
  <2>1. IsSlot(Modulus, caRd, c, w)
    BY <1>1, WriteSlots DEF WakeAll
  <2>2. Modulus \in Nat \ {0} /\ Divides(CacheSize, Modulus)
    BY ConnsysLogAssumption DEF Divides
  <2> QED  BY <1>2, <1>3, <1>13, <2>1, <2>2, RingWritten, Zenon
<1>15. CacheHolds(caBuf', caRd, c, TakenBy(r), out, printed, d)
  <2>1. c \in Nat
    BY <1>1, <1>2
  <2> QED  BY <1>2, <1>6, <1>12, <1>14, <2>1, CacheWritten, Zenon
<1>16. EmiCount' <= produced'
  BY <1>1, <1>4, <1>5 DEF DataInv
<1> QED  BY <1>4, <1>5, <1>6, <1>14, <1>15, <1>16 DEF DataInv, emiVars

(* What was copied becomes part of the cache.                              *)
LEMMA CommitData ==
  ASSUME WakeAll, RoomInv, ReadInv, NEW r, Readers = {r}, DataInv(r), WorkCommit
  PROVE  DataInv(r)'
<1>1. PICK g \in Nat, e \in Nat, c \in Nat, d \in Nat, n \in Nat :
        /\ g = Gone /\ e = EmiCount /\ c = CaCount /\ d = Done /\ n = isz
        /\ CaCount' = c + n
  <2>1. isz \in Nat /\ CaCount' = CaCount + isz
    BY CommitRoom DEF WakeAll, WorkTypes
  <2> QED  BY <2>1, DataCounts
<1>2. /\ wpc = "commit" /\ wpc' \in {"copy", "emiCommit"} /\ ipos' = ipos + n
      /\ UNCHANGED <<emiVars, caRd, caBuf, produced, readVars, out, printed>>
  BY <1>1 DEF WorkCommit, outside, emiVars, fwVars
<1>3. EmiCount' = e /\ Gone' = g
  BY <1>1, <1>2 DEF EmiCount, Gone, emiVars
<1>4. Done' = d + n
  <2>1. d = g + ipos /\ Done' = g + ipos' /\ ipos \in Nat
    BY <1>1, <1>2, <1>3 DEF Done, Moved, WakeAll, WorkTypes
  <2>2. g + (ipos + n) = g + ipos + n
    BY <1>1, <2>1
  <2> QED  BY <1>2, <2>1, <2>2
<1>5. TakenBy(r)' = TakenBy(r)
  BY <1>2 DEF TakenBy, readVars
<1>6. /\ CacheHolds(caBuf, caRd, c, TakenBy(r), out, printed, d)
      /\ Holds(caBuf, caRd, CacheSize, c, n, Bytes(n, d))
  BY <1>1, <1>2 DEF DataInv
<1>7. CacheHolds(caBuf, caRd, c + n, TakenBy(r), out, printed, d + n)
  <2>1. caRd \in Int /\ TakenBy(r) \in 0..c
    BY <1>1, DataCounts
  <2>2. Numbered(Bytes(n, d), n, d)
    BY DEF Numbered, Bytes
  <2> QED  BY <1>6, <2>1, <2>2, CacheCommitted, Zenon
<1>8. EmiCount' <= produced' /\ wpc' # "commit"
  BY <1>1, <1>2, <1>3 DEF DataInv
<1> QED  BY <1>1, <1>2, <1>3, <1>4, <1>5, <1>7, <1>8 DEF DataInv, emiVars

(* What was printed has left the log.                                      *)
LEMMA PrintData ==
  ASSUME WakeAll, RoomInv, ReadInv, NEW r, Readers = {r}, DataInv(r), WorkPrintCopy
  PROVE  DataInv(r)'
<1>1. PICK g \in Nat, e \in Nat, c \in Nat, n \in Nat :
        g = Gone /\ e = EmiCount /\ c = CaCount /\ n = sz
  BY DataCounts DEF WakeAll, WorkTypes
<1>2. /\ wpc = "printCopy" /\ wpc' = "printCommit" /\ sz' = n
      /\ printed' = printed \o [k \in 1..n |-> emiBuf[emiRd + k - 1]]
      /\ UNCHANGED <<emiVars, caVars, produced, readVars, out>>
  BY <1>1 DEF WorkPrintCopy, outside, emiVars, caVars, fwVars
<1>3. EmiCount' = e /\ Gone' = g /\ CaCount' = c /\ TakenBy(r)' = TakenBy(r)
  BY <1>1, <1>2 DEF EmiCount, CaCount, Gone, TakenBy, emiVars, caVars, readVars
<1>4. Done = g /\ Done' = g + n
  BY <1>1, <1>2, <1>3 DEF Done, Moved
<1>5. [k \in 1..n |-> emiBuf[emiRd + k - 1]] = Run(g, n)
  <2>1. /\ emiRd + n <= EmiSize /\ n <= e /\ emiRd \in 0..EmiSize - 1
        /\ EmiHolds(emiBuf, emiRd, e, g)
    <3>1. remain \in Nat /\ sz + remain <= e /\ emiRd + n <= EmiSize
      BY <1>1, <1>2 DEF WakeAll, ClaimInv, Claiming, WorkTypes
    <3>2. PICK m \in Nat : m = remain /\ n + m <= e
      BY <1>1, <3>1
    <3> QED  BY <1>1, <3>1, <3>2, DataCounts DEF DataInv
  <2>2. ASSUME NEW k \in 1..n PROVE emiBuf[emiRd + k - 1] = g + k
    <3>1. PICK j \in 0..e - 1 : j = k - 1
      BY <1>1, <2>1
    <3>2. emiRd + j < EmiSize /\ emiRd + k - 1 = emiRd + j /\ g + j + 1 = g + k
      BY <1>1, <2>1, <3>1, ConnsysLogAssumption
    <3>3. emiBuf[emiRd + j] = g + j + 1
      BY <1>1, <2>1, <3>2, EmiHoldsAt
    <3> QED  BY <3>2, <3>3
  <2> QED  BY <2>2 DEF Run
<1>6. CacheHolds(caBuf, caRd, c, TakenBy(r), out, printed \o Run(g, n), g + n)
  <2>1. caRd \in Int /\ TakenBy(r) \in 0..c
    BY <1>1, DataCounts
  <2>2. CacheHolds(caBuf, caRd, c, TakenBy(r), out, printed, g)
    BY <1>1, <1>4 DEF DataInv
  <2> QED  BY <1>1, <2>1, <2>2, CachePrinted, Zenon
<1>7. EmiCount' <= produced'
  BY <1>1, <1>2, <1>3 DEF DataInv
<1> QED  BY <1>1, <1>2, <1>3, <1>4, <1>5, <1>6, <1>7 DEF DataInv, emiVars, caVars

(* A segment that was copied or printed is given back to the firmware.     *)
LEMMA SegmentData ==
  ASSUME WakeAll, RoomInv, ReadInv, NEW r, Readers = {r}, DataInv(r),
         WorkEmiCommit \/ WorkPrintCommit
  PROVE  DataInv(r)'
<1>1. PICK g \in Nat, e \in Nat, n \in Nat :
        g = Gone /\ e = EmiCount /\ n = sz /\ n \in 0..e
  <2>1. sz \in Nat /\ EmiCount \in Nat /\ Gone \in Nat
    BY DataCounts DEF WakeAll, WorkTypes
  <2>2. wpc \in Claiming /\ remain \in Nat /\ sz + remain <= EmiCount
    BY DEF WorkEmiCommit, WorkPrintCommit, Claiming, WakeAll, ClaimInv, WorkTypes
  <2>3. sz \in 0..EmiCount
    BY <2>1, <2>2
  <2> QED  BY <2>1, <2>3
<1>2. PICK p \in {"segment", "printCopy"} : wpc \in Claiming /\ NextSegment(p)
  BY DEF WorkEmiCommit, WorkPrintCommit, Claiming
<1>3. /\ UNCHANGED <<emiWr, emiBuf, caVars, produced, readVars, out, printed, ipos>>
      /\ wpc \in {"emiCommit", "printCommit"}
  BY DEF WorkEmiCommit, WorkPrintCommit, outside, fwVars, caVars
<1>4. /\ emiRd' = (emiRd + n) % EmiSize /\ EmiCount' = e - n
      /\ wpc' \in {"segment", "printCopy", "end"}
  BY <1>1, <1>2, <1>3, NextSegmentIs DEF Claiming
<1>5. Gone' = g + n
  <2>1. produced = g + e
    BY <1>1, DataCounts
  <2>2. g + e - (e - n) = g + n
    BY <1>1
  <2> QED  BY <1>3, <1>4, <2>1, <2>2 DEF Gone
<1>6. Done = g + n /\ Done' = g + n
  <2>1. Moved = n
    <3>1. CASE wpc = "emiCommit"
      <4>1. ipos + isz + iremain = sz /\ isz = 0 /\ iremain = 0 /\ ipos \in Nat
        BY <3>1 DEF RoomInv, WakeAll, WorkTypes
      <4>2. ipos = n
        BY <1>1, <4>1
      <4> QED  BY <3>1, <4>2 DEF Moved
    <3>2. CASE wpc = "printCommit"
      BY <1>1, <3>2 DEF Moved
    <3> QED  BY <1>3, <3>1, <3>2
  <2>2. Moved' = 0
    BY <1>4 DEF Moved
  <2>3. g + n + 0 = g + n
    BY <1>1
  <2> QED  BY <1>1, <1>5, <2>1, <2>2, <2>3 DEF Done
<1>7. EmiHolds(emiBuf, (emiRd + n) % EmiSize, e - n, g + n)
  <2>1. EmiHolds(emiBuf, emiRd, e, g) /\ emiRd \in Int
    BY <1>1, DataCounts DEF DataInv
  <2> QED  BY <1>1, <2>1, EmiHoldsLess, Zenon
<1>8. CaCount' = CaCount /\ TakenBy(r)' = TakenBy(r)
  BY <1>3 DEF CaCount, TakenBy, caVars, readVars
<1>9. EmiCount' <= produced'
  <2>1. e - n <= g + e /\ produced = g + e
    BY <1>1, DataCounts
  <2> QED  BY <1>3, <1>4, <2>1
<1>10. EmiHolds(emiBuf, emiRd, EmiCount, Gone)'
  BY <1>3, <1>4, <1>5, <1>7
<1>11. Done' = Done
  BY <1>6
<1> QED  BY <1>3, <1>4, <1>8, <1>9, <1>10, <1>11 DEF DataInv, caVars

(* The reader takes the oldest bytes of the cache.                         *)
LEMMA TakeData ==
  ASSUME WakeAll, RoomInv, ReadInv, NEW r, Readers = {r}, DataInv(r), ReadCopy(r)
  PROVE  DataInv(r)'
<1>1. PICK c \in Nat, d \in Nat, n \in Nat, pos \in Nat :
        /\ c = CaCount /\ d = Done /\ n = rsz[r] /\ pos = rpos[r]
        /\ n \in 0..c /\ pos = caRd % CacheSize /\ pos + n <= CacheSize
  <2>1. r \in Readers /\ rsz[r] \in Nat /\ rpos[r] \in Nat /\ rremain[r] \in Nat
    BY DEF WakeAll, ReadTypes
  <2>2. /\ rsz[r] + rremain[r] <= CaCount
        /\ rpos[r] = caRd % CacheSize /\ rpos[r] + rsz[r] <= CacheSize
    BY <2>1 DEF ReadCopy, ReadInv
  <2>3. CaCount \in Nat /\ Done \in Nat
    BY DataCounts
  <2>4. rsz[r] \in 0..CaCount
    BY <2>1, <2>2, <2>3
  <2> QED  BY <2>1, <2>2, <2>3, <2>4
<1>2. /\ rpc[r] = "copy" /\ rpc'[r] = "commit" /\ rsz'[r] = n
      /\ out' = out \o [k \in 1..n |-> caBuf[pos + k - 1]]
      /\ UNCHANGED <<emiVars, caVars, produced, workVars, printed>>
  BY <1>1 DEF ReadCopy, workside, caVars, fwVars, WakeAll, ReadTypes
<1>3. /\ EmiCount' = EmiCount /\ CaCount' = CaCount /\ Gone' = Gone /\ Done' = Done
      /\ TakenBy(r) = 0 /\ TakenBy(r)' = n
  BY <1>1, <1>2 DEF EmiCount, CaCount, Gone, Done, Moved, TakenBy, emiVars, caVars, workVars
<1>4. CacheHolds(caBuf, caRd, c, n, out', printed, d)
  <2>1. /\ caRd \in Int /\ CacheHolds(caBuf, caRd, c, 0, out, printed, d)
    BY <1>1, <1>3, DataCounts DEF DataInv
  <2>2. IsSlot(CacheSize, caRd, 0, pos)
    <3>1. caRd + 0 = caRd
      BY <2>1
    <3> QED  BY <1>1, <3>1 DEF IsSlot
  <2>3. PICK t : t = [k \in 1..n |-> caBuf[pos + k - 1]]
    OBVIOUS
  <2>4. CacheHolds(caBuf, caRd, c, n, out \o t, printed, d)
    BY <1>1, <2>1, <2>2, <2>3, CacheTaken, Zenon
  <2> QED  BY <1>2, <2>3, <2>4
<1> QED  BY <1>1, <1>2, <1>3, <1>4 DEF DataInv, emiVars, caVars, workVars

(* What the work item has written stays behind the end of the cache.       *)
LEMMA HoldsMoved ==
  ASSUME NEW ca, NEW rd \in Int, NEW count \in Nat, NEW n \in 0..count,
         NEW m \in Nat, NEW v, Holds(ca, rd, CacheSize, count, m, v)
  PROVE  Holds(ca, (rd + n) % Modulus, CacheSize, count - n, m, v)
<1> SUFFICES ASSUME NEW k \in 0..m - 1
             PROVE  At(ca, (rd + n) % Modulus, CacheSize, count - n + k) = v[k]
  BY DEF Holds
<1>1. PICK j \in Int : j = count - n + k
  OBVIOUS
<1>2. n + j = count + k /\ n \in Int
  BY <1>1
<1>3. /\ CacheSize \in Nat \ {0} /\ Modulus \in Nat \ {0} /\ Divides(CacheSize, Modulus)
  BY ConnsysLogAssumption DEF Divides
<1>4. Shifted(ca, rd, CacheSize, Modulus, n, j)
  BY <1>2, <1>3, RingMoved, Zenon
<1>5. At(ca, rd, CacheSize, count + k) = v[k]
  BY DEF Holds
<1> QED  BY <1>1, <1>2, <1>4, <1>5 DEF Shifted

(* The reader gives back the bytes it took.                                *)
LEMMA GiveData ==
  ASSUME WakeAll, RoomInv, ReadInv, NEW r, Readers = {r}, DataInv(r), ReadCommit(r)
  PROVE  DataInv(r)'
<1>1. PICK c \in Nat, d \in Nat, n \in Nat :
        /\ c = CaCount /\ d = Done /\ n = rsz[r] /\ n \in 0..c
        /\ caRd' = (caRd + n) % Modulus /\ CaCount' = c - n
  <2>1. /\ rsz[r] \in 0..CaCount /\ caRd' = (caRd + rsz[r]) % Modulus
        /\ CaCount' = CaCount - rsz[r]
    BY ReadRoom DEF Read
  <2> QED  BY <2>1, DataCounts
<1>2. /\ rpc[r] = "commit" /\ rpc'[r] \in {"idle", "copy"}
      /\ UNCHANGED <<emiVars, caBuf, produced, workVars, printed, out>>
  BY DEF ReadCommit, NextPiece, workside, fwVars, WakeAll, ReadTypes
<1>3. /\ EmiCount' = EmiCount /\ Gone' = Gone /\ Done' = Done
      /\ TakenBy(r) = n /\ TakenBy(r)' = 0
  BY <1>1, <1>2 DEF EmiCount, Gone, Done, Moved, TakenBy, emiVars, workVars
<1>4. caRd \in Int /\ isz \in Nat
  BY DataCounts DEF WakeAll, WorkTypes
<1>5. CacheHolds(caBuf, (caRd + n) % Modulus, c - n, 0, out, printed, d)
  <2>1. CacheHolds(caBuf, caRd, c, n, out, printed, d)
    BY <1>1, <1>3 DEF DataInv
  <2> QED  BY <1>1, <1>4, <2>1, CacheMoved, Zenon
<1>6. wpc = "commit" =>
        Holds(caBuf, (caRd + n) % Modulus, CacheSize, c - n, isz, Bytes(isz, d))
  <2> SUFFICES ASSUME wpc = "commit"
               PROVE Holds(caBuf, (caRd + n) % Modulus, CacheSize, c - n, isz, Bytes(isz, d))
    OBVIOUS
  <2>1. Holds(caBuf, caRd, CacheSize, c, isz, Bytes(isz, d))
    BY <1>1 DEF DataInv
  <2> QED  BY <1>1, <1>4, <2>1, HoldsMoved, Zenon
<1> QED  BY <1>1, <1>2, <1>3, <1>5, <1>6 DEF DataInv, emiVars, workVars

(* Every step keeps it.                                                    *)
LEMMA LogStep ==
  ASSUME NEW r, Readers = {r}, LogInv(r), [Next]_vars
  PROVE  LogInv(r)'
<1>1. WakeAll /\ RoomInv /\ ReadInv /\ DataInv(r)
  BY DEF LogInv
<1>2. WakeAll' /\ RoomInv' /\ ReadInv'
  BY <1>1, WakeStep, RoomStep
<1>3. CASE Firmware
  BY <1>1, <1>2, <1>3, FirmwareData DEF LogInv
<1>4. CASE Irq \/ TimerFires \/ Alarm \/ (\E m \in Modes : SetMode(m)) \/ UNCHANGED vars
  <2>1. UNCHANGED <<emiVars, caVars, produced, workVars, readVars, out, printed>>
    BY <1>4 DEF Irq, TimerFires, Alarm, SetMode, vars, fwVars
  <2>2. Moved' = Moved /\ TakenBy(r)' = TakenBy(r) /\ UNCHANGED <<wpc, isz>>
    BY <2>1 DEF Moved, TakenBy, workVars, readVars
  <2> QED  BY <1>1, <1>2, <2>1, <2>2, StillData DEF LogInv
<1>5. CASE Work
  <2>1. CASE WorkStart \/ WorkCheck \/ WorkRoom \/ WorkPrepare \/ WorkSegment \/ WorkPrint \/ WorkEnd
    <3>1. UNCHANGED <<emiVars, caVars, produced, readVars, out, printed>>
      BY <2>1 DEF WorkStart, WorkCheck, WorkRoom, WorkPrepare, WorkSegment, WorkPrint, WorkEnd,
                  outside, fwVars, emiVars, caVars
    <3>2. wpc' # "commit" /\ Moved = 0 /\ Moved' = 0
      BY <2>1 DEF WorkStart, WorkCheck, WorkRoom, WorkPrepare, WorkSegment, WorkPrint, WorkEnd,
                  FirstSegment, Moved
    <3>3. TakenBy(r)' = TakenBy(r)
      BY <3>1 DEF TakenBy, readVars
    <3> QED  BY <1>1, <1>2, <3>1, <3>2, <3>3, StillData DEF LogInv
  <2>2. CASE WorkCopy
    BY <1>1, <1>2, <2>2, CopyData DEF LogInv
  <2>3. CASE WorkCommit
    BY <1>1, <1>2, <2>3, CommitData DEF LogInv
  <2>4. CASE WorkPrintCopy
    BY <1>1, <1>2, <2>4, PrintData DEF LogInv
  <2>5. CASE WorkEmiCommit \/ WorkPrintCommit
    BY <1>1, <1>2, <2>5, SegmentData DEF LogInv
  <2> QED  BY <1>5, <2>1, <2>2, <2>3, <2>4, <2>5 DEF Work
<1>6. CASE Read(r)
  <2>1. CASE ReadCopy(r)
    BY <1>1, <1>2, <2>1, TakeData DEF LogInv
  <2>2. CASE ReadCommit(r)
    BY <1>1, <1>2, <2>2, GiveData DEF LogInv
  <2>3. CASE ReadStart(r) \/ ReadPrepare(r) \/ ReadFault(r)
    <3>1. UNCHANGED <<emiVars, caVars, produced, workVars, out, printed>>
      BY <2>3 DEF ReadStart, ReadPrepare, ReadFault, workside, fwVars, caVars
    <3>2. rpc[r] # "commit" /\ rpc'[r] # "commit"
      BY <1>1, <2>3 DEF ReadStart, ReadPrepare, ReadFault, NextPiece, WakeAll, ReadTypes
    <3>3. Moved' = Moved /\ TakenBy(r)' = TakenBy(r) /\ UNCHANGED <<wpc, isz>>
      BY <3>1, <3>2 DEF Moved, TakenBy, workVars
    <3> QED  BY <1>1, <1>2, <3>1, <3>3, StillData DEF LogInv
  <2> QED  BY <1>6, <2>1, <2>2, <2>3 DEF Read
<1> QED  BY <1>3, <1>4, <1>5, <1>6 DEF Next, Finished

(* What the invariant says of the log as a whole: bytes 1..Done are out or *)
(* in the cache, the rest is in the EMI ring.                              *)
LEMMA LogMeans ==
  ASSUME NEW r, Readers = {r}, LogInv(r)
  PROVE  NothingLost /\ InOrder
<1>1. WakeAll /\ RoomInv /\ ReadInv /\ DataInv(r)
  BY DEF LogInv
<1>2. PICK g \in Nat, e \in Nat, c \in Nat, d \in Nat :
        /\ g = Gone /\ e = EmiCount /\ c = CaCount /\ d = Done /\ produced = g + e
        /\ c <= CacheSize /\ g <= d /\ d <= g + e
  <2>1. /\ Gone \in Nat /\ EmiCount \in Nat /\ CaCount \in 0..CacheSize /\ Done \in Nat
        /\ produced = Gone + EmiCount /\ Moved \in Nat /\ Done = Gone + Moved
    BY <1>1, DataCounts
  <2>2. Moved <= EmiCount
    <3>1. /\ sz \in Nat /\ remain \in Nat /\ isz \in Nat /\ iremain \in Nat /\ ipos \in Nat
      BY <1>1 DEF WakeAll, WorkTypes
    <3>2. CASE wpc \in {"copy", "commit", "emiCommit"}
      <4>1. ipos + isz + iremain = sz /\ sz + remain <= EmiCount /\ Moved = ipos
        BY <1>1, <3>2 DEF RoomInv, WakeAll, ClaimInv, Claiming, Moved
      <4> QED  BY <2>1, <3>1, <4>1
    <3>3. CASE wpc = "printCommit"
      <4>1. sz + remain <= EmiCount /\ Moved = sz
        BY <1>1, <3>3 DEF WakeAll, ClaimInv, Claiming, Moved
      <4> QED  BY <2>1, <3>1, <4>1
    <3>4. CASE wpc \notin {"copy", "commit", "emiCommit", "printCommit"}
      BY <2>1, <3>4 DEF Moved
    <3> QED  BY <3>2, <3>3, <3>4
  <2> QED  BY <2>1, <2>2, ConnsysLogAssumption
<1>3. /\ Increasing(out) /\ Increasing(printed) /\ Range(out) \cap Range(printed) = {}
      /\ 1..d = Range(out) \cup Range(printed) \cup
                 {At(caBuf, caRd, CacheSize, k) : k \in 0..c - 1}
  <2>1. caRd \in Int /\ TakenBy(r) \in 0..c
    BY <1>1, <1>2, DataCounts
  <2>2. CacheHolds(caBuf, caRd, c, TakenBy(r), out, printed, d)
    BY <1>1, <1>2 DEF DataInv
  <2>3. c \in Nat /\ d \in Nat
    BY <1>2
  <2> QED  BY <2>1, <2>2, <2>3, CacheMeans
<1>4. InCache = {At(caBuf, caRd, CacheSize, k) : k \in 0..c - 1}
  BY <1>2, ConnsysLogAssumption DEF InCache, At, Least
<1>5. InEmi = g + 1..g + e
  <2>1. \A k \in 0..e - 1 : emiBuf[(emiRd + k) % EmiSize] = g + k + 1
    BY <1>1, <1>2 DEF DataInv, EmiHolds, At
  <2>2. InEmi = {g + k + 1 : k \in 0..e - 1}
    BY <1>2, <2>1, ZenonT(60) DEF InEmi
  <2>3. ASSUME NEW x \in g + 1..g + e PROVE x \in {g + k + 1 : k \in 0..e - 1}
    <3>1. x - g - 1 \in 0..e - 1 /\ x = g + (x - g - 1) + 1
      BY <1>2
    <3> QED  BY <3>1
  <2>4. ASSUME NEW k \in 0..e - 1 PROVE g + k + 1 \in g + 1..g + e
    BY <1>2
  <2> QED  BY <2>2, <2>3, <2>4
<1>6. 1..produced = (g + 1..g + e) \cup 1..d
  BY <1>2
<1>7. NothingLost
  BY <1>3, <1>4, <1>5, <1>6 DEF NothingLost
<1> QED  BY <1>3, <1>7 DEF InOrder

(* With one reader no byte of the log disappears, for rings of any size,   *)
(* whatever the reader asks for and whenever the mode changes: what left   *)
(* the EMI ring is in the cache, was printed or was read.                  *)
THEOREM NothingIsLost == OneReader => (Spec => []NothingLost)
<1> SUFFICES ASSUME NEW r, Readers = {r} PROVE Spec => []NothingLost
  BY DEF OneReader
<1>1. Init => LogInv(r)
  BY WakeInit, DataInit DEF LogInv
<1>2. LogInv(r) /\ [Next]_vars => LogInv(r)'
  BY LogStep
<1>3. LogInv(r) => NothingLost
  BY LogMeans
<1> QED  BY <1>1, <1>2, <1>3, PTL DEF Spec

(* With one reader the log comes out in order and no byte twice, for rings *)
(* of any size: of the bytes up to Done the cache holds the newest that    *)
(* were not printed, and the reader takes the oldest of them.              *)
THEOREM LogIsInOrder == OneReader => (Spec => []InOrder)
<1> SUFFICES ASSUME NEW r, Readers = {r} PROVE Spec => []InOrder
  BY DEF OneReader
<1>1. Init => LogInv(r)
  BY WakeInit, DataInit DEF LogInv
<1>2. LogInv(r) /\ [Next]_vars => LogInv(r)'
  BY LogStep
<1>3. LogInv(r) => InOrder
  BY LogMeans
<1> QED  BY <1>1, <1>2, <1>3, PTL DEF Spec
=============================================================================
