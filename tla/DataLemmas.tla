----------------------------- MODULE DataLemmas ------------------------------
(***************************************************************************)
(* Facts about data that the proofs of several components use: what Append *)
(* and Tail do to a queue of distinct elements, how many of them a queue   *)
(* can hold, induction and recursion over the natural numbers, remainders, *)
(* and powers of 2.                                                        *)
(***************************************************************************)
EXTENDS Integers, Sequences, FiniteSets, Functions, SequenceTheorems,
        FiniteSetTheorems, WellFoundedInduction, TLAPS

(* Appending a new element adds just that element and keeps all distinct.  *)
LEMMA AppendDistinct ==
  ASSUME NEW S, NEW q \in Seq(S), NEW e \in S
  PROVE  /\ Append(q, e) \in Seq(S)
         /\ Range(Append(q, e)) = Range(q) \cup {e}
         /\ IsInjective(q) /\ e \notin Range(q) => IsInjective(Append(q, e))
<1> DEFINE p == Append(q, e)
<1>1. /\ p \in Seq(S) /\ Len(p) = Len(q) + 1 /\ Len(q) \in Nat
      /\ \A i \in 1 .. Len(q) : p[i] = q[i]
      /\ p[Len(q) + 1] = e
  BY AppendProperties
<1>2. DOMAIN p = 1 .. Len(q) + 1 /\ DOMAIN q = 1 .. Len(q)
  BY <1>1
<1>3. Range(p) = Range(q) \cup {e}
  <2>1. ASSUME NEW x \in Range(p) PROVE x \in Range(q) \cup {e}
    <3>1. PICK i \in 1 .. Len(q) + 1 : x = p[i]
      BY <1>2 DEF Range
    <3>2. i \in 1 .. Len(q) \/ i = Len(q) + 1
      BY <1>1
    <3> QED  BY <3>1, <3>2, <1>1, <1>2 DEF Range
  <2>2. ASSUME NEW x \in Range(q) PROVE x \in Range(p)
    <3>1. PICK i \in 1 .. Len(q) : x = q[i]
      BY <1>2 DEF Range
    <3>2. i \in DOMAIN p /\ p[i] = x
      BY <3>1, <1>1, <1>2
    <3> QED  BY <3>2 DEF Range
  <2>3. e \in Range(p)
    BY <1>1, <1>2 DEF Range
  <2> QED  BY <2>1, <2>2, <2>3
<1>4. ASSUME IsInjective(q), e \notin Range(q) PROVE IsInjective(p)
  <2>1. SUFFICES ASSUME NEW a \in DOMAIN p, NEW b \in DOMAIN p, p[a] = p[b]
                 PROVE  a = b
    BY DEF IsInjective
  <2>2. \A i \in 1 .. Len(q) : q[i] # e
    BY <1>2, <1>4 DEF Range
  <2>3. \A i, j \in 1 .. Len(q) : q[i] = q[j] => i = j
    BY <1>2, <1>4 DEF IsInjective
  <2>4. /\ a \in 1 .. Len(q) \/ a = Len(q) + 1
        /\ b \in 1 .. Len(q) \/ b = Len(q) + 1
    BY <1>1, <1>2
  <2> QED  BY <2>1, <2>2, <2>3, <2>4, <1>1
<1> QED  BY <1>1, <1>3, <1>4

(* Taking the head of a queue of distinct elements removes just the head.  *)
LEMMA TailDistinct ==
  ASSUME NEW S, NEW q \in Seq(S), q # <<>>
  PROVE  /\ Head(q) \in S /\ Tail(q) \in Seq(S)
         /\ Head(q) \in Range(q)
         /\ IsInjective(q) => /\ IsInjective(Tail(q))
                              /\ Range(Tail(q)) = Range(q) \ {Head(q)}
<1> DEFINE t == Tail(q)
<1>1. /\ Head(q) \in S /\ t \in Seq(S)
      /\ Len(t) = Len(q) - 1 /\ Len(t) \in Nat /\ Len(q) \in Nat
      /\ \A i \in 1 .. Len(t) : t[i] = q[i + 1]
  BY HeadTailProperties
<1>2. DOMAIN t = 1 .. Len(t) /\ DOMAIN q = 1 .. Len(q) /\ Head(q) = q[1]
  BY <1>1
<1>3. Head(q) \in Range(q)
  BY <1>1, <1>2 DEF Range
<1>4. ASSUME IsInjective(q)
      PROVE  IsInjective(t) /\ Range(t) = Range(q) \ {Head(q)}
  <2>1. \A i, j \in 1 .. Len(q) : q[i] = q[j] => i = j
    BY <1>2, <1>4 DEF IsInjective
  <2>2. \A i \in 1 .. Len(t) : i + 1 \in 1 .. Len(q) /\ i + 1 # 1 /\ t[i] = q[i + 1]
    BY <1>1
  <2>3. IsInjective(t)
    <3>1. SUFFICES ASSUME NEW a \in 1 .. Len(t), NEW b \in 1 .. Len(t), t[a] = t[b]
                   PROVE  a = b
      BY <1>2 DEF IsInjective
    <3>2. a + 1 = b + 1
      BY <2>1, <2>2, <3>1
    <3> QED  BY <3>2
  <2>4. ASSUME NEW x \in Range(t) PROVE x \in Range(q) /\ x # Head(q)
    <3>1. PICK i \in 1 .. Len(t) : x = t[i]
      BY <1>2 DEF Range
    <3>2. x = q[i + 1] /\ i + 1 \in 1 .. Len(q) /\ i + 1 # 1 /\ 1 \in 1 .. Len(q)
      BY <3>1, <2>2, <1>1
    <3>3. x # q[1]
      BY <3>2, <2>1
    <3> QED  BY <3>2, <3>3, <1>2 DEF Range
  <2>5. ASSUME NEW x \in Range(q), x # Head(q) PROVE x \in Range(t)
    <3>1. PICK i \in 1 .. Len(q) : x = q[i]
      BY <1>2 DEF Range
    <3>2. i # 1
      BY <3>1, <2>5, <1>2
    <3>3. i - 1 \in 1 .. Len(t) /\ (i - 1) + 1 = i
      BY <3>1, <3>2, <1>1
    <3>4. t[i - 1] = x
      BY <3>1, <3>3, <1>1
    <3> QED  BY <3>3, <3>4, <1>2 DEF Range
  <2> QED  BY <2>3, <2>4, <2>5
<1> QED  BY <1>1, <1>3, <1>4

(* A queue of distinct elements of a finite set has room for any element   *)
(* of the set that it does not hold.                                       *)
LEMMA DistinctHasRoom ==
  ASSUME NEW S, IsFiniteSet(S), NEW q \in Seq(S), IsInjective(q),
         NEW e \in S, e \notin Range(q)
  PROVE  Len(q) < Cardinality(S)
<1> DEFINE T == S \ {e}
<1>1. IsFiniteSet(T) /\ Cardinality(T) = Cardinality(S) - 1
  BY FS_RemoveElement
<1>2. Cardinality(S) \in Nat
  BY FS_CardinalityType
<1>3. Len(q) \in Nat /\ DOMAIN q = 1 .. Len(q) /\ \A i \in 1 .. Len(q) : q[i] \in S
  OBVIOUS
<1>4. q \in [1 .. Len(q) -> T]
  <2>1. \A i \in 1 .. Len(q) : q[i] # e
    BY <1>3 DEF Range
  <2> QED  BY <1>3, <2>1
<1>5. q \in Injection(1 .. Len(q), T)
  BY <1>4 DEF Injection
<1>6. Cardinality(1 .. Len(q)) <= Cardinality(T)
  BY <1>1, <1>5, FS_Injection
<1>7. Cardinality(1 .. Len(q)) = Len(q)
  <2>1. 1 \in Int /\ Len(q) \in Int
    BY <1>3
  <2>2. Cardinality(1 .. Len(q)) = IF 1 > Len(q) THEN 0 ELSE Len(q) - 1 + 1
    BY <2>1, FS_Interval, Zenon
  <2> QED  BY <1>3, <2>2
<1> QED  BY <1>1, <1>2, <1>3, <1>6, <1>7

(* What the elements of a queue carry is a queue again, ...                *)
LEMMA MapIsQueue ==
  ASSUME NEW S, NEW T, NEW f, NEW q \in Seq(S), \A i \in 1 .. Len(q) : f[q[i]] \in T
  PROVE  LET m == [i \in DOMAIN q |-> f[q[i]]] IN
         m \in Seq(T) /\ Len(m) = Len(q) /\ \A i \in 1 .. Len(q) : m[i] = f[q[i]]
<1>1. Len(q) \in Nat /\ DOMAIN q = 1 .. Len(q)
  BY LenProperties
<1> QED  BY <1>1

(* ... to which Append adds what the new element carries, ...              *)
LEMMA MapAppend ==
  ASSUME NEW S, NEW T, NEW f, NEW q \in Seq(S), NEW e \in S, f[e] \in T,
         \A i \in 1 .. Len(q) : f[q[i]] \in T
  PROVE  LET p == Append(q, e) IN
         [i \in DOMAIN p |-> f[p[i]]] = Append([i \in DOMAIN q |-> f[q[i]]], f[e])
<1> DEFINE p == Append(q, e)
           m == [i \in DOMAIN q |-> f[q[i]]]
           n == [i \in DOMAIN p |-> f[p[i]]]
<1>1. /\ p \in Seq(S) /\ Len(p) = Len(q) + 1 /\ Len(q) \in Nat
      /\ \A i \in 1 .. Len(q) : p[i] = q[i]
      /\ p[Len(q) + 1] = e
  BY AppendProperties
<1>2. m \in Seq(T) /\ Len(m) = Len(q) /\ \A i \in 1 .. Len(q) : m[i] = f[q[i]]
  BY MapIsQueue
<1>3. \A i \in 1 .. Len(p) : f[p[i]] = IF i = Len(q) + 1 THEN f[e] ELSE f[q[i]]
  BY <1>1
<1>4. \A i \in 1 .. Len(p) : i = Len(q) + 1 \/ i \in 1 .. Len(q)
  BY <1>1
<1>5. n \in Seq(T) /\ Len(n) = Len(p) /\ \A i \in 1 .. Len(p) : n[i] = f[p[i]]
  BY <1>1, <1>3, <1>4, MapIsQueue
<1> HIDE DEF m, n
<1>6. /\ Append(m, f[e]) \in Seq(T) /\ Len(Append(m, f[e])) = Len(q) + 1
      /\ \A i \in 1 .. Len(q) : Append(m, f[e])[i] = m[i]
      /\ Append(m, f[e])[Len(q) + 1] = f[e]
  BY <1>2, AppendProperties
<1>7. \A i \in 1 .. Len(n) : n[i] = Append(m, f[e])[i]
  BY <1>1, <1>2, <1>3, <1>4, <1>5, <1>6
<1>8. n = Append(m, f[e])
  BY <1>1, <1>5, <1>6, <1>7, SeqEqual
<1> QED  BY <1>8 DEF m, n

(* ... and whose first element Tail takes off.                             *)
LEMMA MapTail ==
  ASSUME NEW S, NEW T, NEW f, NEW q \in Seq(S), q # <<>>,
         \A i \in 1 .. Len(q) : f[q[i]] \in T
  PROVE  LET m == [i \in DOMAIN q |-> f[q[i]]]
             t == Tail(q)
         IN  m # <<>> /\ Head(m) = f[Head(q)] /\ Tail(m) = [i \in DOMAIN t |-> f[t[i]]]
<1> DEFINE t == Tail(q)
           m == [i \in DOMAIN q |-> f[q[i]]]
           n == [i \in DOMAIN t |-> f[t[i]]]
<1>1. /\ t \in Seq(S) /\ Len(t) = Len(q) - 1 /\ Len(t) \in Nat /\ Len(q) \in Nat \ {0}
      /\ \A i \in 1 .. Len(t) : t[i] = q[i + 1] /\ i + 1 \in 1 .. Len(q)
      /\ Head(q) = q[1] /\ 1 \in 1 .. Len(q)
  BY HeadTailProperties, EmptySeq
<1>2. m \in Seq(T) /\ Len(m) = Len(q) /\ \A i \in 1 .. Len(q) : m[i] = f[q[i]]
  BY MapIsQueue
<1>3. \A i \in 1 .. Len(t) : f[t[i]] \in T
  BY <1>1
<1>4. n \in Seq(T) /\ Len(n) = Len(t) /\ \A i \in 1 .. Len(t) : n[i] = f[t[i]]
  BY <1>1, <1>3, MapIsQueue
<1> HIDE DEF m, n, t
<1>5. m # <<>> /\ Head(m) = f[Head(q)]
  BY <1>1, <1>2
<1>6. /\ Tail(m) \in Seq(T) /\ Len(Tail(m)) = Len(q) - 1
      /\ \A i \in 1 .. Len(t) : Tail(m)[i] = m[i + 1]
  BY <1>1, <1>2, <1>5, HeadTailProperties
<1>7. \A i \in 1 .. Len(Tail(m)) : Tail(m)[i] = n[i]
  <2>1. ASSUME NEW i \in 1 .. Len(t) PROVE m[i + 1] = n[i]
    <3>1. i + 1 \in 1 .. Len(q) /\ t[i] = q[i + 1]
      BY <1>1
    <3> QED  BY <1>2, <1>4, <3>1
  <2>2. Len(Tail(m)) = Len(t)
    BY <1>1, <1>6
  <2> QED  BY <1>6, <2>1, <2>2
<1>8. Tail(m) = n
  BY <1>1, <1>4, <1>6, <1>7, SeqEqual
<1> QED  BY <1>5, <1>8 DEF m, n, t

(* The empty queue holds nothing.                                          *)
LEMMA EmptyDistinct == Range(<<>>) = {} /\ IsInjective(<<>>)
BY DEF Range, IsInjective
-----------------------------------------------------------------------------
(* Induction and recursion over the natural numbers, stated for sets and   *)
(* functions, so that they can be cited by name.                           *)

(* The order of the natural numbers as a relation.                         *)
Before == {p \in Nat \X Nat : p[1] < p[2]}

(* There is no infinite descent.                                           *)
LEMMA BeforeWellFounded == IsWellFoundedOn(Before, Nat)
<1>1. Before = OpToRel(<, Nat)
  BY DEF Before, OpToRel
<1> QED  BY <1>1, NatLessThanWellFounded

(* A set with 0 that has the successor of each of its numbers has all.     *)
LEMMA Induction ==
  ASSUME NEW T, 0 \in T, \A n \in Nat : n \in T => n + 1 \in T
  PROVE  Nat \subseteq T
<1> DEFINE U == Nat \ T
<1> SUFFICES ASSUME U # {} PROVE FALSE
  OBVIOUS
<1>1. PICK x \in U : \A y \in U : ~(<<y, x>> \in Before)
  <2>1. U \subseteq Nat
    OBVIOUS
  <2> HIDE DEF U
  <2> QED  BY <2>1, BeforeWellFounded, WFMin
<1>2. x - 1 \in Nat /\ (x - 1) + 1 = x /\ x - 1 < x
  <2>1. x \in Nat /\ x # 0
    OBVIOUS
  <2> QED  BY <2>1
<1>3. x - 1 \in T
  BY <1>1, <1>2 DEF Before
<1> QED  BY <1>2, <1>3

(* A set of natural numbers with an element has a least one.               *)
LEMMA LeastNumber ==
  ASSUME NEW S, S \subseteq Nat, S # {}
  PROVE  \E x \in S : \A y \in S : x <= y
<1>1. PICK x \in S : \A y \in S : ~(<<y, x>> \in Before)
  BY BeforeWellFounded, WFMin
<1>2. ASSUME NEW y \in S PROVE x <= y
  <2>1. x \in Nat /\ y \in Nat
    OBVIOUS
  <2>2. y < x => <<y, x>> \in Before
    BY <2>1 DEF Before
  <2> QED  BY <1>1, <2>1, <2>2
<1> QED  BY <1>2

(* A function on the natural numbers is given by its value at 0 and the    *)
(* step from each number to the next.                                      *)
Recursive(f, a, h) == f[0] = a /\ \A n \in Nat : f[n + 1] = h[<<n, f[n]>>]
Starts(f, m, a, h) == f[0] = a /\ \A i \in 0..(m - 1) : f[i + 1] = h[<<i, f[i]>>]

LEMMA RecursionUnique ==
  ASSUME NEW a, NEW h, NEW m \in Nat, NEW f, NEW g,
         Starts(f, m, a, h), Starts(g, m, a, h)
  PROVE  \A i \in 0..m : f[i] = g[i]
<1> DEFINE T == {i \in Nat : i <= m => f[i] = g[i]}
<1>1. 0 \in T
  BY DEF Starts
<1>2. ASSUME NEW n \in Nat, n \in T PROVE n + 1 \in T
  <2> SUFFICES ASSUME n + 1 <= m PROVE f[n + 1] = g[n + 1]
    OBVIOUS
  <2>1. n \in 0..(m - 1) /\ f[n] = g[n]
    BY <1>2
  <2> QED  BY <2>1 DEF Starts
<1>3. Nat \subseteq T
  <2> HIDE DEF T
  <2> QED  BY <1>1, <1>2, Induction
<1> QED  BY <1>3

LEMMA RecursionStarts ==
  ASSUME NEW S, NEW a \in S, NEW h \in [Nat \X S -> S]
  PROVE  \A m \in Nat : \E f \in [Nat -> S] : Starts(f, m, a, h)
<1> DEFINE T == {m \in Nat : \E f \in [Nat -> S] : Starts(f, m, a, h)}
<1>1. 0 \in T
  <2>1. [n \in Nat |-> a] \in [Nat -> S] /\ Starts([n \in Nat |-> a], 0, a, h)
    BY DEF Starts
  <2> QED  BY <2>1
<1>2. ASSUME NEW n \in Nat, n \in T PROVE n + 1 \in T
  <2>1. PICK f \in [Nat -> S] : Starts(f, n, a, h)
    BY <1>2
  <2> DEFINE g == [i \in Nat |-> IF i = n + 1 THEN h[<<n, f[n]>>] ELSE f[i]]
  <2>2. g \in [Nat -> S]
    OBVIOUS
  <2>3. Starts(g, n + 1, a, h)
    BY <2>1 DEF Starts
  <2> QED  BY <2>2, <2>3
<1>3. Nat \subseteq T
  <2> HIDE DEF T
  <2> QED  BY <1>1, <1>2, Induction
<1> QED  BY <1>3

LEMMA Recursion ==
  ASSUME NEW S, NEW a \in S, NEW h \in [Nat \X S -> S]
  PROVE  \E f \in [Nat -> S] : Recursive(f, a, h)
<1> DEFINE F(m) == CHOOSE f \in [Nat -> S] : Starts(f, m, a, h)
           G == [n \in Nat |-> F(n)[n]]
<1>1. ASSUME NEW m \in Nat PROVE F(m) \in [Nat -> S] /\ Starts(F(m), m, a, h)
  BY RecursionStarts
<1> HIDE DEF F
<1>2. G \in [Nat -> S]
  BY <1>1
<1>3. G[0] = a
  BY <1>1 DEF Starts
<1>4. ASSUME NEW n \in Nat PROVE G[n + 1] = h[<<n, G[n]>>]
  <2> DEFINE f == F(n) g == F(n + 1)
  <2>1. Starts(f, n, a, h) /\ Starts(g, n + 1, a, h)
    BY <1>1
  <2>2. Starts(g, n, a, h)
    BY <2>1 DEF Starts
  <2> HIDE DEF f, g
  <2>3. f[n] = g[n]
    BY <2>1, <2>2, RecursionUnique
  <2>4. g[n + 1] = h[<<n, g[n]>>]
    BY <2>1 DEF Starts
  <2> QED  BY <2>3, <2>4 DEF f, g
<1> HIDE DEF G
<1> QED  BY <1>2, <1>3, <1>4 DEF Recursive
(* A loop with a bound: the values that it takes are a function of the     *)
(* number of turns.                                                        *)
Loops(f, m, a, h) == f = [i \in 0..m |-> IF i = 0 THEN a ELSE h[<<i, f[i - 1]>>]]

LEMMA Loop ==
  ASSUME NEW S, NEW a \in S, NEW m \in Nat, NEW h \in [(1..m) \X S -> S]
  PROVE  \E f \in [0..m -> S] : Loops(f, m, a, h)
<1> DEFINE g == [p \in Nat \X S |-> IF p[1] + 1 \in 1..m THEN h[<<p[1] + 1, p[2]>>] ELSE p[2]]
<1>1. g \in [Nat \X S -> S]
  OBVIOUS
<1>2. PICK r \in [Nat -> S] : Recursive(r, a, g)
  <2> HIDE DEF g
  <2> QED  BY <1>1, Recursion
<1> DEFINE f == [i \in 0..m |-> r[i]]
<1>3. f \in [0..m -> S]
  OBVIOUS
<1>4. ASSUME NEW i \in 1..m PROVE f[i] = h[<<i, f[i - 1]>>]
  <2>1. i - 1 \in Nat /\ (i - 1) + 1 = i /\ i - 1 \in 0..m /\ i \in 0..m
    OBVIOUS
  <2>2. r[i] = g[<<i - 1, r[i - 1]>>] /\ r[i - 1] \in S
    <3> HIDE DEF g
    <3>1. r[(i - 1) + 1] = g[<<i - 1, r[i - 1]>>]
      BY <1>2, <2>1 DEF Recursive
    <3> QED  BY <1>2, <2>1, <3>1
  <2>3. g[<<i - 1, r[i - 1]>>] = h[<<i, r[i - 1]>>]
    BY <2>1, <2>2
  <2> QED  BY <2>1, <2>2, <2>3
<1>5. f[0] = a
  BY <1>2 DEF Recursive
<1>6. Loops(f, m, a, h)
  <2>1. \A i \in 0..m : f[i] = IF i = 0 THEN a ELSE h[<<i, f[i - 1]>>]
    <3> SUFFICES ASSUME NEW i \in 0..m PROVE f[i] = IF i = 0 THEN a ELSE h[<<i, f[i - 1]>>]
      OBVIOUS
    <3>1. i = 0 \/ i \in 1..m
      OBVIOUS
    <3> HIDE DEF f
    <3> QED  BY <1>4, <1>5, <3>1
  <2> HIDE DEF f
  <2> QED  BY <1>3, <2>1 DEF Loops
<1> QED  BY <1>3, <1>6
-----------------------------------------------------------------------------
(* Remainders.                                                             *)

(* Quotient and remainder.                                                 *)
LEMMA DivMod ==
  ASSUME NEW a \in Int, NEW b \in Nat \ {0}
  PROVE  /\ a \div b \in Int /\ a % b \in 0..(b - 1)
         /\ a = b * (a \div b) + (a % b)
OBVIOUS

(* A product with a positive number is at least that number.               *)
LEMMA ProductBound ==
  ASSUME NEW b \in Nat \ {0}, NEW k \in Int
  PROVE  /\ b * k \in Int
         /\ k >= 1 => b * k >= b
         /\ k <= -1 => b * k <= -b
         /\ k = 0 => b * k = 0
OBVIOUS

(* The remainder is the only number below the divisor that is right.       *)
LEMMA ModUnique ==
  ASSUME NEW a \in Int, NEW b \in Nat \ {0}, NEW k \in Int, NEW r \in 0..(b - 1), a = b * k + r
  PROVE  a % b = r
<1> DEFINE q == a \div b
           s == a % b
<1>1. q \in Int /\ s \in 0..(b - 1) /\ a = b * q + s
  BY DivMod
<1> HIDE DEF q, s
<1>2. b * (k - q) = b * k - b * q /\ k - q \in Int /\ b * k \in Int /\ b * q \in Int
  BY <1>1
<1>3. b * (k - q) = s - r
  BY <1>1, <1>2
<1>4. k - q = 0
  BY <1>1, <1>2, <1>3, ProductBound
<1>5. b * (k - q) = 0
  BY <1>2, <1>4, ProductBound
<1> QED  BY <1>1, <1>3, <1>5 DEF s

(* Whole turns do not change it.                                           *)
LEMMA ModTurns ==
  ASSUME NEW a \in Int, NEW b \in Nat \ {0}, NEW k \in Int
  PROVE  (a + (b * k)) % b = a % b
<1> DEFINE q == a \div b
           r == a % b
<1>1. q \in Int /\ r \in 0..(b - 1) /\ a = b * q + r
  BY DivMod
<1> HIDE DEF q, r
<1>2. q + k \in Int /\ b * (q + k) = b * q + b * k /\ b * k \in Int /\ b * q \in Int
  BY <1>1
<1>3. a + b * k \in Int /\ a + b * k = b * (q + k) + r
  BY <1>1, <1>2
<1>4. (a + (b * k)) % b = r
  BY <1>1, <1>2, <1>3, ModUnique
<1> QED  BY <1>4 DEF r

(* It is the number itself within one turn, and one turn off next to it.   *)
LEMMA ModNear ==
  ASSUME NEW a \in Int, NEW b \in Nat \ {0}
  PROVE  /\ a \in 0..(b - 1) => a % b = a
         /\ a \in b..(2 * b - 1) => a % b = a - b
         /\ a \in (-b)..(-1) => a % b = a + b
<1>1. ASSUME a \in 0..(b - 1) PROVE a % b = a
  <2>1. a = b * 0 + a /\ 0 \in Int
    OBVIOUS
  <2> QED  BY <1>1, <2>1, ModUnique
<1>2. ASSUME a \in b..(2 * b - 1) PROVE a % b = a - b
  <2>1. a = b * 1 + (a - b) /\ 1 \in Int /\ a - b \in 0..(b - 1)
    BY <1>2
  <2> QED  BY <2>1, ModUnique
<1>3. ASSUME a \in (-b)..(-1) PROVE a % b = a + b
  <2>1. a = b * (-1) + (a + b) /\ -1 \in Int /\ a + b \in 0..(b - 1)
    BY <1>3
  <2> QED  BY <2>1, ModUnique
<1> QED  BY <1>1, <1>2, <1>3

(* Numbers less than a turn apart have different remainders.               *)
LEMMA ModApart ==
  ASSUME NEW a \in Int, NEW b \in Nat \ {0}, NEW j \in 1..(b - 1)
  PROVE  (a + j) % b # a % b
<1> SUFFICES ASSUME (a + j) % b = a % b PROVE FALSE
  OBVIOUS
<1> DEFINE p == a \div b
           q == (a + j) \div b
           r == a % b
<1>1. /\ p \in Int /\ q \in Int /\ r \in 0..(b - 1)
      /\ a = b * p + r /\ a + j = b * q + r
  <2>1. a + j \in Int
    OBVIOUS
  <2> QED  BY <2>1, DivMod
<1> HIDE DEF p, q, r
<1>2. b * (q - p) = b * q - b * p /\ q - p \in Int /\ b * p \in Int /\ b * q \in Int
  BY <1>1
<1>3. b * (q - p) = j
  BY <1>1, <1>2
<1> QED  BY <1>2, <1>3, ProductBound

(* The remainder of a remainder by a multiple.                             *)
LEMMA ModOfMultiple ==
  ASSUME NEW a \in Int, NEW b \in Nat \ {0}, NEW k \in Nat \ {0}
  PROVE  (a % (b * k)) % b = a % b
<1> DEFINE m == b * k
           q == a \div m
           r == a % m
<1>0. m \in Nat \ {0}
  OBVIOUS
<1> HIDE DEF m
<1>1. q \in Int /\ r \in 0..(m - 1) /\ a = m * q + r
  BY <1>0, DivMod, Zenon
<1> HIDE DEF q, r
<1>2. k * q \in Int /\ m * q = b * (k * q)
  BY <1>1 DEF m
<1>3. r \in Int /\ a = r + (b * (k * q))
  BY <1>0, <1>1, <1>2
<1>4. (r + (b * (k * q))) % b = r % b
  BY <1>2, <1>3, ModTurns, Zenon
<1> QED  BY <1>3, <1>4 DEF r, m

(* The powers of 2, as the models of components compute them.              *)
Doubling(f) == f = [n \in Nat |-> IF n = 0 THEN 1 ELSE 2 * f[n - 1]]

LEMMA DoublingSteps ==
  /\ \E f : Doubling(f)
  /\ \A f : Doubling(f) =>
       /\ f \in [Nat -> Nat] /\ f[0] = 1
       /\ \A n \in Nat : f[n + 1] = 2 * f[n]
<1> DEFINE h == [p \in Nat \X Nat |-> 2 * p[2]]
<1>1. PICK f \in [Nat -> Nat] : Recursive(f, 1, h)
  <2>1. h \in [Nat \X Nat -> Nat]
    OBVIOUS
  <2> HIDE DEF h
  <2> QED  BY <2>1, Recursion
<1>2. f[0] = 1 /\ \A n \in Nat : f[n + 1] = 2 * f[n]
  BY <1>1 DEF Recursive
<1>3. Doubling(f)
  <2>1. ASSUME NEW n \in Nat, n # 0 PROVE f[n] = 2 * f[n - 1]
    <3>1. n - 1 \in Nat /\ (n - 1) + 1 = n
      BY <2>1
    <3> QED  BY <1>2, <3>1
  <2> QED  BY <1>2, <2>1 DEF Doubling
<1>4. ASSUME NEW g, Doubling(g) PROVE g = f
  <2>1. g[0] = 1 /\ \A n \in Nat : g[n + 1] = 2 * g[n]
    BY <1>4 DEF Doubling
  <2> DEFINE T == {n \in Nat : g[n] = f[n]}
  <2>2. 0 \in T
    BY <1>2, <2>1
  <2>3. \A n \in Nat : n \in T => n + 1 \in T
    BY <1>2, <2>1
  <2>4. Nat \subseteq T
    <3> HIDE DEF T
    <3> QED  BY <2>2, <2>3, Induction
  <2> QED  BY <1>3, <1>4, <2>4 DEF Doubling
<1> QED  BY <1>2, <1>3, <1>4

(* A smaller power of 2 divides a greater one.                             *)
LEMMA PowersDivide ==
  ASSUME NEW f, Doubling(f), NEW s \in Nat, NEW w \in Nat, s < w
  PROVE  /\ f[s] \in Nat \ {0} /\ f[w] \in Nat \ {0} /\ f[s] < f[w]
         /\ \E k \in Nat \ {0} : f[w] = f[s] * k
<1>1. /\ f \in [Nat -> Nat] /\ f[0] = 1
      /\ \A n \in Nat : f[n + 1] = 2 * f[n]
  BY DoublingSteps
<1> DEFINE P == {n \in Nat : f[n] \in Nat \ {0}}
           T == {n \in Nat : f[s + n] \in Nat /\ \E k \in Nat \ {0} : f[s + n] = f[s] * k}
           U == {n \in Nat : f[s] < f[(s + n) + 1]}
<1>2. Nat \subseteq P
  <2>1. 0 \in P /\ \A n \in Nat : n \in P => n + 1 \in P
    BY <1>1
  <2> HIDE DEF P
  <2> QED  BY <2>1, Induction
<1>3. Nat \subseteq T
  <2>1. 0 \in T
    BY <1>1
  <2>2. ASSUME NEW n \in Nat, n \in T PROVE n + 1 \in T
    <3>1. PICK k \in Nat \ {0} : f[s + n] = f[s] * k
      BY <2>2
    <3>2. f[s + (n + 1)] = 2 * f[s + n] /\ f[s] \in Nat
      <4>1. s + n \in Nat /\ s + (n + 1) = (s + n) + 1
        OBVIOUS
      <4> QED  BY <1>1, <4>1
    <3>3. 2 * k \in Nat \ {0} /\ f[s] * (2 * k) = 2 * (f[s] * k)
      BY <3>2
    <3>4. f[s + (n + 1)] = f[s] * (2 * k) /\ f[s + (n + 1)] \in Nat
      BY <1>1, <3>1, <3>2, <3>3
    <3> QED  BY <3>3, <3>4
  <2> HIDE DEF T
  <2> QED  BY <2>1, <2>2, Induction
<1>4. Nat \subseteq U
  <2>1. 0 \in U
    <3>1. f[(s + 0) + 1] = 2 * f[s] /\ f[s] \in Nat \ {0}
      BY <1>1, <1>2
    <3> QED  BY <3>1
  <2>2. ASSUME NEW n \in Nat, n \in U PROVE n + 1 \in U
    <3>1. s + n \in Nat /\ (s + n) + 1 \in Nat /\ (s + (n + 1)) + 1 = ((s + n) + 1) + 1
      OBVIOUS
    <3>2. f[(s + (n + 1)) + 1] = 2 * f[(s + n) + 1] /\ f[(s + n) + 1] \in Nat /\ f[s] \in Nat
      BY <1>1, <3>1
    <3> QED  BY <2>2, <3>2
  <2> HIDE DEF U
  <2> QED  BY <2>1, <2>2, Induction
<1>5. w - s \in Nat /\ (w - s) - 1 \in Nat /\ s + (w - s) = w /\ (s + ((w - s) - 1)) + 1 = w
  OBVIOUS
<1>6. f[s] < f[w]
  BY <1>4, <1>5
<1>7. \E k \in Nat \ {0} : f[w] = f[s] * k
  BY <1>3, <1>5
<1> HIDE DEF P
<1> QED  BY <1>2, <1>6, <1>7 DEF P
=============================================================================
