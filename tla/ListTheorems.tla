---------------------------- MODULE ListTheorems ----------------------------
(***************************************************************************)
(* What the operators of Lists do to the members of a list, for lists of   *)
(* every length, and the induction that proofs about recursive functions   *)
(* need.  The library's induction rules take a predicate, which the        *)
(* provers cannot instantiate; LeastNumber and SetInduction take a set.    *)
(***************************************************************************)
EXTENDS Lists, SequenceTheorems, FiniteSetTheorems, WellFoundedInduction,
        TLAPS

-----------------------------------------------------------------------------
(* Induction over the natural numbers, for sets.                           *)

(* A set of natural numbers that is not empty has a least member.          *)
LEMMA LeastNumber ==
    ASSUME NEW T \in SUBSET Nat, T # {}
    PROVE  \E x \in T : \A y \in T : x <= y
<1>1. IsWellFoundedOn(OpToRel(<, Nat), Nat)
  BY NatLessThanWellFounded, Zenon
<1>2. \E x \in T : \A y \in T : ~(<<y, x>> \in OpToRel(<, Nat))
  BY <1>1, WFMin, Zenon
<1>3. PICK x \in T : \A y \in T : ~(<<y, x>> \in OpToRel(<, Nat))
  BY <1>2, Zenon
<1>4. ASSUME NEW y \in T PROVE x <= y
  <2>1. ~(<<y, x>> \in OpToRel(<, Nat))
    BY <1>3, Zenon
  <2>2. ~(y < x)
    BY <2>1 DEF OpToRel
  <2> QED
    BY <2>2
<1> QED
  BY <1>4

(* A set with 0 and with the successor of each member has every number.    *)
LEMMA SetInduction ==
    ASSUME NEW T, 0 \in T, \A n \in Nat : n \in T => n + 1 \in T
    PROVE  \A n \in Nat : n \in T
<1> SUFFICES ASSUME Nat \ T # {} PROVE FALSE
  OBVIOUS
<1>1. PICK x \in Nat \ T : \A y \in Nat \ T : x <= y
  BY LeastNumber
<1>2. x # 0 /\ x - 1 \in Nat
  BY <1>1
<1>3. x - 1 \in T
  BY <1>1, <1>2
<1> QED
  BY <1>1, <1>2, <1>3

-----------------------------------------------------------------------------
(* The members of a queue.                                                 *)

LEMMA ElementsType ==
    ASSUME NEW S, NEW q \in Seq(S)
    PROVE  /\ Elements(q) \subseteq S
           /\ \A i \in 1..Len(q) : q[i] \in Elements(q)
           /\ q = <<>> <=> Elements(q) = {}
<1>1. \A i \in 1..Len(q) : q[i] \in S
  BY ElementOfSeq
<1>2. Len(q) \in Nat /\ (q # <<>> => 1 \in 1..Len(q))
  BY LenProperties, EmptySeq
<1>3. Elements(<<>>) = {}
  BY DEF Elements
<1> QED
  BY <1>1, <1>2, <1>3 DEF Elements

LEMMA ElementsEmpty == Elements(<<>>) = {} /\ Distinct(<<>>)
BY DEF Elements, Distinct

LEMMA ElementsOne ==
    ASSUME NEW x PROVE Elements(<<x>>) = {x} /\ Distinct(<<x>>)
BY DEF Elements, Distinct

(* Joining two queues.                                                     *)
LEMMA ElementsConcat ==
    ASSUME NEW S, NEW q \in Seq(S), NEW s \in Seq(S)
    PROVE  /\ q \o s \in Seq(S)
           /\ Elements(q \o s) = Elements(q) \cup Elements(s)
           /\ Distinct(q) /\ Distinct(s) /\ Elements(q) \cap Elements(s) = {}
                => Distinct(q \o s)
<1> DEFINE m == Len(q)
           n == Len(s)
           c == q \o s
<1>1. /\ m \in Nat /\ n \in Nat /\ Len(c) = m + n /\ c \in Seq(S)
      /\ \A i \in 1..(m + n) : c[i] = IF i <= m THEN q[i] ELSE s[i - m]
  BY LenProperties, ConcatProperties
<1> HIDE DEF c, m, n
<1>2. \A i \in 1..m : i \in 1..(m + n) /\ c[i] = q[i]
  BY <1>1
<1>3. \A i \in 1..n : m + i \in 1..(m + n) /\ c[m + i] = s[i]
  BY <1>1
<1>4. \A i \in 1..(m + n) : \/ i \in 1..m /\ c[i] = q[i]
                            \/ i - m \in 1..n /\ c[i] = s[i - m]
  BY <1>1
<1>5. Elements(c) = Elements(q) \cup Elements(s)
  <2>1. Elements(c) = {c[i] : i \in 1..(m + n)}
    BY <1>1 DEF Elements
  <2>2. Elements(q) = {q[i] : i \in 1..m} /\ Elements(s) = {s[i] : i \in 1..n}
    BY DEF Elements, m, n
  <2>3. ASSUME NEW x \in Elements(c) PROVE x \in Elements(q) \cup Elements(s)
    BY <1>4, <2>1, <2>2
  <2>4. ASSUME NEW x \in Elements(q) PROVE x \in Elements(c)
    BY <1>2, <2>1, <2>2
  <2>5. ASSUME NEW x \in Elements(s) PROVE x \in Elements(c)
    BY <1>3, <2>1, <2>2
  <2> QED
    BY <2>3, <2>4, <2>5
<1>6. ASSUME Distinct(q), Distinct(s), Elements(q) \cap Elements(s) = {}
      PROVE  Distinct(c)
  <2> SUFFICES ASSUME NEW i \in 1..(m + n), NEW j \in 1..(m + n), c[i] = c[j]
               PROVE  i = j
    BY <1>1 DEF Distinct
  <2>1. \A a \in 1..m, b \in 1..n : q[a] # s[b]
    BY <1>6 DEF Elements, m, n
  <2>2. CASE i \in 1..m /\ j \in 1..m
    BY <1>2, <1>6, <2>2 DEF Distinct, m
  <2>3. CASE i - m \in 1..n /\ j - m \in 1..n
    <3>1. s[i - m] = s[j - m]
      BY <1>1, <2>3
    <3>2. i - m = j - m
      BY <1>6, <2>3, <3>1 DEF Distinct, n
    <3> QED
      BY <1>1, <3>2
  <2> QED
    BY <1>1, <1>4, <2>1, <2>2, <2>3
<1> QED
  BY <1>1, <1>5, <1>6 DEF c

(* HTC_PACKET_ENQUEUE.                                                     *)
LEMMA ElementsAppend ==
    ASSUME NEW S, NEW q \in Seq(S), NEW x \in S
    PROVE  /\ Append(q, x) \in Seq(S) /\ Append(q, x) # <<>>
           /\ Elements(Append(q, x)) = Elements(q) \cup {x}
           /\ Distinct(q) /\ x \notin Elements(q) => Distinct(Append(q, x))
<1> DEFINE y == <<x>>
           a == Append(q, x)
<1>1. y \in Seq(S) /\ a = q \o y
  BY AppendIsConcat
<1>2. a # <<>>
  BY AppendProperties
<1>3. Elements(y) = {x} /\ Distinct(y)
  BY ElementsOne
<1> HIDE DEF y, a
<1>4. /\ a \in Seq(S) /\ Elements(a) = Elements(q) \cup Elements(y)
      /\ Distinct(q) /\ Distinct(y) /\ Elements(q) \cap Elements(y) = {}
            => Distinct(a)
  BY <1>1, ElementsConcat
<1> QED
  BY <1>2, <1>3, <1>4 DEF a

(* Taking the first packet off a queue.                                    *)
LEMMA ElementsTail ==
    ASSUME NEW S, NEW q \in Seq(S), q # <<>>
    PROVE  /\ Head(q) \in S /\ Tail(q) \in Seq(S)
           /\ Elements(q) = {Head(q)} \cup Elements(Tail(q))
           /\ Distinct(q) => /\ Distinct(Tail(q))
                             /\ Head(q) \notin Elements(Tail(q))
<1> DEFINE n == Len(q)
           h == Head(q)
           u == Tail(q)
<1>1. /\ n \in Nat \ {0} /\ h \in S /\ u \in Seq(S) /\ Len(u) = n - 1
      /\ \A i \in 1..(n - 1) : u[i] = q[i + 1]
      /\ h = q[1]
  BY HeadTailProperties, EmptySeq
<1> HIDE DEF n, h, u
<1>2. Elements(q) = {q[i] : i \in 1..n} /\ Elements(u) = {u[i] : i \in 1..(n - 1)}
  BY <1>1 DEF Elements, n
<1>3. ASSUME NEW x \in Elements(q) PROVE x \in {h} \cup Elements(u)
  <2>1. PICK i \in 1..n : x = q[i]
    BY <1>2
  <2>2. CASE i = 1
    BY <1>1, <2>1, <2>2
  <2>3. CASE i # 1
    <3>1. i - 1 \in 1..(n - 1) /\ u[i - 1] = q[i]
      BY <1>1, <2>3
    <3> QED
      BY <1>2, <2>1, <3>1
  <2> QED
    BY <2>2, <2>3
<1>4. h \in Elements(q)
  BY <1>1, <1>2
<1>5. ASSUME NEW x \in Elements(u) PROVE x \in Elements(q)
  BY <1>1, <1>2
<1>6. ASSUME Distinct(q) PROVE Distinct(u) /\ h \notin Elements(u)
  <2>1. \A i, j \in 1..n : q[i] = q[j] => i = j
    BY <1>6 DEF Distinct, n
  <2>2. Distinct(u)
    BY <1>1, <2>1 DEF Distinct
  <2>3. \A i \in 1..(n - 1) : h # u[i]
    BY <1>1, <2>1
  <2> QED
    BY <1>2, <2>2, <2>3
<1> QED
  BY <1>1, <1>3, <1>4, <1>5, <1>6 DEF h, u

(* Taking the first k packets off a queue, as a bundle is.                 *)
LEMMA ElementsSplit ==
    ASSUME NEW S, NEW q \in Seq(S), NEW k \in 0..Len(q)
    PROVE  LET first == SubSeq(q, 1, k)
               rest == SubSeq(q, k + 1, Len(q))
           IN  /\ first \in Seq(S) /\ rest \in Seq(S)
               /\ q = first \o rest /\ Len(first) = k
               /\ Elements(q) = Elements(first) \cup Elements(rest)
               /\ Distinct(q) => /\ Distinct(first) /\ Distinct(rest)
                                 /\ Elements(first) \cap Elements(rest) = {}
<1> DEFINE n == Len(q)
           f == SubSeq(q, 1, k)
           r == SubSeq(q, k + 1, n)
<1>1. n \in Nat /\ k \in 0..n /\ \A i \in 1..n : q[i] \in S
  BY LenProperties, ElementOfSeq
<1>2. /\ f \in Seq(S) /\ Len(f) = k /\ \A i \in 1..k : f[i] = q[i]
  <2> HIDE DEF n
  <2>1. \A i \in 1..k : q[i] \in S
    BY <1>1
  <2>2. /\ f \in Seq(S) /\ Len(f) = IF 1 <= k THEN k - 1 + 1 ELSE 0
        /\ \A i \in 1..(k - 1 + 1) : f[i] = q[1 + i - 1]
    <3>1. 1 \in Int /\ k \in Int
      BY <1>1
    <3> QED
      BY <2>1, <3>1, SubSeqProperties
  <2> HIDE DEF f
  <2> QED
    BY <1>1, <2>2
<1>3. /\ r \in Seq(S) /\ Len(r) = n - k
      /\ \A i \in 1..(n - k) : r[i] = q[k + i]
  <2> HIDE DEF n
  <2>1. \A i \in (k + 1)..n : q[i] \in S
    BY <1>1
  <2>2. /\ r \in Seq(S)
        /\ Len(r) = IF k + 1 <= n THEN n - (k + 1) + 1 ELSE 0
        /\ \A i \in 1..(n - (k + 1) + 1) : r[i] = q[k + 1 + i - 1]
    <3>1. k + 1 \in Int /\ n \in Int
      BY <1>1
    <3> QED
      BY <2>1, <3>1, SubSeqProperties
  <2> HIDE DEF r
  <2> QED
    BY <1>1, <2>2
<1>4. f \o r = q
  <2>1. 1 \in 1..Len(q) + 1 /\ k \in 1 - 1..Len(q) /\ Len(q) \in k..Len(q)
    BY <1>1
  <2>2. SubSeq(q, 1, k) \o SubSeq(q, k + 1, Len(q)) = SubSeq(q, 1, Len(q))
    BY <2>1, ConcatAdjacentSubSeq
  <2> QED
    BY <2>2, SubSeqFull
<1> HIDE DEF f, r, n
<1>5. Elements(q) = Elements(f) \cup Elements(r)
  BY ONLY <1>2, <1>3, <1>4, ElementsConcat, ZenonT(40)
<1>6. ASSUME Distinct(q)
      PROVE  Distinct(f) /\ Distinct(r) /\ Elements(f) \cap Elements(r) = {}
  <2>1. \A i, j \in 1..n : q[i] = q[j] => i = j
    BY <1>6 DEF Distinct, n
  <2>2. Distinct(f)
    BY <1>1, <1>2, <2>1 DEF Distinct
  <2>3. Distinct(r)
    BY <1>1, <1>3, <2>1 DEF Distinct
  <2>4. ASSUME NEW i \in 1..k, NEW j \in 1..(n - k) PROVE f[i] # r[j]
    <3>1. i \in 1..n /\ k + j \in 1..n /\ i # k + j
      BY <1>1
    <3>2. f[i] = q[i] /\ r[j] = q[k + j]
      BY <1>2, <1>3
    <3> QED
      BY <2>1, <3>1, <3>2
  <2>5. Elements(f) \cap Elements(r) = {}
    BY <1>2, <1>3, <2>4 DEF Elements
  <2> QED
    BY <2>2, <2>3, <2>5
<1> QED
  BY <1>2, <1>3, <1>4, <1>5, <1>6 DEF f, r, n

(* DL_ListRemove unlinks one member and nothing else, wherever it is.      *)
LEMMA ElementsRemove ==
    ASSUME NEW S, NEW q \in Seq(S), NEW x, Distinct(q)
    PROVE  /\ DL_ListRemove(q, x) \in Seq(S)
           /\ Elements(DL_ListRemove(q, x)) = Elements(q) \ {x}
           /\ Distinct(DL_ListRemove(q, x))
<1>1. CASE x \notin Elements(q)
  BY <1>1 DEF DL_ListRemove
<1>2. CASE x \in Elements(q)
  <2> DEFINE i == CHOOSE j \in 1..Len(q) : q[j] = x
             f == SubSeq(q, 1, i - 1)
             r == SubSeq(q, i + 1, Len(q))
             g == SubSeq(q, i, Len(q))
  <2>1. i \in 1..Len(q) /\ q[i] = x /\ Len(q) \in Nat
    BY <1>2, LenProperties DEF Elements
  <2>2. DL_ListRemove(q, x) = f \o r
    BY <1>2 DEF DL_ListRemove
  <2> HIDE DEF i
  <2>3. i - 1 \in 0..Len(q) /\ i \in 0..Len(q) /\ i - 1 + 1 = i
    BY <2>1
  <2>4. /\ f \in Seq(S) /\ g \in Seq(S)
        /\ Elements(q) = Elements(f) \cup Elements(g)
        /\ Distinct(f) /\ Distinct(g)
        /\ Elements(f) \cap Elements(g) = {}
    <3> DEFINE k == i - 1
    <3>1. k \in 0..Len(q) /\ k + 1 = i
      BY <2>3
    <3>2. /\ SubSeq(q, 1, k) \in Seq(S) /\ SubSeq(q, k + 1, Len(q)) \in Seq(S)
          /\ Elements(q) = Elements(SubSeq(q, 1, k))
                             \cup Elements(SubSeq(q, k + 1, Len(q)))
          /\ Distinct(SubSeq(q, 1, k)) /\ Distinct(SubSeq(q, k + 1, Len(q)))
          /\ Elements(SubSeq(q, 1, k))
                \cap Elements(SubSeq(q, k + 1, Len(q))) = {}
      <4> HIDE DEF k
      <4> QED
        BY <3>1, ElementsSplit
    <3> QED
      BY <3>1, <3>2
  <2>5. i \in 1..Len(q) /\ Len(q) \in i..Len(q)
    BY <2>1
  <2>6. Head(g) = x /\ Tail(g) = r
    BY <2>1, <2>5, HeadTailOfSubSeq
  <2>7. g # <<>>
    <3>1. \A j \in i..Len(q) : q[j] \in S
      BY <2>1, ElementOfSeq
    <3>2. Len(g) = IF i <= Len(q) THEN Len(q) - i + 1 ELSE 0
      BY <2>1, <3>1, SubSeqProperties
    <3>3. Len(g) # 0
      BY <2>1, <3>2
    <3> QED
      BY <3>3, EmptySeq
  <2> HIDE DEF f, r, g
  <2>8. /\ r \in Seq(S) /\ Elements(g) = {x} \cup Elements(r)
        /\ Distinct(r) /\ x \notin Elements(r)
    BY <2>4, <2>6, <2>7, ElementsTail
  <2>9. Elements(f) \cap Elements(r) = {} /\ x \notin Elements(f)
    BY <2>4, <2>8
  <2>10. f \o r \in Seq(S) /\ Distinct(f \o r)
         /\ Elements(f \o r) = Elements(f) \cup Elements(r)
    BY <2>4, <2>8, <2>9, ElementsConcat
  <2>11. Elements(f) \cup Elements(r) = Elements(q) \ {x}
    BY <2>4, <2>8, <2>9
  <2> QED
    BY <2>2, <2>10, <2>11
<1> QED
  BY <1>1, <1>2
-----------------------------------------------------------------------------
(* Without, a recursive function.                                          *)

(* What Without has kept of the first i members, from what it kept before. *)
KeptNext(k, q, S, i) ==
    IF q[i] \in S THEN k[i - 1] ELSE Append(k[i - 1], q[i])

(* k is the recursive function of Without, up to index n.                  *)
IsKept(k, q, S, n) ==
    k = [i \in 0..n |-> IF i = 0 THEN <<>> ELSE KeptNext(k, q, S, i)]

(* The recursion has a solution: extend the one for n by one value.        *)
LEMMA KeptExists ==
    ASSUME NEW q, NEW S
    PROVE  \A n \in Nat : \E k : IsKept(k, q, S, n)
<1> DEFINE T == {n \in Nat : \E k : IsKept(k, q, S, n)}
<1>1. 0 \in T
  <2>1. IsKept([i \in 0..0 |-> <<>>], q, S, 0)
    BY DEF IsKept
  <2> QED
    BY <2>1
<1>2. ASSUME NEW n \in Nat, n \in T PROVE n + 1 \in T
  <2>1. PICK k : IsKept(k, q, S, n)
    BY <1>2
  <2> DEFINE v == IF q[n + 1] \in S THEN k[n] ELSE Append(k[n], q[n + 1])
             d == [i \in 0..(n + 1) |-> IF i = n + 1 THEN v ELSE k[i]]
  <2>2. ASSUME NEW i \in 0..(n + 1)
        PROVE  d[i] = IF i = 0 THEN <<>> ELSE KeptNext(d, q, S, i)
    <3>1. CASE i = n + 1
      <4>1. d[i] = v
        BY <3>1
      <4>2. n \in 0..(n + 1) /\ n # n + 1 /\ i - 1 = n /\ i # 0
        BY <3>1
      <4>3. d[n] = k[n]
        BY <4>2
      <4> HIDE DEF d
      <4>4. KeptNext(d, q, S, i) = v
        BY <3>1, <4>2, <4>3 DEF KeptNext
      <4> QED
        BY <4>1, <4>2, <4>4
    <3>2. CASE i # n + 1
      <4>1. i \in 0..n /\ (i # 0 => i - 1 \in 0..n)
        BY <3>2
      <4>2. k[i] = IF i = 0 THEN <<>> ELSE KeptNext(k, q, S, i)
        BY <2>1, <4>1 DEF IsKept
      <4>3. d[i] = k[i] /\ (i # 0 => d[i - 1] = k[i - 1])
        BY <3>2, <4>1
      <4> HIDE DEF d, v
      <4> QED
        BY <4>2, <4>3 DEF KeptNext
    <3> QED
      BY <3>1, <3>2
  <2>3. d = [i \in 0..(n + 1) |-> d[i]]
    OBVIOUS
  <2> HIDE DEF d
  <2>4. d = [i \in 0..(n + 1) |-> IF i = 0 THEN <<>> ELSE KeptNext(d, q, S, i)]
    BY <2>2, <2>3
  <2>5. IsKept(d, q, S, n + 1)
    BY <2>4 DEF IsKept
  <2> QED
    BY <2>5
<1> HIDE DEF T
<1>3. \A n \in Nat : n \in T
  BY <1>1, <1>2, SetInduction
<1> QED
  BY <1>3 DEF T

LEMMA WithoutDef ==
    ASSUME NEW q, NEW S, Len(q) \in Nat
    PROVE  \E k : IsKept(k, q, S, Len(q)) /\ Without(q, S) = k[Len(q)]
<1>1. \E k : IsKept(k, q, S, Len(q))
  BY KeptExists
<1>2. PICK k : k = CHOOSE x : x = [i \in 0..Len(q) |->
                  IF i = 0 THEN <<>>
                  ELSE IF q[i] \in S THEN x[i - 1] ELSE Append(x[i - 1], q[i])]
  OBVIOUS
<1>3. IsKept(k, q, S, Len(q))
  BY <1>1, <1>2 DEF IsKept, KeptNext
<1>4. Without(q, S) = k[Len(q)]
  BY <1>2 DEF Without
<1> QED
  BY <1>3, <1>4

(* Without takes the members of S out of a list and no others.             *)
LEMMA ElementsWithout ==
    ASSUME NEW A, NEW q \in Seq(A), NEW S, Distinct(q)
    PROVE  /\ Without(q, S) \in Seq(A)
           /\ Elements(Without(q, S)) = Elements(q) \ S
           /\ Distinct(Without(q, S))
<1> DEFINE n == Len(q)
<1>1. n \in Nat /\ \A i \in 1..n : q[i] \in A
  BY LenProperties, ElementOfSeq
<1>2. PICK k : IsKept(k, q, S, n) /\ Without(q, S) = k[n]
  BY <1>1, WithoutDef
<1> DEFINE Good(i) == /\ k[i] \in Seq(A)
                      /\ Elements(k[i]) = {q[j] : j \in 1..i} \ S
                      /\ Distinct(k[i])
           T == {i \in Nat : i <= n => Good(i)}
<1> HIDE DEF n
<1>3. 0 \in T
  <2>1. 0 \in 0..n
    BY <1>1
  <2>2. k[0] = <<>>
    BY <1>2, <2>1 DEF IsKept
  <2>3. {q[j] : j \in 1..0} = {}
    OBVIOUS
  <2> QED
    BY <2>2, <2>3, ElementsEmpty, EmptySeq
<1>4. ASSUME NEW i \in Nat, i \in T PROVE i + 1 \in T
  <2> SUFFICES ASSUME i + 1 <= n PROVE Good(i + 1)
    OBVIOUS
  <2>0. Good(i) /\ i + 1 \in 0..n /\ i + 1 \in 1..n
    BY <1>1, <1>4
  <2> DEFINE x == q[i + 1]
             before == {q[j] : j \in 1..i}
             upto == {q[j] : j \in 1..(i + 1)}
             s == k[i]
  <2>1. k[i + 1] = IF x \in S THEN s ELSE Append(s, x)
    <3>1. k[i + 1] = IF i + 1 = 0 THEN <<>> ELSE KeptNext(k, q, S, i + 1)
      BY <1>2, <2>0 DEF IsKept
    <3>2. i + 1 # 0 /\ (i + 1) - 1 = i
      OBVIOUS
    <3> QED
      BY <3>1, <3>2 DEF KeptNext
  <2>2. upto = before \cup {x}
    <3>1. \A j : j \in 1..(i + 1) <=> j \in 1..i \/ j = i + 1
      OBVIOUS
    <3> QED
      BY <3>1
  <2>3. x \notin before
    <3> SUFFICES ASSUME NEW j \in 1..i, q[j] = x PROVE FALSE
      OBVIOUS
    <3>1. j \in 1..n /\ j # i + 1
      BY <1>1, <2>0
    <3> QED
      BY <2>0, <3>1 DEF Distinct, n
  <2>4. x \in A /\ s \in Seq(A) /\ Distinct(s) /\ Elements(s) = before \ S
    BY <1>1, <2>0
  <2> HIDE DEF x, before, upto, s
  <2>5. CASE x \in S
    <3>1. k[i + 1] = s /\ upto \ S = before \ S
      BY <2>1, <2>2, <2>5
    <3> QED
      BY <2>4, <3>1 DEF upto
  <2>6. CASE x \notin S
    <3>1. k[i + 1] = Append(s, x) /\ upto \ S = (before \ S) \cup {x}
      BY <2>1, <2>2, <2>6
    <3>2. /\ Append(s, x) \in Seq(A) /\ Distinct(Append(s, x))
          /\ Elements(Append(s, x)) = Elements(s) \cup {x}
      BY <2>3, <2>4, ElementsAppend
    <3> QED
      BY <2>4, <3>1, <3>2 DEF upto
  <2> QED
    BY <2>5, <2>6
<1> HIDE DEF T
<1>5. n \in T
  BY <1>1, <1>3, <1>4, SetInduction
<1>6. Good(n)
  BY <1>1, <1>5 DEF T
<1>7. Elements(q) = {q[j] : j \in 1..n}
  BY DEF Elements, n
<1> QED
  BY <1>2, <1>6, <1>7

(* The places of a list whose members are in T are as many as the members  *)
(* in T.                                                                   *)
LEMMA CountElements ==
    ASSUME NEW S, NEW q \in Seq(S), Distinct(q), NEW T
    PROVE  /\ IsFiniteSet(Elements(q) \cap T)
           /\ Cardinality({i \in 1..Len(q) : q[i] \in T})
                = Cardinality(Elements(q) \cap T)
<1> DEFINE I == {i \in 1..Len(q) : q[i] \in T}
           E == Elements(q) \cap T
           f == [i \in I |-> q[i]]
<1>1. IsFiniteSet(I)
  <2>1. Len(q) \in Nat
    BY LenProperties
  <2>2. IsFiniteSet(1..Len(q)) /\ I \in SUBSET (1..Len(q))
    BY <2>1, FS_Interval
  <2> HIDE DEF I
  <2> QED
    BY <2>2, FS_Subset
<1>2. f \in [I -> E]
  BY DEF Elements
<1>3. \A a, b \in I : f[a] = f[b] => a = b
  BY DEF Distinct
<1>4. \A e \in E : \E a \in I : f[a] = e
  BY DEF Elements
<1> HIDE DEF I, E, f
<1>5. f \in Bijection(I, E)
  BY <1>2, <1>3, <1>4 DEF Bijection, Injection, Surjection, IsInjective
<1>6. ExistsBijection(I, E)
  BY <1>5 DEF ExistsBijection
<1>7. IsFiniteSet(E) /\ Cardinality(E) = Cardinality(I)
  BY <1>1, <1>6, FS_Bijection
<1> QED
  BY <1>7 DEF I, E
=============================================================================
