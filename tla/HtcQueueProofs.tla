--------------------------- MODULE HtcQueueProofs ---------------------------
(***************************************************************************)
(* The ownership of packets in HtcSend and HtcDataSend, for queues of      *)
(* every length and any number of threads: what Flatten and Occurrences    *)
(* compute, and that every packet that was accepted is in one place.  For  *)
(* HtcDataSend also that a transfer that completes is found, and that an   *)
(* endpoint that is marked busy is being drained.                          *)
(***************************************************************************)
EXTENDS HtcDataSend, ListTheorems

(* HTC_PACKET_REMOVE takes one packet out of a queue and nothing else.     *)
LEMMA PacketRemoved ==
    ASSUME NEW S, NEW q \in Seq(S), NEW x, Distinct(q)
    PROVE  /\ HTC_PACKET_REMOVE(q, x) \in Seq(S)
           /\ Elements(HTC_PACKET_REMOVE(q, x)) = Elements(q) \ {x}
           /\ Distinct(HTC_PACKET_REMOVE(q, x))
BY ElementsRemove DEF HTC_PACKET_REMOVE

(* A packet occurs once in a queue of distinct packets that has it.        *)
LEMMA OccurrencesOnce ==
    ASSUME NEW S, NEW q \in Seq(S), Distinct(q), NEW p
    PROVE  Occurrences(p, q) = IF p \in Elements(q) THEN 1 ELSE 0
<1> DEFINE T == {i \in 1..Len(q) : q[i] = p}
<1>1. CASE p \in Elements(q)
  <2>1. PICK i \in 1..Len(q) : q[i] = p
    BY <1>1 DEF Elements
  <2>2. T = {i}
    BY <2>1 DEF Distinct
  <2> QED
    BY <1>1, <2>2, FS_Singleton DEF Occurrences
<1>2. CASE p \notin Elements(q)
  <2>1. T = {}
    BY <1>2 DEF Elements
  <2> QED
    BY <1>2, <2>1, FS_EmptySet DEF Occurrences
<1> QED
  BY <1>1, <1>2

-----------------------------------------------------------------------------
(* Flatten, the packets of a queue of transfers in order.                  *)

(* c is the recursive function of Flatten, up to index n.                  *)
IsCat(c, q, n) ==
    c = [i \in 0..n |-> IF i = 0 THEN <<>> ELSE c[i - 1] \o q[i]]

LEMMA CatZero ==
    ASSUME NEW c, NEW q, NEW n \in Nat, IsCat(c, q, n)
    PROVE  c[0] = <<>>
<1>1. 0 \in 0..n
  OBVIOUS
<1> QED
  BY <1>1 DEF IsCat

LEMMA CatNext ==
    ASSUME NEW c, NEW q, NEW n \in Nat, IsCat(c, q, n)
    PROVE  \A k \in Nat : k < n => c[k + 1] = c[k] \o q[k + 1]
<1> SUFFICES ASSUME NEW k \in Nat, k < n PROVE c[k + 1] = c[k] \o q[k + 1]
  OBVIOUS
<1> DEFINE m == k + 1
<1>1. m \in 0..n /\ m # 0 /\ m - 1 = k
  OBVIOUS
<1> HIDE DEF m
<1>2. c[m] = IF m = 0 THEN <<>> ELSE c[m - 1] \o q[m]
  BY <1>1, Zenon DEF IsCat
<1>3. c[m] = c[m - 1] \o q[m]
  BY <1>1, <1>2, Zenon
<1> QED
  BY <1>1, <1>3, Zenon DEF m

(* The recursion has a solution: extend the one for n by one value.        *)
LEMMA CatExists ==
    ASSUME NEW q
    PROVE  \A n \in Nat : \E c : IsCat(c, q, n)
<1> DEFINE T == {n \in Nat : \E c : IsCat(c, q, n)}
<1>1. 0 \in T
  <2>1. IsCat([i \in 0..0 |-> <<>>], q, 0)
    BY DEF IsCat
  <2> QED
    BY <2>1
<1>2. ASSUME NEW n \in Nat, n \in T PROVE n + 1 \in T
  <2>1. PICK c : IsCat(c, q, n)
    BY <1>2
  <2> DEFINE d == [i \in 0..(n + 1) |->
                      IF i = n + 1 THEN c[n] \o q[n + 1] ELSE c[i]]
  <2>2. ASSUME NEW i \in 0..(n + 1)
        PROVE  d[i] = IF i = 0 THEN <<>> ELSE d[i - 1] \o q[i]
    <3>1. CASE i = n + 1
      <4>1. d[i] = c[n] \o q[n + 1]
        BY <3>1
      <4>2. n \in 0..(n + 1) /\ n # n + 1 /\ i - 1 = n /\ i # 0
        BY <3>1
      <4>3. d[n] = c[n]
        BY <4>2
      <4> HIDE DEF d
      <4> QED
        BY <3>1, <4>1, <4>2, <4>3
    <3>2. CASE i # n + 1
      <4>1. i \in 0..n /\ (i # 0 => i - 1 \in 0..n)
        BY <3>2
      <4>2. c[i] = IF i = 0 THEN <<>> ELSE c[i - 1] \o q[i]
        BY <2>1, <4>1 DEF IsCat
      <4>3. d[i] = c[i] /\ (i # 0 => d[i - 1] = c[i - 1])
        BY <3>2, <4>1
      <4> QED
        BY <4>2, <4>3
    <3> QED
      BY <3>1, <3>2
  <2>3. d = [i \in 0..(n + 1) |-> d[i]]
    OBVIOUS
  <2> HIDE DEF d
  <2>4. d = [i \in 0..(n + 1) |-> IF i = 0 THEN <<>> ELSE d[i - 1] \o q[i]]
    BY <2>2, <2>3
  <2>5. IsCat(d, q, n + 1)
    BY <2>4 DEF IsCat
  <2> QED
    BY <2>5
<1> HIDE DEF T
<1>3. \A n \in Nat : n \in T
  BY <1>1, <1>2, SetInduction
<1> QED
  BY <1>3 DEF T

LEMMA FlattenDef ==
    ASSUME NEW q, Len(q) \in Nat
    PROVE  \E c : IsCat(c, q, Len(q)) /\ Flatten(q) = c[Len(q)]
<1>1. \E c : IsCat(c, q, Len(q))
  BY CatExists
<1>2. PICK c : c = CHOOSE x : x = [i \in 0..Len(q) |->
                      IF i = 0 THEN <<>> ELSE x[i - 1] \o q[i]]
  OBVIOUS
<1>3. IsCat(c, q, Len(q))
  BY <1>1, <1>2 DEF IsCat
<1>4. Flatten(q) = c[Len(q)]
  BY <1>2 DEF Flatten
<1> QED
  BY <1>3, <1>4

(* The value at k depends on the first k transfers only.                   *)
LEMMA CatUnique ==
    ASSUME NEW q, NEW r, NEW m \in Nat, NEW n \in Nat, NEW c, NEW d,
           IsCat(c, q, m), IsCat(d, r, n), NEW k \in Nat, k <= m, k <= n,
           \A i \in 1..k : q[i] = r[i]
    PROVE  c[k] = d[k]
<1>c. \A i \in Nat : i < m => c[i + 1] = c[i] \o q[i + 1]
  BY CatNext, ZenonT(40)
<1>d. \A i \in Nat : i < n => d[i + 1] = d[i] \o r[i + 1]
  BY CatNext, ZenonT(40)
<1> DEFINE T == {i \in Nat : i <= k => c[i] = d[i]}
<1>1. 0 \in T
  BY CatZero
<1>2. ASSUME NEW i \in Nat, i \in T PROVE i + 1 \in T
  <2> SUFFICES ASSUME i + 1 <= k PROVE c[i + 1] = d[i + 1]
    OBVIOUS
  <2>1. c[i] = d[i]
    BY <1>2
  <2>2. i < m /\ i < n /\ i + 1 \in 1..k /\ i \in Nat
    OBVIOUS
  <2>3. c[i + 1] = c[i] \o q[i + 1]
    BY <1>c, <2>2
  <2>4. d[i + 1] = d[i] \o r[i + 1]
    BY <1>d, <2>2
  <2> QED
    BY <2>1, <2>2, <2>3, <2>4, Zenon
<1> HIDE DEF T
<1>3. k \in T
  BY <1>1, <1>2, SetInduction
<1> QED
  BY <1>3 DEF T

LEMMA CatType ==
    ASSUME NEW S, NEW q \in Seq(Seq(S)), NEW c, IsCat(c, q, Len(q))
    PROVE  \A k \in 0..Len(q) : c[k] \in Seq(S)
<1>0. Len(q) \in Nat
  BY LenProperties
<1>c. \A i \in Nat : i < Len(q) => c[i + 1] = c[i] \o q[i + 1]
  BY <1>0, CatNext, ZenonT(40)
<1> DEFINE T == {i \in Nat : i <= Len(q) => c[i] \in Seq(S)}
<1>1. 0 \in T
  BY <1>0, CatZero, EmptySeq
<1>2. ASSUME NEW i \in Nat, i \in T PROVE i + 1 \in T
  <2> SUFFICES ASSUME i + 1 <= Len(q) PROVE c[i + 1] \in Seq(S)
    OBVIOUS
  <2>1. c[i] \in Seq(S)
    BY <1>0, <1>2
  <2>2. i + 1 \in 1..Len(q) /\ i < Len(q) /\ i \in Nat /\ IsCat(c, q, Len(q))
    BY <1>0
  <2>3. c[i + 1] = c[i] \o q[i + 1]
    BY <1>c, <2>2
  <2>4. q[i + 1] \in Seq(S)
    BY <2>2, ElementOfSeq
  <2> QED
    BY <2>1, <2>3, <2>4, ConcatProperties
<1> HIDE DEF T
<1>3. \A i \in Nat : i \in T
  BY <1>1, <1>2, SetInduction
<1> QED
  BY <1>0, <1>3 DEF T

LEMMA FlattenType ==
    ASSUME NEW S, NEW q \in Seq(Seq(S))
    PROVE  Flatten(q) \in Seq(S)
<1>1. Len(q) \in Nat
  BY LenProperties
<1>2. PICK c : IsCat(c, q, Len(q)) /\ Flatten(q) = c[Len(q)]
  BY <1>1, FlattenDef
<1> QED
  BY <1>1, <1>2, CatType

LEMMA FlattenEmpty == Flatten(<<>>) = <<>>
<1>1. Len(<<>>) = 0
  OBVIOUS
<1>2. PICK c : IsCat(c, <<>>, 0) /\ Flatten(<<>>) = c[0]
  BY <1>1, FlattenDef
<1> QED
  BY <1>2, CatZero

(* A transfer at the end of the queue comes last.                          *)
LEMMA FlattenAppend ==
    ASSUME NEW S, NEW q \in Seq(Seq(S)), NEW x \in Seq(S)
    PROVE  Flatten(Append(q, x)) = Flatten(q) \o x
<1> DEFINE a == Append(q, x)
           n == Len(q)
<1>1. /\ n \in Nat /\ Len(a) = n + 1 /\ a[n + 1] = x
      /\ \A i \in 1..n : q[i] = a[i]
  BY LenProperties, AppendProperties
<1>2. PICK c : IsCat(c, q, n) /\ Flatten(q) = c[n]
  BY <1>1, FlattenDef
<1> HIDE DEF a, n
<1>3. PICK d : IsCat(d, a, n + 1) /\ Flatten(a) = d[n + 1]
  BY <1>1, FlattenDef
<1>4. c[n] = d[n]
  BY <1>1, <1>2, <1>3, CatUnique
<1>5. n < n + 1 /\ n + 1 \in Nat
  BY <1>1
<1>6. d[n + 1] = d[n] \o a[n + 1]
  BY <1>1, <1>3, <1>5, CatNext, Zenon
<1> QED
  BY <1>1, <1>2, <1>3, <1>4, <1>6, Zenon DEF a

(* The transfer at the head of the queue comes first.                      *)
LEMMA FlattenTail ==
    ASSUME NEW S, NEW q \in Seq(Seq(S)), q # <<>>
    PROVE  Flatten(q) = Head(q) \o Flatten(Tail(q))
<1> DEFINE n == Len(q) - 1
           u == Tail(q)
           h == Head(q)
<1>1. /\ n \in Nat /\ u \in Seq(Seq(S)) /\ Len(u) = n /\ Len(q) = n + 1
      /\ h = q[1] /\ h \in Seq(S)
      /\ \A i \in 1..n : u[i] = q[i + 1]
  BY HeadTailProperties, EmptySeq
<1> HIDE DEF n, u, h
<1>0. n \in Nat /\ h \in Seq(S)
  BY <1>1
<1>2. PICK c : IsCat(c, q, n + 1) /\ Flatten(q) = c[n + 1]
  <2>1. n + 1 \in Nat
    BY <1>1
  <2> QED
    BY <1>1, <2>1, FlattenDef, Zenon
<1>3. PICK d : IsCat(d, u, n) /\ Flatten(u) = d[n]
  BY <1>1, FlattenDef, Zenon
<1>4. \A k \in 0..n : d[k] \in Seq(S)
  BY <1>1, <1>3, CatType
<1> DEFINE T == {k \in Nat : k <= n => c[k + 1] = h \o d[k]}
<1>5. 0 \in T
  <2>1. n + 1 \in Nat /\ 0 \in Nat /\ 0 < n + 1 /\ 0 + 1 = 1
    BY <1>1
  <2>2. c[0] = <<>> /\ d[0] = <<>>
    BY <1>1, <1>2, <1>3, <2>1, CatZero, Zenon
  <2>3. c[0 + 1] = c[0] \o q[0 + 1]
    BY <1>2, <2>1, CatNext, Zenon
  <2>4. <<>> \o h = h /\ h \o <<>> = h
    BY <1>1, ConcatEmptySeq
  <2>5. c[0 + 1] = h \o d[0]
    BY <1>1, <2>1, <2>2, <2>3, <2>4, Zenon
  <2> QED
    BY <2>5, Zenon
<1>6. ASSUME NEW k \in Nat, k \in T PROVE k + 1 \in T
  <2>0. k + 1 \in Nat
    OBVIOUS
  <2> SUFFICES ASSUME k + 1 <= n PROVE c[(k + 1) + 1] = h \o d[k + 1]
    BY <2>0, Zenon
  <2>1. c[k + 1] = h \o d[k]
    <3>1. k <= n
      BY <1>1
    <3> QED
      BY <1>6, <3>1, Zenon
  <2>2. /\ k + 1 \in 1..n /\ k \in 0..n /\ k < n /\ k + 1 < n + 1
        /\ n + 1 \in Nat
    BY <1>1
  <2>3. c[(k + 1) + 1] = c[k + 1] \o q[(k + 1) + 1]
    BY <1>2, <2>0, <2>2, CatNext, Zenon
  <2>4. d[k + 1] = d[k] \o u[k + 1]
    BY <1>0, <1>3, <2>2, CatNext, Zenon
  <2>5. u[k + 1] = q[(k + 1) + 1]
    BY <1>1, <2>2, Zenon
  <2>6. u[k + 1] \in Seq(S) /\ d[k] \in Seq(S)
    BY <1>1, <1>4, <2>2, ElementOfSeq
  <2>7. (h \o d[k]) \o u[k + 1] = h \o (d[k] \o u[k + 1])
    <3> DEFINE a == d[k]
               b == u[k + 1]
    <3>1. h \in Seq(S) /\ a \in Seq(S) /\ b \in Seq(S)
      BY <1>0, <2>6
    <3> HIDE DEF a, b
    <3>2. (h \o a) \o b = h \o (a \o b)
      BY <3>1, ConcatAssociative, SMTT(30)
    <3> QED
      BY <3>2 DEF a, b
  <2> QED
    BY <2>1, <2>3, <2>4, <2>5, <2>7, Zenon
<1> HIDE DEF T
<1>7. n \in T
  BY <1>1, <1>5, <1>6, SetInduction, Zenon
<1>8. n <= n
  BY <1>1
<1>9. c[n + 1] = h \o d[n]
  BY <1>7, <1>8, Zenon DEF T
<1> QED
  BY <1>2, <1>3, <1>9, Zenon DEF u, h

(* The packets of a queue of transfers are the packets of its transfers,   *)
(* each once if no packet is in two transfers.                             *)
LEMMA FlattenElements ==
    ASSUME NEW S, NEW q \in Seq(Seq(S)),
           \A x \in Elements(q) : Distinct(x), Distinct(q),
           \A x, y \in Elements(q) :
               x # y => Elements(x) \cap Elements(y) = {}
    PROVE  /\ Distinct(Flatten(q))
           /\ Elements(Flatten(q)) = UNION {Elements(x) : x \in Elements(q)}
<1> DEFINE n == Len(q)
<1>1. n \in Nat /\ \A i \in 1..n : q[i] \in Seq(S) /\ q[i] \in Elements(q)
  BY LenProperties, ElementOfSeq, ElementsType
<1>2. PICK c : IsCat(c, q, n) /\ Flatten(q) = c[n]
  BY <1>1, FlattenDef
<1>3. \A k \in 0..n : c[k] \in Seq(S)
  BY <1>2, CatType
<1>4. \A i, j \in 1..n : i # j => Elements(q[i]) \cap Elements(q[j]) = {}
  BY <1>1 DEF Distinct
<1>5. \A x : x \in Elements(q) <=> \E i \in 1..n : x = q[i]
  BY DEF Elements
<1> HIDE DEF n
<1> DEFINE T == {k \in Nat : k <= n =>
                   /\ Distinct(c[k])
                   /\ \A p : p \in Elements(c[k])
                          <=> \E i \in 1..k : p \in Elements(q[i])}
<1>6. 0 \in T
  <2>1. c[0] = <<>>
    BY <1>1, <1>2, CatZero
  <2> QED
    BY <2>1, ElementsEmpty
<1>7. ASSUME NEW k \in Nat, k \in T PROVE k + 1 \in T
  <2> SUFFICES ASSUME k + 1 <= n
               PROVE  /\ Distinct(c[k + 1])
                      /\ \A p : p \in Elements(c[k + 1])
                            <=> \E i \in 1..(k + 1) : p \in Elements(q[i])
    OBVIOUS
  <2>1. /\ Distinct(c[k])
        /\ \A p : p \in Elements(c[k])
                <=> \E i \in 1..k : p \in Elements(q[i])
    BY <1>1, <1>7
  <2>2. /\ k + 1 \in 1..n /\ k < n /\ k \in 0..n
        /\ \A i \in 1..k : i \in 1..n /\ i # k + 1
        /\ \A i \in 1..(k + 1) : i \in 1..k \/ i = k + 1
        /\ \A i \in 1..k : i \in 1..(k + 1)
        /\ k + 1 \in 1..(k + 1)
    BY <1>1
  <2> DEFINE y == q[k + 1]
             b == c[k]
  <2>3. c[k + 1] = b \o y
    <3>1. n \in Nat /\ k < n
      BY <1>1, <2>2
    <3> QED
      BY <1>2, <3>1, CatNext, Zenon
  <2>4. b \in Seq(S) /\ y \in Seq(S) /\ Distinct(y)
    BY <1>1, <1>3, <2>2
  <2>5. Elements(b) \cap Elements(y) = {}
    BY <1>4, <2>1, <2>2
  <2> HIDE DEF y, b
  <2>6. Distinct(b \o y) /\ Elements(b \o y) = Elements(b) \cup Elements(y)
    BY <2>1, <2>4, <2>5, ElementsConcat DEF b
  <2>7. \A p : p \in Elements(c[k + 1])
            <=> (\E i \in 1..k : p \in Elements(q[i])) \/ p \in Elements(y)
    BY <2>1, <2>3, <2>6 DEF b
  <2>8. \A p : (\E i \in 1..(k + 1) : p \in Elements(q[i]))
            <=> (\E i \in 1..k : p \in Elements(q[i])) \/ p \in Elements(y)
    BY <2>2 DEF y
  <2> QED
    BY <2>3, <2>6, <2>7, <2>8
<1> HIDE DEF T
<1>8. n \in T
  BY <1>1, <1>6, <1>7, SetInduction
<1>9. /\ Distinct(c[n])
      /\ \A p : p \in Elements(c[n]) <=> \E i \in 1..n : p \in Elements(q[i])
  BY <1>1, <1>8 DEF T
<1> QED
  BY <1>2, <1>5, <1>9

-----------------------------------------------------------------------------
(* The ownership of packets, for HtcSend and for HtcDataSend: every packet *)
(* that is pending is in one place, which is TxQueue, one thread's queue   *)
(* of callers or of its own, or one transfer of TxLookupQueue, or of the   *)
(* list that HTCLookupTxPacket searches, or that it has found there.       *)

(* Q, C, S, X and P are the packets of TxQueue, of each thread's           *)
(* pCallersSendQueue and sendQueue, the transfers, the pending packets.    *)
Places(Q, C, S, X, P) ==
    /\ \A t \in Threads : Q \cap C[t] = {} /\ Q \cap S[t] = {}
    /\ \A t, u \in Threads : C[t] \cap S[u] = {}
    /\ \A t, u \in Threads :
          t # u => C[t] \cap C[u] = {} /\ S[t] \cap S[u] = {}
    /\ \A x \in X : /\ Elements(x) \cap Q = {}
                    /\ \A t \in Threads : /\ Elements(x) \cap C[t] = {}
                                          /\ Elements(x) \cap S[t] = {}
    /\ \A x, y \in X : x # y => Elements(x) \cap Elements(y) = {}
    /\ \A p : p \in P <=> \/ p \in Q
                          \/ \E t \in Threads : p \in C[t] \/ p \in S[t]
                          \/ \E x \in X : p \in Elements(x)

Callers == [t \in Threads |-> Elements(pCallersSendQueue[t])]
Locals == [t \in Threads |-> Elements(sendQueue[t])]
Found == IF pFoundPacket = <<>> THEN {} ELSE {pFoundPacket}
Transfers == Elements(TxLookupQueue) \cup Elements(lookupQueue) \cup Found
Pending == {p \in Packets : Status[p] = "pending"}

Placed == Places(Elements(TxQueue), Callers, Locals, Transfers, Pending)

AllPcs == PcValues \cup LookupPcs
              \cup {"dataLock", "count", "undo", "clear"}
HasCallers == {"depth", "reject", "dataLock"}
HasLocals == PcValues \ (HasCallers \cup {"idle", "relock"})
SendPcs == {"hifSend", "hifSendBundle"}

QueueTypes ==
    /\ TxQueue \in Seq(Packets) /\ TxLookupQueue \in Seq(Seq(Packets))
    /\ lookupQueue \in Seq(Seq(Packets)) /\ pFoundPacket \in Seq(Packets)
    /\ pc \in [Threads -> AllPcs]
    /\ pCallersSendQueue \in [Threads -> Seq(Packets)]
    /\ sendQueue \in [Threads -> Seq(Packets)]
    /\ netbuf \in [Threads -> Seq(Packets)]
    /\ hif \in Seq(Seq(Packets)) /\ hifCompletions \in Seq(Seq(Packets))
    /\ Status \in [Packets -> {"unsent", "pending", "A_OK", "A_ECANCELED",
                               "A_NO_RESOURCE"}]

(* Within a place no packet, and on the bus no transfer, is there twice.   *)
DistinctInv ==
    /\ Distinct(TxQueue) /\ Distinct(TxLookupQueue)
    /\ Distinct(hif) /\ Distinct(hifCompletions) /\ Distinct(lookupQueue)
    /\ Elements(TxLookupQueue) \cap Elements(lookupQueue) = {}
    /\ pFoundPacket \notin Elements(TxLookupQueue)
    /\ pFoundPacket \notin Elements(lookupQueue)
    /\ \A t \in Threads : /\ Distinct(pCallersSendQueue[t])
                          /\ Distinct(sendQueue[t])
    /\ \A x \in Transfers : Distinct(x) /\ x # <<>>

(* A transfer is with the thread that issues it, on the bus, or waiting    *)
(* for HTCTxCompletionHandler, and can be looked up all that time.         *)
BusInv ==
    /\ Elements(hif) \subseteq Transfers
    /\ Elements(hifCompletions) \subseteq Transfers
    /\ Elements(hif) \cap Elements(hifCompletions) = {}
    /\ Found \subseteq Elements(hifCompletions)
    /\ \A t \in Threads : pc[t] \in SendPcs =>
          /\ netbuf[t] \in Transfers
          /\ netbuf[t] \notin Elements(hif)
          /\ netbuf[t] \notin Elements(hifCompletions)
    /\ \A t, u \in Threads : pc[t] \in SendPcs /\ pc[u] \in SendPcs /\ t # u
          => netbuf[t] # netbuf[u]

(* The threads' queues are empty where they are overwritten.               *)
EmptyInv ==
    \A t \in Threads :
        /\ pc[t] \notin HasCallers => pCallersSendQueue[t] = <<>>
        /\ pc[t] \notin HasLocals => sendQueue[t] = <<>>

OwnInv == QueueTypes /\ DistinctInv /\ BusInv /\ EmptyInv /\ Placed

(* How packets move between the places.  A sender submits a packet, ...    *)
LEMMA PlaceSubmit ==
    ASSUME NEW Q, NEW C, NEW S, NEW X, NEW P, Places(Q, C, S, X, P),
           NEW t \in Threads, NEW D, NEW p, p \notin P, C[t] = {},
           \A u \in Threads : D[u] = IF u = t THEN {p} ELSE C[u]
    PROVE  Places(Q, D, S, X, P \cup {p})
BY DEF Places

(* ... HTCTrySend takes the packets of its caller, ...                     *)
LEMMA PlaceAccept ==
    ASSUME NEW Q, NEW C, NEW S, NEW X, NEW P, Places(Q, C, S, X, P),
           NEW t \in Threads, NEW D, NEW E, S[t] = {},
           \A u \in Threads : D[u] = IF u = t THEN {} ELSE C[u],
           \A u \in Threads : E[u] = IF u = t THEN C[t] ELSE S[u]
    PROVE  Places(Q, D, E, X, P)
BY DEF Places

(* ... or gives them back, ...                                             *)
LEMMA PlaceReject ==
    ASSUME NEW Q, NEW C, NEW S, NEW X, NEW P, Places(Q, C, S, X, P),
           NEW t \in Threads, NEW D,
           \A u \in Threads : D[u] = IF u = t THEN {} ELSE C[u]
    PROVE  Places(Q, D, S, X, P \ C[t])
BY DEF Places

(* ... moves its own packets to TxQueue, ...                               *)
LEMMA PlaceEnqueue ==
    ASSUME NEW Q, NEW C, NEW S, NEW X, NEW P, Places(Q, C, S, X, P),
           NEW t \in Threads, NEW E,
           \A u \in Threads : E[u] = IF u = t THEN {} ELSE S[u]
    PROVE  Places(Q \cup S[t], C, E, X, P)
BY DEF Places

(* ... or, in HTCSendDataPkt, the packets of its caller, ...               *)
LEMMA PlaceEnqueueCallers ==
    ASSUME NEW Q, NEW C, NEW S, NEW X, NEW P, Places(Q, C, S, X, P),
           NEW t \in Threads, NEW D,
           \A u \in Threads : D[u] = IF u = t THEN {} ELSE C[u]
    PROVE  Places(Q \cup C[t], D, S, X, P)
BY DEF Places

(* ... takes a packet of TxQueue, ...                                      *)
LEMMA PlaceGet ==
    ASSUME NEW Q, NEW C, NEW S, NEW X, NEW P, Places(Q, C, S, X, P),
           NEW t \in Threads, NEW E, NEW p \in Q,
           \A u \in Threads : E[u] = IF u = t THEN S[t] \cup {p} ELSE S[u]
    PROVE  Places(Q \ {p}, C, E, X, P)
BY DEF Places

(* ... makes a transfer of some of its packets, ...                        *)
LEMMA PlaceIssue ==
    ASSUME NEW Q, NEW C, NEW S, NEW X, NEW P, Places(Q, C, S, X, P),
           NEW t \in Threads, NEW E, NEW x,
           Elements(x) \subseteq S[t],
           \A u \in Threads : E[u] = IF u = t THEN S[t] \ Elements(x)
                                     ELSE S[u]
    PROVE  Places(Q, C, E, X \cup {x}, P)
BY DEF Places

(* ... takes the packets of a transfer back, ...                           *)
LEMMA PlaceTakeBack ==
    ASSUME NEW Q, NEW C, NEW S, NEW X, NEW P, Places(Q, C, S, X, P),
           NEW t \in Threads, NEW E, NEW x \in X,
           \A u \in Threads : E[u] = IF u = t THEN S[t] \cup Elements(x)
                                     ELSE S[u]
    PROVE  Places(Q, C, E, X \ {x}, P)
BY DEF Places

(* ... a transfer is completed, ...                                        *)
LEMMA PlaceComplete ==
    ASSUME NEW Q, NEW C, NEW S, NEW X, NEW P, Places(Q, C, S, X, P),
           NEW x \in X
    PROVE  Places(Q, C, S, X \ {x}, P \ Elements(x))
BY DEF Places

(* ... and TxQueue is flushed.                                             *)
LEMMA PlaceFlush ==
    ASSUME NEW Q, NEW C, NEW S, NEW X, NEW P, Places(Q, C, S, X, P)
    PROVE  Places({}, C, S, X, P \ Q)
BY DEF Places

(* A packet is pending just when it is in some place.                      *)
LEMMA PlacePending ==
    ASSUME NEW Q, NEW C, NEW S, NEW X, NEW P, Places(Q, C, S, X, P), NEW p
    PROVE  p \in P <=> \/ p \in Q
                       \/ \E t \in Threads : p \in C[t] \/ p \in S[t]
                       \/ \E x \in X : p \in Elements(x)
BY DEF Places

(* The places and the members of each place, step by step.                 *)
queueVars == <<TxQueue, TxLookupQueue, pCallersSendQueue, sendQueue, netbuf,
               Status, hif, hifCompletions, lookupQueue, pFoundPacket>>

LEMMA OwnInit ==
    ASSUME Init
    PROVE  OwnInv
<1>1. QueueTypes
  BY EmptySeq DEF Init, QueueTypes, AllPcs, PcValues
<1>2. Transfers = {} /\ Elements(TxQueue) = {} /\ Pending = {}
  BY ElementsEmpty DEF Init, Transfers, Found, Pending
<1>3. \A t \in Threads : Callers[t] = {} /\ Locals[t] = {}
  BY ElementsEmpty DEF Init, Callers, Locals
<1>4. DistinctInv
  BY <1>2, ElementsEmpty DEF Init, DistinctInv
<1>5. BusInv
  BY <1>2, ElementsEmpty DEF Init, BusInv, Found, SendPcs
<1>6. EmptyInv
  BY DEF Init, EmptyInv
<1>7. Placed
  BY <1>2, <1>3 DEF Placed, Places
<1> QED
  BY <1>1, <1>4, <1>5, <1>6, <1>7 DEF OwnInv

(* Nothing but a pc, that of no thread that is sending.                    *)
LEMMA OwnPc ==
    ASSUME OwnInv, UNCHANGED queueVars, NEW t \in Threads,
           NEW v \in AllPcs \ SendPcs, pc' = [pc EXCEPT ![t] = v],
           v \notin HasCallers => pCallersSendQueue[t] = <<>>,
           v \notin HasLocals => sendQueue[t] = <<>>
    PROVE  OwnInv'
<1> USE DEF queueVars
<1>1. QueueTypes'
  BY DEF OwnInv, QueueTypes
<1>2. Placed' /\ DistinctInv'
  BY DEF OwnInv, Placed, Callers, Locals, Transfers, Found, Pending, DistinctInv
<1>3. \A u \in Threads : pc'[u] = IF u = t THEN v ELSE pc[u]
  BY DEF OwnInv, QueueTypes
<1>4. EmptyInv'
  BY <1>3 DEF OwnInv, EmptyInv
<1>5. BusInv'
  BY <1>3 DEF OwnInv, BusInv, Transfers, Found
<1> QED
  BY <1>1, <1>2, <1>4, <1>5 DEF OwnInv

LEMMA OwnSame ==
    ASSUME OwnInv, UNCHANGED queueVars, UNCHANGED pc
    PROVE  OwnInv'
BY DEF OwnInv, QueueTypes, Placed, Callers, Locals, Transfers, Found, Pending,
       DistinctInv, EmptyInv, BusInv, queueVars

(* A sender hands in a packet (HTCSendPkt, HTCSendDataPkt).                *)
LEMMA OwnSubmit ==
    ASSUME OwnInv, NEW t \in Threads, NEW p \in Packets, NEW v \in HasCallers,
           pc[t] = "idle", Status[p] = "unsent",
           Status' = [Status EXCEPT ![p] = "pending"],
           pCallersSendQueue' = [pCallersSendQueue EXCEPT ![t] = <<p>>],
           pc' = [pc EXCEPT ![t] = v],
           UNCHANGED <<TxQueue, TxLookupQueue, sendQueue, netbuf, hif,
                       hifCompletions, lookupQueue, pFoundPacket>>
    PROVE  OwnInv'
<1>0. QueueTypes /\ DistinctInv /\ BusInv /\ EmptyInv /\ Placed
  BY DEF OwnInv
<1>1. <<p>> \in Seq(Packets)
  OBVIOUS
<1>2. v \in AllPcs /\ v \notin SendPcs /\ v \notin HasLocals
  BY DEF HasCallers, HasLocals, AllPcs, SendPcs, PcValues
<1>3. QueueTypes'
  BY <1>0, <1>1, <1>2 DEF QueueTypes
<1>4. \A u \in Threads :
         /\ pCallersSendQueue'[u] = IF u = t THEN <<p>>
                                    ELSE pCallersSendQueue[u]
         /\ pc'[u] = IF u = t THEN v ELSE pc[u]
  BY <1>0 DEF QueueTypes
<1>5. pCallersSendQueue[t] = <<>> /\ sendQueue[t] = <<>>
  BY <1>0 DEF EmptyInv, HasCallers, HasLocals
<1>6. DistinctInv'
  BY <1>0, <1>4, ElementsOne DEF DistinctInv, Transfers, Found
<1>7. BusInv'
  BY <1>0, <1>2, <1>4 DEF BusInv, Transfers, Found
<1>8. EmptyInv'
  BY <1>0, <1>2, <1>4, <1>5 DEF EmptyInv
<1>9. Placed'
  <2>1. \A u \in Threads : Callers'[u] = IF u = t THEN {p} ELSE Callers[u]
    BY <1>4, ElementsOne DEF Callers
  <2>2. Callers[t] = {}
    BY <1>5, ElementsEmpty DEF Callers
  <2>3. Pending' = Pending \cup {p} /\ p \notin Pending
    BY <1>0 DEF Pending, QueueTypes
  <2>4. UNCHANGED <<Locals, Transfers, Elements(TxQueue)>>
    BY DEF Locals, Transfers, Found
  <2>5. Places(Elements(TxQueue), Callers', Locals, Transfers,
               Pending \cup {p})
    <3> DEFINE Q == Elements(TxQueue)
               C == Callers
               D == Callers'
               S == Locals
               X == Transfers
               P == Pending
    <3>1. /\ Places(Q, C, S, X, P) /\ p \notin P /\ C[t] = {}
          /\ \A u \in Threads : D[u] = IF u = t THEN {p} ELSE C[u]
      BY <1>0, <2>1, <2>2, <2>3 DEF Placed
    <3> HIDE DEF Q, C, D, S, X, P
    <3>2. Places(Q, D, S, X, P \cup {p})
      BY <3>1, PlaceSubmit
    <3> QED
      BY <3>2 DEF Q, D, S, X, P
  <2> QED
    BY <2>3, <2>4, <2>5 DEF Placed
<1> QED
  BY <1>3, <1>6, <1>7, <1>8, <1>9 DEF OwnInv

(* HTCTrySend takes its caller's packets.                                  *)
LEMMA OwnAccept ==
    ASSUME OwnInv, NEW t \in Threads, NEW v \in HasLocals \ SendPcs,
           pc[t] \notin HasLocals,
           sendQueue' = [sendQueue EXCEPT ![t] = pCallersSendQueue[t]],
           pCallersSendQueue' = [pCallersSendQueue EXCEPT ![t] = <<>>],
           pc' = [pc EXCEPT ![t] = v],
           UNCHANGED <<TxQueue, TxLookupQueue, netbuf, Status, hif,
                       hifCompletions, lookupQueue, pFoundPacket>>
    PROVE  OwnInv'
<1>0. QueueTypes /\ DistinctInv /\ BusInv /\ EmptyInv /\ Placed
  BY DEF OwnInv
<1>1. v \in AllPcs /\ v \notin SendPcs /\ v \notin HasCallers
  BY DEF HasCallers, HasLocals, AllPcs, SendPcs
<1>2. QueueTypes'
  BY <1>0, <1>1, EmptySeq DEF QueueTypes
<1>3. \A u \in Threads :
         /\ pCallersSendQueue'[u] = IF u = t THEN <<>>
                                    ELSE pCallersSendQueue[u]
         /\ sendQueue'[u] = IF u = t THEN pCallersSendQueue[t]
                            ELSE sendQueue[u]
         /\ pc'[u] = IF u = t THEN v ELSE pc[u]
  BY <1>0 DEF QueueTypes
<1>4. DistinctInv'
  BY <1>0, <1>3, ElementsEmpty DEF DistinctInv, Transfers, Found
<1>5. BusInv'
  BY <1>0, <1>1, <1>3 DEF BusInv, Transfers, Found
<1>6. EmptyInv'
  BY <1>0, <1>1, <1>3 DEF EmptyInv
<1>7. Placed'
  <2>1. ASSUME NEW u \in Threads
        PROVE  Callers'[u] = IF u = t THEN {} ELSE Callers[u]
    <3>1. /\ Callers[u] = Elements(pCallersSendQueue[u])
          /\ Callers'[u] = Elements(pCallersSendQueue'[u])
      BY DEF Callers
    <3>2. CASE u = t
      BY <1>3, <3>1, <3>2, ElementsEmpty
    <3>3. CASE u # t
      BY <1>3, <3>1, <3>3
    <3> QED
      BY <3>2, <3>3
  <2>2. \A u \in Threads :
            Locals'[u] = IF u = t THEN Callers[t] ELSE Locals[u]
    BY <1>3 DEF Callers, Locals
  <2>3. Locals[t] = {}
    BY <1>0, ElementsEmpty DEF EmptyInv, Locals
  <2>4. UNCHANGED <<Transfers, Elements(TxQueue), Pending>>
    BY DEF Transfers, Found, Pending
  <2>5. Places(Elements(TxQueue), Callers', Locals', Transfers, Pending)
    BY <1>0, <2>1, <2>2, <2>3, PlaceAccept DEF Placed
  <2> QED
    BY <2>4, <2>5 DEF Placed
<1> QED
  BY <1>2, <1>4, <1>5, <1>6, <1>7 DEF OwnInv

(* HTCSendPktsMultiple gives the caller's packets back.                    *)
LEMMA OwnReject ==
    ASSUME OwnInv, NEW t \in Threads, pc[t] \in HasCallers,
           NEW result \in {"A_ECANCELED", "A_NO_RESOURCE"},
           Status' = Complete(Elements(pCallersSendQueue[t]), result),
           pCallersSendQueue' = [pCallersSendQueue EXCEPT ![t] = <<>>],
           pc' = [pc EXCEPT ![t] = "idle"],
           UNCHANGED <<TxQueue, TxLookupQueue, sendQueue, netbuf, hif,
                       hifCompletions, lookupQueue, pFoundPacket>>
    PROVE  OwnInv'
<1>0. QueueTypes /\ DistinctInv /\ BusInv /\ EmptyInv /\ Placed
  BY DEF OwnInv
<1>1. QueueTypes'
  <2>1. Status' \in [Packets -> {"unsent", "pending", "A_OK", "A_ECANCELED",
                                "A_NO_RESOURCE"}]
    BY <1>0 DEF QueueTypes, Complete
  <2>2. pCallersSendQueue' \in [Threads -> Seq(Packets)]
    BY <1>0, EmptySeq DEF QueueTypes
  <2>3. pc' \in [Threads -> AllPcs]
    BY <1>0 DEF QueueTypes, AllPcs, PcValues
  <2> QED
    BY <1>0, <2>1, <2>2, <2>3 DEF QueueTypes
<1>2. \A u \in Threads :
         /\ pCallersSendQueue'[u] = IF u = t THEN <<>>
                                    ELSE pCallersSendQueue[u]
         /\ pc'[u] = IF u = t THEN "idle" ELSE pc[u]
  BY <1>0 DEF QueueTypes
<1>3. sendQueue[t] = <<>>
  BY <1>0 DEF EmptyInv, HasLocals
<1>4. DistinctInv'
  BY <1>0, <1>2, ElementsEmpty DEF DistinctInv, Transfers, Found
<1>5. BusInv'
  BY <1>0, <1>2 DEF BusInv, Transfers, Found, SendPcs
<1>6. EmptyInv'
  BY <1>0, <1>2, <1>3 DEF EmptyInv
<1>7. Placed'
  <2>1. ASSUME NEW u \in Threads
        PROVE  Callers'[u] = IF u = t THEN {} ELSE Callers[u]
    <3>1. /\ Callers[u] = Elements(pCallersSendQueue[u])
          /\ Callers'[u] = Elements(pCallersSendQueue'[u])
      BY DEF Callers
    <3>2. CASE u = t
      BY <1>2, <3>1, <3>2, ElementsEmpty
    <3>3. CASE u # t
      BY <1>2, <3>1, <3>3
    <3> QED
      BY <3>2, <3>3
  <2>2. Pending' = Pending \ Callers[t]
    BY <1>0 DEF Pending, Callers, Complete, QueueTypes
  <2>3. UNCHANGED <<Locals, Transfers, Elements(TxQueue)>>
    BY DEF Locals, Transfers, Found
  <2>4. Places(Elements(TxQueue), Callers', Locals, Transfers,
               Pending \ Callers[t])
    BY <1>0, <2>1, PlaceReject DEF Placed
  <2> QED
    BY <2>2, <2>3, <2>4 DEF Placed
<1> QED
  BY <1>1, <1>4, <1>5, <1>6, <1>7 DEF OwnInv

(* HTCTrySend moves its packets to the tail of TxQueue, or back to its     *)
(* head.                                                                   *)
LEMMA OwnEnqueue ==
    ASSUME OwnInv, NEW t \in Threads, pc[t] \notin HasCallers,
           NEW v \in AllPcs \ (SendPcs \cup HasCallers),
           \/ TxQueue' = TxQueue \o sendQueue[t]
           \/ TxQueue' = sendQueue[t] \o TxQueue,
           sendQueue' = [sendQueue EXCEPT ![t] = <<>>],
           pc' = [pc EXCEPT ![t] = v],
           UNCHANGED <<TxLookupQueue, pCallersSendQueue, netbuf, Status, hif,
                       hifCompletions, lookupQueue, pFoundPacket>>
    PROVE  OwnInv'
<1>0. QueueTypes /\ DistinctInv /\ BusInv /\ EmptyInv /\ Placed
  BY DEF OwnInv
<1>1. v \in AllPcs /\ v \notin SendPcs /\ v \notin HasCallers
  OBVIOUS
<1>2. /\ TxQueue' \in Seq(Packets) /\ Distinct(TxQueue')
      /\ Elements(TxQueue') = Elements(TxQueue) \cup Locals[t]
  <2> DEFINE q == TxQueue
             s == sendQueue[t]
             r == TxQueue'
  <2>1. /\ q \in Seq(Packets) /\ s \in Seq(Packets)
        /\ r = q \o s \/ r = s \o q
        /\ Distinct(q) /\ Distinct(s)
    BY <1>0 DEF QueueTypes, DistinctInv
  <2>2. Locals[t] = Elements(s)
    BY DEF Locals
  <2>3. Elements(q) \cap Elements(s) = {}
    BY <1>0, <2>2 DEF Placed, Places
  <2> HIDE DEF q, s, r
  <2>4. Elements(s) \cap Elements(q) = {}
    BY <2>3
  <2>5. r \in Seq(Packets) /\ Distinct(r)
        /\ Elements(r) = Elements(q) \cup Elements(s)
    <3>1. CASE r = q \o s
      BY <2>1, <2>3, <3>1, ElementsConcat
    <3>2. CASE r = s \o q
      <4>1. r \in Seq(Packets) /\ Distinct(r)
            /\ Elements(r) = Elements(s) \cup Elements(q)
        BY <2>1, <2>4, <3>2, ElementsConcat
      <4> QED
        BY <4>1
    <3> QED
      BY <2>1, <3>1, <3>2
  <2> QED
    BY <2>2, <2>5 DEF q, r
<1>3. QueueTypes'
  BY <1>0, <1>1, <1>2, EmptySeq DEF QueueTypes
<1>4. \A u \in Threads :
         /\ sendQueue'[u] = IF u = t THEN <<>> ELSE sendQueue[u]
         /\ pc'[u] = IF u = t THEN v ELSE pc[u]
  BY <1>0 DEF QueueTypes
<1>5. DistinctInv'
  BY <1>0, <1>2, <1>4, ElementsEmpty DEF DistinctInv, Transfers, Found
<1>6. BusInv'
  BY <1>0, <1>1, <1>4 DEF BusInv, Transfers, Found
<1>7. EmptyInv'
  BY <1>0, <1>1, <1>4 DEF EmptyInv
<1>8. Placed'
  <2>1. ASSUME NEW u \in Threads
        PROVE  Locals'[u] = IF u = t THEN {} ELSE Locals[u]
    <3>1. /\ Locals[u] = Elements(sendQueue[u])
          /\ Locals'[u] = Elements(sendQueue'[u])
      BY DEF Locals
    <3>2. CASE u = t
      BY <1>4, <3>1, <3>2, ElementsEmpty
    <3>3. CASE u # t
      BY <1>4, <3>1, <3>3
    <3> QED
      BY <3>2, <3>3
  <2>2. UNCHANGED <<Callers, Transfers, Pending>>
    BY DEF Callers, Transfers, Found, Pending
  <2>3. Places(Elements(TxQueue) \cup Locals[t], Callers, Locals', Transfers,
               Pending)
    BY <1>0, <2>1, PlaceEnqueue DEF Placed
  <2> QED
    BY <1>2, <2>2, <2>3 DEF Placed
<1> QED
  BY <1>3, <1>5, <1>6, <1>7, <1>8 DEF OwnInv

(* HTCSendDataPkt appends its caller's packet to TxQueue.                  *)
LEMMA OwnEnqueueCallers ==
    ASSUME OwnInv, NEW t \in Threads, pc[t] \notin HasLocals,
           NEW v \in AllPcs \ (SendPcs \cup HasCallers \cup HasLocals),
           TxQueue' = TxQueue \o pCallersSendQueue[t],
           pCallersSendQueue' = [pCallersSendQueue EXCEPT ![t] = <<>>],
           pc' = [pc EXCEPT ![t] = v],
           UNCHANGED <<TxLookupQueue, sendQueue, netbuf, Status, hif,
                       hifCompletions, lookupQueue, pFoundPacket>>
    PROVE  OwnInv'
<1>0. QueueTypes /\ DistinctInv /\ BusInv /\ EmptyInv /\ Placed
  BY DEF OwnInv
<1>1. v \in AllPcs /\ v \notin SendPcs /\ v \notin HasCallers
      /\ v \notin HasLocals
  OBVIOUS
<1>2. /\ TxQueue' \in Seq(Packets) /\ Distinct(TxQueue')
      /\ Elements(TxQueue') = Elements(TxQueue) \cup Callers[t]
  <2> DEFINE q == TxQueue
             s == pCallersSendQueue[t]
             r == TxQueue'
  <2>1. /\ q \in Seq(Packets) /\ s \in Seq(Packets) /\ r = q \o s
        /\ Distinct(q) /\ Distinct(s)
    BY <1>0 DEF QueueTypes, DistinctInv
  <2>2. Callers[t] = Elements(s)
    BY DEF Callers
  <2>3. Elements(q) \cap Elements(s) = {}
    BY <1>0, <2>2 DEF Placed, Places
  <2> HIDE DEF q, s, r
  <2>4. r \in Seq(Packets) /\ Distinct(r)
        /\ Elements(r) = Elements(q) \cup Elements(s)
    BY <2>1, <2>3, ElementsConcat
  <2> QED
    BY <2>2, <2>4 DEF q, r
<1>3. QueueTypes'
  BY <1>0, <1>1, <1>2, EmptySeq DEF QueueTypes
<1>4. \A u \in Threads :
         /\ pCallersSendQueue'[u] = IF u = t THEN <<>>
                                    ELSE pCallersSendQueue[u]
         /\ pc'[u] = IF u = t THEN v ELSE pc[u]
  BY <1>0 DEF QueueTypes
<1>5. DistinctInv'
  BY <1>0, <1>2, <1>4, ElementsEmpty DEF DistinctInv, Transfers, Found
<1>6. BusInv'
  BY <1>0, <1>1, <1>4 DEF BusInv, Transfers, Found
<1>7. EmptyInv'
  BY <1>0, <1>1, <1>4 DEF EmptyInv
<1>8. Placed'
  <2>1. ASSUME NEW u \in Threads
        PROVE  Callers'[u] = IF u = t THEN {} ELSE Callers[u]
    <3>1. /\ Callers[u] = Elements(pCallersSendQueue[u])
          /\ Callers'[u] = Elements(pCallersSendQueue'[u])
      BY DEF Callers
    <3>2. CASE u = t
      BY <1>4, <3>1, <3>2, ElementsEmpty
    <3>3. CASE u # t
      BY <1>4, <3>1, <3>3
    <3> QED
      BY <3>2, <3>3
  <2>2. UNCHANGED <<Locals, Transfers, Pending>>
    BY DEF Locals, Transfers, Found, Pending
  <2>3. Places(Elements(TxQueue) \cup Callers[t], Callers', Locals, Transfers,
               Pending)
    BY <1>0, <2>1, PlaceEnqueueCallers DEF Placed
  <2> QED
    BY <1>2, <2>2, <2>3 DEF Placed
<1> QED
  BY <1>3, <1>5, <1>6, <1>7, <1>8 DEF OwnInv

(* One turn of a get loop.                                                 *)
LEMMA OwnGet ==
    ASSUME OwnInv, NEW t \in Threads, pc[t] \in HasLocals, TxQueue # <<>>,
           TxQueue' = Tail(TxQueue),
           sendQueue' = [sendQueue EXCEPT ![t] = Append(@, Head(TxQueue))],
           UNCHANGED <<pc, TxLookupQueue, pCallersSendQueue, netbuf, Status,
                       hif, hifCompletions, lookupQueue, pFoundPacket>>
    PROVE  OwnInv'
<1> DEFINE p == Head(TxQueue)
           s == sendQueue[t]
<1>0. QueueTypes /\ DistinctInv /\ BusInv /\ EmptyInv /\ Placed
  BY DEF OwnInv
<1>1. /\ p \in Packets /\ TxQueue' \in Seq(Packets) /\ Distinct(TxQueue')
      /\ Elements(TxQueue) = {p} \cup Elements(TxQueue')
      /\ p \notin Elements(TxQueue')
  BY <1>0, ElementsTail DEF QueueTypes, DistinctInv
<1>2. s \in Seq(Packets) /\ Distinct(s) /\ Locals[t] = Elements(s)
  BY <1>0 DEF QueueTypes, DistinctInv, Locals
<1>3. p \notin Elements(s)
  BY <1>0, <1>1, <1>2 DEF Placed, Places
<1>4. sendQueue' = [sendQueue EXCEPT ![t] = Append(s, p)]
  OBVIOUS
<1> HIDE DEF p, s
<1>5. /\ Append(s, p) \in Seq(Packets) /\ Distinct(Append(s, p))
      /\ Elements(Append(s, p)) = Elements(s) \cup {p}
  BY <1>1, <1>2, <1>3, ElementsAppend
<1>6. \A u \in Threads :
         sendQueue'[u] = IF u = t THEN Append(s, p) ELSE sendQueue[u]
  BY <1>0, <1>4 DEF QueueTypes
<1>7. QueueTypes'
  BY <1>0, <1>1, <1>4, <1>5 DEF QueueTypes
<1>8. DistinctInv'
  BY <1>0, <1>1, <1>5, <1>6 DEF DistinctInv, Transfers, Found
<1>9. BusInv' /\ EmptyInv'
  BY <1>0, <1>6 DEF BusInv, EmptyInv, Transfers, Found
<1>10. Placed'
  <2>1. ASSUME NEW u \in Threads
        PROVE  Locals'[u] = IF u = t THEN Locals[t] \cup {p} ELSE Locals[u]
    <3>1. /\ Locals[u] = Elements(sendQueue[u])
          /\ Locals'[u] = Elements(sendQueue'[u])
      BY DEF Locals
    <3> QED
      BY <1>2, <1>5, <1>6, <3>1
  <2>2. UNCHANGED <<Callers, Transfers, Pending>>
    BY DEF Callers, Transfers, Found, Pending
  <2>3. Elements(TxQueue') = Elements(TxQueue) \ {p} /\ p \in Elements(TxQueue)
    BY <1>1
  <2>4. Places(Elements(TxQueue) \ {p}, Callers, Locals', Transfers, Pending)
    <3>1. Places(Elements(TxQueue), Callers, Locals, Transfers, Pending)
      BY <1>0 DEF Placed
    <3>2. t \in Threads
      OBVIOUS
    <3> QED
      BY ONLY <2>1, <2>3, <3>1, <3>2, PlaceGet, ZenonT(40)
  <2> QED
    BY <2>2, <2>3, <2>4 DEF Placed
<1> QED
  BY <1>7, <1>8, <1>9, <1>10 DEF OwnInv

(* HTCIssuePackets makes a transfer of the first k packets it holds.       *)
LEMMA OwnIssue ==
    ASSUME OwnInv, NEW t \in Threads, pc[t] \in HasLocals \ SendPcs,
           NEW v \in SendPcs, NEW k \in 1..Len(sendQueue[t]),
           netbuf' = [netbuf EXCEPT ![t] = SubSeq(sendQueue[t], 1, k)],
           TxLookupQueue' = Append(TxLookupQueue,
                                   SubSeq(sendQueue[t], 1, k)),
           sendQueue' = [sendQueue EXCEPT
               ![t] = SubSeq(sendQueue[t], k + 1, Len(sendQueue[t]))],
           pc' = [pc EXCEPT ![t] = v],
           UNCHANGED <<TxQueue, pCallersSendQueue, Status, hif,
                       hifCompletions, lookupQueue, pFoundPacket>>
    PROVE  OwnInv'
<1> DEFINE s == sendQueue[t]
           x == SubSeq(s, 1, k)
           r == SubSeq(s, k + 1, Len(s))
<1>0. QueueTypes /\ DistinctInv /\ BusInv /\ EmptyInv /\ Placed
  BY DEF OwnInv
<1>1. s \in Seq(Packets) /\ Distinct(s) /\ Locals[t] = Elements(s)
  BY <1>0 DEF QueueTypes, DistinctInv, Locals
<1>2. k \in 0..Len(s) /\ k # 0
  BY <1>1, LenProperties
<1>3. /\ netbuf' = [netbuf EXCEPT ![t] = x]
      /\ TxLookupQueue' = Append(TxLookupQueue, x)
      /\ sendQueue' = [sendQueue EXCEPT ![t] = r]
  OBVIOUS
<1>4. /\ x \in Seq(Packets) /\ r \in Seq(Packets) /\ Len(x) = k
      /\ Elements(s) = Elements(x) \cup Elements(r)
      /\ Distinct(x) /\ Distinct(r) /\ Elements(x) \cap Elements(r) = {}
  <2> HIDE DEF s
  <2> QED
    BY <1>1, <1>2, ElementsSplit, ZenonT(40)
<1> HIDE DEF s, x, r
<1>5. x # <<>> /\ Elements(x) # {}
  BY <1>2, <1>4, EmptySeq, ElementsType
<1>6. x \notin Transfers
  BY <1>0, <1>1, <1>4, <1>5 DEF Placed, Places
<1>7. /\ TxLookupQueue' \in Seq(Seq(Packets)) /\ Distinct(TxLookupQueue')
      /\ Elements(TxLookupQueue') = Elements(TxLookupQueue) \cup {x}
      /\ Transfers' = Transfers \cup {x}
  <2> DEFINE q == TxLookupQueue
             a == TxLookupQueue'
  <2>1. /\ q \in Seq(Seq(Packets)) /\ Distinct(q) /\ x \notin Elements(q)
        /\ x \in Seq(Packets) /\ a = Append(q, x)
    BY <1>0, <1>3, <1>4, <1>6 DEF QueueTypes, DistinctInv, Transfers, Found
  <2> DEFINE l == Elements(lookupQueue) \cup Found
  <2>2. Transfers = Elements(q) \cup l /\ Transfers' = Elements(a) \cup l
    BY DEF Transfers, Found
  <2> HIDE DEF q, a, l
  <2>3. a \in Seq(Seq(Packets)) /\ Distinct(a)
        /\ Elements(a) = Elements(q) \cup {x}
    BY <2>1, ElementsAppend
  <2> QED
    BY <2>2, <2>3 DEF a, q
<1>8. \A u \in Threads :
         /\ sendQueue'[u] = IF u = t THEN r ELSE sendQueue[u]
         /\ netbuf'[u] = IF u = t THEN x ELSE netbuf[u]
         /\ pc'[u] = IF u = t THEN v ELSE pc[u]
  BY <1>0, <1>3 DEF QueueTypes
<1>9. v \in AllPcs /\ v \in HasLocals /\ v \notin HasCallers
  BY DEF SendPcs, HasLocals, HasCallers, AllPcs, PcValues
<1>10. QueueTypes'
  BY <1>0, <1>3, <1>4, <1>7, <1>9 DEF QueueTypes
<1>11. DistinctInv'
  <2>2. x \notin Elements(lookupQueue) /\ pFoundPacket # x
    BY <1>5, <1>6 DEF Transfers, Found
  <2>3. /\ Elements(TxLookupQueue') \cap Elements(lookupQueue') = {}
        /\ pFoundPacket' \notin Elements(TxLookupQueue')
        /\ pFoundPacket' \notin Elements(lookupQueue')
    BY <1>0, <1>7, <2>2 DEF DistinctInv
  <2> QED
    BY <1>0, <1>4, <1>5, <1>7, <1>8, <2>3 DEF DistinctInv
<1>12. BusInv'
  <2>1. \A u \in Threads : pc[u] \in SendPcs =>
           /\ netbuf[u] \in Transfers /\ netbuf[u] # x
           /\ netbuf[u] \notin Elements(hif)
           /\ netbuf[u] \notin Elements(hifCompletions)
    BY <1>0, <1>6 DEF BusInv, Found
  <2>2. x \notin Elements(hif) /\ x \notin Elements(hifCompletions)
    BY <1>0, <1>6 DEF BusInv, Found
  <2>3. ASSUME NEW u \in Threads, pc'[u] \in SendPcs
        PROVE  /\ netbuf'[u] \in Transfers'
               /\ netbuf'[u] \notin Elements(hif)
               /\ netbuf'[u] \notin Elements(hifCompletions)
    <3>1. CASE u = t
      <4>1. netbuf'[u] = x
        BY <1>8, <3>1
      <4>2. x \in Transfers'
        BY <1>7
      <4> QED
        BY <2>2, <4>1, <4>2, Zenon
    <3>2. CASE u # t
      <4>1. netbuf'[u] = netbuf[u] /\ pc'[u] = pc[u]
        BY <1>8, <3>2
      <4> QED
        BY <1>7, <2>1, <2>3, <4>1
    <3> QED
      BY <3>1, <3>2
  <2>4. ASSUME NEW u \in Threads, NEW w \in Threads, pc'[u] \in SendPcs,
               pc'[w] \in SendPcs, u # w
        PROVE  netbuf'[u] # netbuf'[w]
    BY <1>0, <1>8, <2>1, <2>4 DEF BusInv, Found
  <2> QED
    BY <1>0, <1>7, <2>3, <2>4 DEF BusInv, Found
<1>13. EmptyInv'
  BY <1>0, <1>8, <1>9 DEF EmptyInv, HasLocals
<1>14. Placed'
  <2>1. ASSUME NEW u \in Threads
        PROVE  Locals'[u] = IF u = t THEN Locals[t] \ Elements(x)
                            ELSE Locals[u]
    <3>1. /\ Locals[u] = Elements(sendQueue[u])
          /\ Locals'[u] = Elements(sendQueue'[u])
      BY DEF Locals
    <3>2. Elements(r) = Elements(s) \ Elements(x)
      BY <1>4
    <3>3. CASE u = t
      BY <1>1, <1>8, <3>1, <3>2, <3>3
    <3>4. CASE u # t
      BY <1>8, <3>1, <3>4
    <3> QED
      BY <3>3, <3>4
  <2>2. Elements(x) \subseteq Locals[t]
    BY <1>1, <1>4
  <2>3. UNCHANGED <<Callers, Elements(TxQueue), Pending>>
    BY DEF Callers, Pending
  <2>4. Places(Elements(TxQueue), Callers, Locals', Transfers \cup {x},
               Pending)
    BY <1>0, <2>1, <2>2, PlaceIssue DEF Placed
  <2> QED
    BY <1>7, <2>3, <2>4 DEF Placed
<1> QED
  BY <1>10, <1>11, <1>12, <1>13, <1>14 DEF OwnInv

(* HIFSend_head accepts the transfer.                                      *)
LEMMA OwnSendOk ==
    ASSUME OwnInv, NEW t \in Threads, pc[t] \in SendPcs,
           hif' = Append(hif, netbuf[t]),
           netbuf' = [netbuf EXCEPT ![t] = <<>>],
           pc' = [pc EXCEPT ![t] = "issue"],
           UNCHANGED <<TxQueue, TxLookupQueue, pCallersSendQueue, sendQueue,
                       Status, hifCompletions, lookupQueue, pFoundPacket>>
    PROVE  OwnInv'
<1> DEFINE x == netbuf[t]
<1>0. QueueTypes /\ DistinctInv /\ BusInv /\ EmptyInv /\ Placed
  BY DEF OwnInv
<1>1. /\ x \in Seq(Packets) /\ x \in Transfers
      /\ x \notin Elements(hif) /\ x \notin Elements(hifCompletions)
  BY <1>0 DEF QueueTypes, BusInv, Found
<1>2. hif' = Append(hif, x)
  OBVIOUS
<1>3. ASSUME NEW u \in Threads, u # t, pc[u] \in SendPcs PROVE netbuf[u] # x
  BY <1>0, <1>3 DEF BusInv, Found
<1> HIDE DEF x
<1>4. /\ hif' \in Seq(Seq(Packets)) /\ Distinct(hif')
      /\ Elements(hif') = Elements(hif) \cup {x}
  BY <1>0, <1>1, <1>2, ElementsAppend DEF QueueTypes, DistinctInv
<1>5. \A u \in Threads :
         /\ netbuf'[u] = IF u = t THEN <<>> ELSE netbuf[u]
         /\ pc'[u] = IF u = t THEN "issue" ELSE pc[u]
  BY <1>0 DEF QueueTypes
<1>6. /\ "issue" \in AllPcs /\ "issue" \in HasLocals /\ "issue" \notin SendPcs
      /\ pc[t] \notin HasCallers
  BY DEF AllPcs, HasLocals, HasCallers, SendPcs, PcValues
<1>7. QueueTypes'
  BY <1>0, <1>4, <1>6, EmptySeq DEF QueueTypes
<1>8. DistinctInv'
  BY <1>0, <1>4 DEF DistinctInv, Transfers, Found
<1>9. BusInv'
  <2>1. Transfers' = Transfers
    BY DEF Transfers, Found
  <2> QED
    BY <1>0, <1>1, <1>3, <1>4, <1>5, <1>6, <2>1 DEF BusInv, Found
<1>10. EmptyInv'
  BY <1>0, <1>5, <1>6 DEF EmptyInv
<1>11. Placed'
  BY <1>0 DEF Placed, Callers, Locals, Transfers, Found, Pending
<1> QED
  BY <1>7, <1>8, <1>9, <1>10, <1>11 DEF OwnInv

(* HTC_PACKET_REMOVE of a transfer that is in either list.                 *)
LEMMA LookupRemoved ==
    ASSUME QueueTypes, DistinctInv, BusInv, NEW x,
           x \notin Elements(hifCompletions),
           TxLookupQueue' = HTC_PACKET_REMOVE(TxLookupQueue, x),
           lookupQueue' = HTC_PACKET_REMOVE(lookupQueue, x),
           UNCHANGED pFoundPacket
    PROVE  /\ TxLookupQueue' \in Seq(Seq(Packets)) /\ Distinct(TxLookupQueue')
           /\ lookupQueue' \in Seq(Seq(Packets)) /\ Distinct(lookupQueue')
           /\ pFoundPacket' \in Seq(Packets)
           /\ Elements(TxLookupQueue') \cap Elements(lookupQueue') = {}
           /\ pFoundPacket' \notin Elements(TxLookupQueue')
           /\ pFoundPacket' \notin Elements(lookupQueue')
           /\ Transfers' = Transfers \ {x} /\ Found' = Found
<1> DEFINE q == TxLookupQueue
           l == lookupQueue
<1>1. /\ q \in Seq(Seq(Packets)) /\ Distinct(q)
      /\ l \in Seq(Seq(Packets)) /\ Distinct(l)
      /\ Elements(q) \cap Elements(l) = {}
      /\ pFoundPacket \notin Elements(q) /\ pFoundPacket \notin Elements(l)
      /\ pFoundPacket \in Seq(Packets)
  BY DEF QueueTypes, DistinctInv
<1>2. /\ q' \in Seq(Seq(Packets)) /\ Distinct(q')
      /\ Elements(q') = Elements(q) \ {x}
  BY <1>1, PacketRemoved
<1>3. /\ l' \in Seq(Seq(Packets)) /\ Distinct(l')
      /\ Elements(l') = Elements(l) \ {x}
  BY <1>1, PacketRemoved
<1>4. Found' = Found /\ x \notin Found
  BY DEF Found, BusInv
<1>5. /\ Transfers = Elements(q) \cup Elements(l) \cup Found
      /\ Transfers' = Elements(q') \cup Elements(l') \cup Found'
  BY DEF Transfers
<1> HIDE DEF q, l
<1>6. Transfers' = Transfers \ {x}
  BY <1>2, <1>3, <1>4, <1>5
<1> QED
  BY <1>1, <1>2, <1>3, <1>4, <1>6 DEF q, l

(* HIFSend_head refuses the transfer: its packets return to the front of   *)
(* the local queue.                                                        *)
LEMMA OwnTakeBack ==
    ASSUME OwnInv, NEW t \in Threads, pc[t] \in SendPcs,
           NEW v \in HasLocals \ SendPcs,
           TxLookupQueue' = HTC_PACKET_REMOVE(TxLookupQueue, netbuf[t]),
           lookupQueue' = HTC_PACKET_REMOVE(lookupQueue, netbuf[t]),
           sendQueue' = [sendQueue EXCEPT ![t] = netbuf[t] \o sendQueue[t]],
           netbuf' = [netbuf EXCEPT ![t] = <<>>],
           pc' = [pc EXCEPT ![t] = v],
           UNCHANGED <<TxQueue, pCallersSendQueue, Status, hif,
                       hifCompletions, pFoundPacket>>
    PROVE  OwnInv'
<1> DEFINE x == netbuf[t]
           s == sendQueue[t]
           n == x \o s
<1>0. QueueTypes /\ DistinctInv /\ BusInv /\ EmptyInv /\ Placed
  BY DEF OwnInv
<1>1. /\ x \in Seq(Packets) /\ x \in Transfers /\ Distinct(x)
      /\ x \notin Elements(hif) /\ x \notin Elements(hifCompletions)
  BY <1>0 DEF QueueTypes, BusInv, Found, DistinctInv
<1>2. s \in Seq(Packets) /\ Distinct(s) /\ Locals[t] = Elements(s)
  BY <1>0 DEF QueueTypes, DistinctInv, Locals
<1>3. ASSUME NEW u \in Threads, u # t, pc[u] \in SendPcs PROVE netbuf[u] # x
  BY <1>0, <1>3 DEF BusInv, Found
<1>4. /\ TxLookupQueue' = HTC_PACKET_REMOVE(TxLookupQueue, x)
      /\ lookupQueue' = HTC_PACKET_REMOVE(lookupQueue, x)
      /\ sendQueue' = [sendQueue EXCEPT ![t] = n]
  OBVIOUS
<1> HIDE DEF x, s
<1>5. Elements(x) \cap Elements(s) = {}
  BY <1>0, <1>1, <1>2 DEF Placed, Places
<1>6. /\ n \in Seq(Packets) /\ Distinct(n)
      /\ Elements(n) = Elements(x) \cup Elements(s)
  BY <1>1, <1>2, <1>5, ElementsConcat
<1> HIDE DEF n
<1>7. /\ TxLookupQueue' \in Seq(Seq(Packets)) /\ Distinct(TxLookupQueue')
      /\ lookupQueue' \in Seq(Seq(Packets)) /\ Distinct(lookupQueue')
      /\ pFoundPacket' \in Seq(Packets)
      /\ Elements(TxLookupQueue') \cap Elements(lookupQueue') = {}
      /\ pFoundPacket' \notin Elements(TxLookupQueue')
      /\ pFoundPacket' \notin Elements(lookupQueue')
      /\ Transfers' = Transfers \ {x} /\ Found' = Found
  BY <1>0, <1>1, <1>4, LookupRemoved
<1>8. \A u \in Threads :
         /\ netbuf'[u] = IF u = t THEN <<>> ELSE netbuf[u]
         /\ sendQueue'[u] = IF u = t THEN n ELSE sendQueue[u]
         /\ pc'[u] = IF u = t THEN v ELSE pc[u]
  BY <1>0, <1>4 DEF QueueTypes
<1>9. /\ v \in AllPcs /\ v \in HasLocals /\ v \notin SendPcs
      /\ pc[t] \notin HasCallers
  BY DEF AllPcs, HasLocals, HasCallers, SendPcs
<1>10. QueueTypes'
  BY <1>0, <1>4, <1>6, <1>7, <1>9, EmptySeq DEF QueueTypes
<1>11. DistinctInv'
  BY <1>0, <1>6, <1>7, <1>8 DEF DistinctInv
<1>12. BusInv'
  BY <1>0, <1>1, <1>3, <1>7, <1>8, <1>9 DEF BusInv
<1>13. EmptyInv'
  BY <1>0, <1>8, <1>9 DEF EmptyInv
<1>14. Placed'
  <2>1. ASSUME NEW u \in Threads
        PROVE  Locals'[u] = IF u = t THEN Locals[t] \cup Elements(x)
                            ELSE Locals[u]
    <3>1. /\ Locals[u] = Elements(sendQueue[u])
          /\ Locals'[u] = Elements(sendQueue'[u])
      BY DEF Locals
    <3> QED
      BY <1>2, <1>6, <1>8, <3>1
  <2>2. UNCHANGED <<Callers, Elements(TxQueue), Pending>>
    BY DEF Callers, Pending
  <2>3. Places(Elements(TxQueue), Callers, Locals', Transfers \ {x}, Pending)
    BY <1>0, <1>1, <2>1, PlaceTakeBack DEF Placed
  <2> QED
    BY <1>7, <2>2, <2>3 DEF Placed
<1> QED
  BY <1>10, <1>11, <1>12, <1>13, <1>14 DEF OwnInv

(* The search of HTCLookupTxPacket: the transfer that completed is in the  *)
(* list it searches, at or behind the item where the search goes on, until *)
(* it is found.                                                            *)
Reaches(q, x, y) ==
    \E i, j \in 1..Len(q) : i <= j /\ q[i] = x /\ q[j] = y

LookupInv ==
    /\ pc[CompThread] \notin LookupPcs => lookupQueue = <<>>
    /\ pc[CompThread] # "putBack" => pFoundPacket = <<>>
    /\ pc[CompThread] \in LookupPcs => hifCompletions # <<>>
    /\ pc[CompThread] \in {"first", "search", "unlink"} =>
          Completed \in Elements(lookupQueue)
    /\ pc[CompThread] = "search" /\ ~derailed =>
          Reaches(lookupQueue, pTemp, Completed)
    /\ pc[CompThread] = "putBack" => pFoundPacket = Completed

(* Transfers move between the lists of HTCLookupTxPacket and stay what they*)
(* are.                                                                    *)
LEMMA OwnMoved ==
    ASSUME OwnInv, NEW v \in LookupPcs,
           pc[CompThread] \notin HasCallers \cup HasLocals,
           pc' = [pc EXCEPT ![CompThread] = v],
           TxLookupQueue' \in Seq(Seq(Packets)), Distinct(TxLookupQueue'),
           lookupQueue' \in Seq(Seq(Packets)), Distinct(lookupQueue'),
           pFoundPacket' \in Seq(Packets),
           Elements(TxLookupQueue') \cap Elements(lookupQueue') = {},
           pFoundPacket' \notin Elements(TxLookupQueue'),
           pFoundPacket' \notin Elements(lookupQueue'),
           Transfers' = Transfers, Found' \subseteq Elements(hifCompletions),
           UNCHANGED <<TxQueue, pCallersSendQueue, sendQueue, netbuf, Status,
                       hif, hifCompletions>>
    PROVE  OwnInv'
<1>0. QueueTypes /\ DistinctInv /\ BusInv /\ EmptyInv /\ Placed
  BY DEF OwnInv
<1>1. CompThread \in Threads
  BY DEF Threads
<1>2. \A u \in Threads : pc'[u] = IF u = CompThread THEN v ELSE pc[u]
  BY <1>0 DEF QueueTypes
<1>3. v \in AllPcs /\ v \notin SendPcs
  BY DEF AllPcs, LookupPcs, SendPcs
<1>4. QueueTypes'
  BY <1>0, <1>3 DEF QueueTypes
<1>5. DistinctInv'
  BY <1>0 DEF DistinctInv
<1>6. BusInv'
  BY <1>0, <1>2, <1>3 DEF BusInv
<1>7. EmptyInv'
  BY <1>0, <1>1, <1>2 DEF EmptyInv
<1>8. Placed'
  <2>1. UNCHANGED <<Callers, Locals, Elements(TxQueue), Pending>>
    BY DEF Callers, Locals, Pending
  <2> QED
    BY <1>0, <2>1 DEF Placed
<1> QED
  BY <1>4, <1>5, <1>6, <1>7, <1>8 DEF OwnInv

(* The oldest completion is handled and its packets are completed.         *)
LEMMA OwnCompleted ==
    ASSUME OwnInv, hifCompletions # <<>>,
           hifCompletions' = Tail(hifCompletions),
           NEW v \in {"idle", "resources"},
           pc[CompThread] \notin HasCallers \cup HasLocals,
           pc' = [pc EXCEPT ![CompThread] = v],
           TxLookupQueue' \in Seq(Seq(Packets)), Distinct(TxLookupQueue'),
           Elements(TxLookupQueue') = Transfers \ {Completed},
           lookupQueue' = <<>>, pFoundPacket' = <<>>,
           Status' = Complete(Elements(Completed), "A_OK"),
           UNCHANGED <<TxQueue, pCallersSendQueue, sendQueue, netbuf, hif>>
    PROVE  OwnInv'
<1> DEFINE x == Completed
<1>0. QueueTypes /\ DistinctInv /\ BusInv /\ EmptyInv /\ Placed
  BY DEF OwnInv
<1>1. CompThread \in Threads
  BY DEF Threads
<1>2. /\ x \in Seq(Packets) /\ hifCompletions' \in Seq(Seq(Packets))
      /\ Distinct(hifCompletions')
      /\ Elements(hifCompletions) = {x} \cup Elements(hifCompletions')
      /\ x \notin Elements(hifCompletions')
  BY <1>0, ElementsTail DEF QueueTypes, DistinctInv, Completed
<1>3. x \in Transfers /\ x \notin Elements(hif)
  BY <1>0, <1>2 DEF BusInv
<1>4. Status' = Complete(Elements(x), "A_OK")
  OBVIOUS
<1>5. /\ Elements(TxLookupQueue') = Transfers \ {x}
      /\ Found' = {} /\ Elements(lookupQueue') = {}
  BY ElementsEmpty DEF Found
<1> HIDE DEF x
<1>6. Transfers' = Transfers \ {x}
  BY <1>5 DEF Transfers
<1>7. \A u \in Threads : pc'[u] = IF u = CompThread THEN v ELSE pc[u]
  BY <1>0 DEF QueueTypes
<1>8. QueueTypes'
  <2>1. Status' \in [Packets -> {"unsent", "pending", "A_OK", "A_ECANCELED",
                                "A_NO_RESOURCE"}]
    BY <1>0, <1>4 DEF QueueTypes, Complete
  <2>2. pc' \in [Threads -> AllPcs]
    BY <1>0 DEF QueueTypes, AllPcs, PcValues
  <2> QED
    BY <1>0, <1>2, <2>1, <2>2, EmptySeq DEF QueueTypes
<1>9. DistinctInv'
  <2>1. <<>> \notin Transfers
    BY <1>0 DEF DistinctInv
  <2> QED
    BY <1>0, <1>2, <1>5, <1>6, <2>1, ElementsEmpty DEF DistinctInv
<1>10. BusInv'
  BY <1>0, <1>2, <1>3, <1>5, <1>6, <1>7 DEF BusInv, SendPcs
<1>11. EmptyInv'
  BY <1>0, <1>1, <1>7 DEF EmptyInv, HasLocals, HasCallers
<1>12. Placed'
  <2>1. UNCHANGED <<Callers, Locals, Elements(TxQueue)>>
    BY DEF Callers, Locals
  <2>2. Pending' = Pending \ Elements(x)
    BY <1>0, <1>4 DEF Pending, Complete, QueueTypes
  <2>3. Places(Elements(TxQueue), Callers, Locals, Transfers \ {x},
               Pending \ Elements(x))
    BY <1>0, <1>3, PlaceComplete DEF Placed
  <2> QED
    BY <1>6, <2>1, <2>2, <2>3 DEF Placed
<1> QED
  BY <1>8, <1>9, <1>10, <1>11, <1>12 DEF OwnInv

(* The transfer whose completion is handled next is known.                 *)
LEMMA TransfersKnown ==
    ASSUME OwnInv, hifCompletions # <<>>
    PROVE  /\ Completed \in Elements(hifCompletions)
           /\ Completed \in Transfers /\ Completed # <<>>
           /\ Completed \in Seq(Packets) /\ hifCompletions \in Seq(Seq(Packets))
<1>1. hifCompletions \in Seq(Seq(Packets))
  BY DEF OwnInv, QueueTypes
<1>2. Completed \in Elements(hifCompletions) /\ Completed \in Seq(Packets)
  BY <1>1, ElementsTail DEF Completed
<1> QED
  BY <1>1, <1>2 DEF OwnInv, BusInv, DistinctInv

(* Without a search every transfer is in TxLookupQueue.                    *)
LEMMA NoSearch ==
    ASSUME LookupInv, pc[CompThread] = "idle"
    PROVE  /\ lookupQueue = <<>> /\ pFoundPacket = <<>> /\ Found = {}
           /\ Elements(lookupQueue) = {}
           /\ Transfers = Elements(TxLookupQueue)
BY ElementsEmpty DEF LookupInv, LookupPcs, Found, Transfers

(* HTCTxCompletionHandler: the transfer it was told of is always found.    *)
LEMMA OwnComplete ==
    ASSUME OwnInv, LookupInv, HTCTxCompletionHandler
    PROVE  OwnInv'
<1> DEFINE x == Completed
<1>0. /\ TxLookupQueue \in Seq(Seq(Packets)) /\ Distinct(TxLookupQueue)
      /\ pc[CompThread] = "idle" /\ hifCompletions # <<>>
  BY DEF OwnInv, QueueTypes, DistinctInv, HTCTxCompletionHandler
<1>1. /\ lookupQueue = <<>> /\ pFoundPacket = <<>>
      /\ Transfers = Elements(TxLookupQueue)
  BY <1>0, NoSearch
<1>2. TxLookupQueue # <<>>
  BY <1>0, <1>1, TransfersKnown, ElementsEmpty
<1>3. /\ TxLookupQueue' = Tail(TxLookupQueue) /\ x = Head(TxLookupQueue)
      /\ Status' = Complete(Elements(x), "A_OK")
      /\ hifCompletions' = Tail(hifCompletions)
      /\ pc' = [pc EXCEPT ![CompThread] = AfterCompletionPc]
      /\ UNCHANGED <<TxQueue, pCallersSendQueue, sendQueue, netbuf, hif,
                     lookupQueue, pFoundPacket>>
  BY <1>2 DEF HTCTxCompletionHandler, HTC_PACKET_DEQUEUE, searchVars
<1>4. AfterCompletionPc \in {"idle", "resources"}
  BY DEF AfterCompletionPc
<1>5. pc[CompThread] \notin HasCallers \cup HasLocals
  BY <1>0 DEF HasCallers, HasLocals
<1> HIDE DEF x
<1>6. /\ TxLookupQueue' \in Seq(Seq(Packets)) /\ Distinct(TxLookupQueue')
      /\ Elements(TxLookupQueue') = Transfers \ {x}
  <2> DEFINE q == TxLookupQueue
             u == TxLookupQueue'
  <2>1. /\ q \in Seq(Seq(Packets)) /\ Distinct(q) /\ q # <<>>
        /\ u = Tail(q) /\ x = Head(q) /\ Transfers = Elements(q)
    BY <1>0, <1>1, <1>2, <1>3
  <2> HIDE DEF q, u
  <2>2. /\ u \in Seq(Seq(Packets)) /\ Distinct(u)
        /\ Elements(q) = {x} \cup Elements(u) /\ x \notin Elements(u)
    BY <2>1, ElementsTail
  <2> QED
    BY <2>1, <2>2 DEF u
<1> QED
  BY <1>0, <1>1, <1>3, <1>4, <1>5, <1>6, OwnCompleted DEF x

(* The steps of the search.                                                *)
LEMMA OwnSearch ==
    ASSUME OwnInv, LookupInv, LookupStep
    PROVE  OwnInv'
<1>0. QueueTypes /\ DistinctInv /\ BusInv /\ EmptyInv /\ Placed
      /\ CompThread \in Threads
  BY DEF OwnInv, Threads
<1>1. /\ "idle" \notin HasCallers \cup HasLocals
      /\ LookupPcs \cap (HasCallers \cup HasLocals \cup SendPcs) = {}
      /\ LookupPcs \subseteq AllPcs
  BY DEF HasCallers, HasLocals, LookupPcs, PcValues, SendPcs, AllPcs
<1>2. CASE HTCLookupTxPacket
  <2>1. /\ pc[CompThread] = "idle" /\ lookupQueue' = TxLookupQueue
        /\ TxLookupQueue' = <<>> /\ pc' = [pc EXCEPT ![CompThread] = "first"]
        /\ UNCHANGED <<TxQueue, pCallersSendQueue, sendQueue, netbuf, Status,
                       hif, hifCompletions, pFoundPacket>>
    BY <1>2 DEF HTCLookupTxPacket, searchFrame
  <2>2. lookupQueue = <<>> /\ pFoundPacket = <<>> /\ Found = {}
        /\ Transfers = Elements(TxLookupQueue)
    BY <2>1, NoSearch
  <2>3. Found' = {} /\ pFoundPacket' = <<>>
    BY <2>1, <2>2 DEF Found
  <2>4. Elements(TxLookupQueue') = {} /\ Distinct(TxLookupQueue')
        /\ TxLookupQueue' \in Seq(Seq(Packets))
    BY <2>1, ElementsEmpty, EmptySeq
  <2>5. Transfers' = Transfers
    BY <2>1, <2>2, <2>3, <2>4 DEF Transfers
  <2>6. /\ lookupQueue' \in Seq(Seq(Packets)) /\ Distinct(lookupQueue')
        /\ pFoundPacket' \in Seq(Packets)
        /\ pFoundPacket' \notin Elements(lookupQueue')
    BY <1>0, <2>1 DEF QueueTypes, DistinctInv
  <2>7. "first" \in LookupPcs
    BY DEF LookupPcs
  <2> QED
    BY <1>1, <2>1, <2>3, <2>4, <2>5, <2>6, <2>7, OwnMoved
<1>3. CASE SearchFirst \/ SearchNext
  <2>1. PICK v \in {"search", "putBack", "unlink"} :
           pc' = [pc EXCEPT ![CompThread] = v]
    BY <1>3 DEF SearchFirst, SearchNext
  <2>2. UNCHANGED queueVars /\ pc[CompThread] \in LookupPcs
    BY <1>3 DEF SearchFirst, SearchNext, searchFrame, queueVars, LookupPcs
  <2>3. v \in AllPcs \ SendPcs
    BY DEF AllPcs, LookupPcs, SendPcs
  <2>4. pCallersSendQueue[CompThread] = <<>> /\ sendQueue[CompThread] = <<>>
    BY <1>0, <1>1, <2>2 DEF EmptyInv
  <2> QED
    BY <1>0, <2>1, <2>2, <2>3, <2>4, OwnPc
<1>4. CASE UnlinkFound
  <2> DEFINE x == Completed
  <2>1. /\ pc[CompThread] = "unlink"
        /\ lookupQueue' = HTC_PACKET_REMOVE(lookupQueue, x)
        /\ pFoundPacket' = x /\ pc' = [pc EXCEPT ![CompThread] = "putBack"]
        /\ UNCHANGED <<TxQueue, TxLookupQueue, pCallersSendQueue, sendQueue,
                       netbuf, Status, hif, hifCompletions>>
    BY <1>4 DEF UnlinkFound, searchFrame
  <2>2. pFoundPacket = <<>> /\ x \in Elements(lookupQueue)
        /\ hifCompletions # <<>> /\ Found = {}
    BY <2>1 DEF LookupInv, LookupPcs, Found
  <2>3. x \in Elements(hifCompletions) /\ x # <<>> /\ x \in Seq(Packets)
    BY <2>2, TransfersKnown
  <2>4. /\ lookupQueue \in Seq(Seq(Packets)) /\ Distinct(lookupQueue)
        /\ TxLookupQueue \in Seq(Seq(Packets)) /\ Distinct(TxLookupQueue)
        /\ Elements(TxLookupQueue) \cap Elements(lookupQueue) = {}
    BY <1>0 DEF QueueTypes, DistinctInv
  <2> HIDE DEF x
  <2>5. /\ lookupQueue' \in Seq(Seq(Packets)) /\ Distinct(lookupQueue')
        /\ Elements(lookupQueue') = Elements(lookupQueue) \ {x}
    BY <2>1, <2>4, PacketRemoved
  <2>6. Found' = {x}
    BY <2>1, <2>3 DEF Found
  <2>7. Transfers' = Transfers
    BY <2>1, <2>2, <2>5, <2>6 DEF Transfers
  <2>8. "putBack" \in LookupPcs /\ "unlink" \in LookupPcs
    BY DEF LookupPcs
  <2>9. /\ Elements(TxLookupQueue') \cap Elements(lookupQueue') = {}
        /\ pFoundPacket' \notin Elements(TxLookupQueue')
        /\ pFoundPacket' \notin Elements(lookupQueue')
        /\ TxLookupQueue' \in Seq(Seq(Packets)) /\ Distinct(TxLookupQueue')
        /\ pFoundPacket' \in Seq(Packets)
        /\ Found' \subseteq Elements(hifCompletions)
        /\ pc[CompThread] \notin HasCallers \cup HasLocals
    BY <1>1, <2>1, <2>2, <2>3, <2>4, <2>5, <2>6, <2>8
  <2> QED
    BY <2>1, <2>5, <2>7, <2>8, <2>9, OwnMoved
<1>5. CASE EndLookup
  <2> DEFINE x == Completed
             q == TxLookupQueue
             l == lookupQueue
             u == TxLookupQueue'
  <2>1. /\ pc[CompThread] = "putBack" /\ u = l \o q
        /\ lookupQueue' = <<>> /\ pFoundPacket' = <<>>
        /\ Status' = Complete(Elements(pFoundPacket), "A_OK")
        /\ hifCompletions' = Tail(hifCompletions)
        /\ pc' = [pc EXCEPT ![CompThread] = AfterCompletionPc]
        /\ UNCHANGED <<TxQueue, pCallersSendQueue, sendQueue, netbuf, hif>>
    BY <1>5 DEF EndLookup, HTC_PACKET_QUEUE_TRANSFER_TO_HEAD, searchFrame
  <2>2. pFoundPacket = x /\ hifCompletions # <<>>
    BY <2>1 DEF LookupInv, LookupPcs
  <2>3. x # <<>> /\ Found = {x}
    BY <2>2, TransfersKnown DEF Found
  <2>4. /\ q \in Seq(Seq(Packets)) /\ Distinct(q)
        /\ l \in Seq(Seq(Packets)) /\ Distinct(l)
        /\ Elements(l) \cap Elements(q) = {}
        /\ x \notin Elements(q) /\ x \notin Elements(l)
        /\ Transfers = Elements(q) \cup Elements(l) \cup {x}
    BY <1>0, <2>2, <2>3 DEF QueueTypes, DistinctInv, Transfers
  <2> HIDE DEF x, q, l, u
  <2>5. /\ u \in Seq(Seq(Packets)) /\ Distinct(u)
        /\ Elements(u) = Elements(l) \cup Elements(q)
    BY <2>1, <2>4, ElementsConcat
  <2>6. Elements(u) = Transfers \ {x}
    BY <2>4, <2>5
  <2>7. AfterCompletionPc \in {"idle", "resources"}
    BY DEF AfterCompletionPc
  <2>8. pc[CompThread] \notin HasCallers \cup HasLocals
    BY <1>1, <2>1 DEF LookupPcs
  <2> QED
    BY <2>1, <2>2, <2>5, <2>6, <2>7, <2>8, OwnCompleted DEF x, u
<1> QED
  BY <1>2, <1>3, <1>4, <1>5 DEF LookupStep

(* HTCFlushEndpointTX cancels what is in TxQueue.                          *)
LEMMA OwnFlush ==
    ASSUME OwnInv, HTCFlushEndpointTX
    PROVE  OwnInv'
<1>0. QueueTypes /\ DistinctInv /\ BusInv /\ EmptyInv /\ Placed
  BY DEF OwnInv
<1>1. /\ Status' = Complete(Elements(TxQueue), "A_ECANCELED")
      /\ TxQueue' = <<>>
      /\ UNCHANGED <<TxLookupQueue, pc, pCallersSendQueue, sendQueue, netbuf,
                     hif, hifCompletions, lookupQueue, pFoundPacket>>
  BY DEF HTCFlushEndpointTX, threadVars, busVars, searchVars
<1>2. QueueTypes'
  <2>1. Status' \in [Packets -> {"unsent", "pending", "A_OK", "A_ECANCELED",
                                "A_NO_RESOURCE"}]
    BY <1>0, <1>1 DEF QueueTypes, Complete
  <2> QED
    BY <1>0, <1>1, <2>1, EmptySeq DEF QueueTypes
<1>3. DistinctInv' /\ BusInv' /\ EmptyInv'
  BY <1>0, <1>1, ElementsEmpty DEF DistinctInv, BusInv, EmptyInv, Transfers, Found
<1>4. Placed'
  <2>1. UNCHANGED <<Callers, Locals, Transfers>>
    BY <1>1 DEF Callers, Locals, Transfers, Found
  <2>2. Pending' = Pending \ Elements(TxQueue) /\ Elements(TxQueue') = {}
    BY <1>0, <1>1, ElementsEmpty DEF Pending, Complete, QueueTypes
  <2>3. Places({}, Callers, Locals, Transfers, Pending \ Elements(TxQueue))
    BY <1>0, PlaceFlush DEF Placed
  <2> QED
    BY <2>1, <2>2, <2>3 DEF Placed
<1> QED
  BY <1>2, <1>3, <1>4 DEF OwnInv

(* The bus completes its oldest transfer.                                  *)
LEMMA OwnBus ==
    ASSUME OwnInv, BusCompletes
    PROVE  OwnInv'
<1> DEFINE x == Head(hif)
<1>0. QueueTypes /\ DistinctInv /\ BusInv /\ EmptyInv /\ Placed
  BY DEF OwnInv
<1>1. /\ x \in Seq(Packets) /\ hif' \in Seq(Seq(Packets)) /\ Distinct(hif')
      /\ Elements(hif) = {x} \cup Elements(hif')
      /\ x \notin Elements(hif')
  BY <1>0, ElementsTail DEF QueueTypes, DistinctInv, BusCompletes
<1>2. x \notin Elements(hifCompletions)
  BY <1>0, <1>1 DEF BusInv, Found
<1>3. /\ hifCompletions' = Append(hifCompletions, x)
      /\ UNCHANGED <<TxQueue, TxLookupQueue, pc, pCallersSendQueue, sendQueue,
                     netbuf, Status, lookupQueue, pFoundPacket>>
  BY DEF BusCompletes, threadVars, searchVars
<1> HIDE DEF x
<1>4. /\ hifCompletions' \in Seq(Seq(Packets)) /\ Distinct(hifCompletions')
      /\ Elements(hifCompletions') = Elements(hifCompletions) \cup {x}
  BY <1>0, <1>1, <1>2, <1>3, ElementsAppend DEF QueueTypes, DistinctInv
<1>5. QueueTypes' /\ EmptyInv'
  BY <1>0, <1>1, <1>3, <1>4 DEF QueueTypes, EmptyInv
<1>6. DistinctInv'
  BY <1>0, <1>1, <1>3, <1>4 DEF DistinctInv, Transfers, Found
<1>7. BusInv'
  <2>1. Transfers' = Transfers
    BY <1>3 DEF Transfers, Found
  <2> QED
    BY <1>0, <1>1, <1>3, <1>4, <2>1 DEF BusInv, Found
<1>8. Placed'
  BY <1>0, <1>3 DEF Placed, Callers, Locals, Transfers, Found, Pending
<1> QED
  BY <1>5, <1>6, <1>7, <1>8 DEF OwnInv

(* HTCSendDataPkt's refused packet and the rest of its packets go back to  *)
(* the head of TxQueue at once.                                            *)
LEMMA OwnDataFail ==
    ASSUME OwnInv, NEW t \in Threads, pc[t] \in SendPcs,
           NEW v \in AllPcs \ (SendPcs \cup HasCallers),
           TxLookupQueue' = HTC_PACKET_REMOVE(TxLookupQueue, netbuf[t]),
           lookupQueue' = HTC_PACKET_REMOVE(lookupQueue, netbuf[t]),
           TxQueue' = (netbuf[t] \o sendQueue[t]) \o TxQueue,
           sendQueue' = [sendQueue EXCEPT ![t] = <<>>],
           netbuf' = [netbuf EXCEPT ![t] = <<>>],
           pc' = [pc EXCEPT ![t] = v],
           UNCHANGED <<pCallersSendQueue, Status, hif, hifCompletions,
                       pFoundPacket>>
    PROVE  OwnInv'
<1> DEFINE x == netbuf[t]
           s == sendQueue[t]
           n == x \o s
           E == [Locals EXCEPT ![t] = Locals[t] \cup Elements(x)]
<1>0. QueueTypes /\ DistinctInv /\ BusInv /\ EmptyInv /\ Placed
  BY DEF OwnInv
<1>1. /\ x \in Seq(Packets) /\ x \in Transfers /\ Distinct(x)
      /\ x \notin Elements(hif) /\ x \notin Elements(hifCompletions)
  BY <1>0 DEF QueueTypes, BusInv, Found, DistinctInv
<1>2. s \in Seq(Packets) /\ Distinct(s) /\ Locals[t] = Elements(s)
  BY <1>0 DEF QueueTypes, DistinctInv, Locals
<1>3. ASSUME NEW u \in Threads, u # t, pc[u] \in SendPcs PROVE netbuf[u] # x
  BY <1>0, <1>3 DEF BusInv, Found
<1>4. /\ TxLookupQueue' = HTC_PACKET_REMOVE(TxLookupQueue, x)
      /\ lookupQueue' = HTC_PACKET_REMOVE(lookupQueue, x)
      /\ TxQueue' = n \o TxQueue
  OBVIOUS
<1> HIDE DEF x, s
<1>5. Elements(x) \cap Elements(s) = {}
  BY <1>0, <1>1, <1>2 DEF Placed, Places
<1>6. /\ n \in Seq(Packets) /\ Distinct(n)
      /\ Elements(n) = Elements(x) \cup Elements(s)
  BY <1>1, <1>2, <1>5, ElementsConcat
<1> HIDE DEF n
<1>7. Elements(n) \cap Elements(TxQueue) = {}
  BY <1>0, <1>1, <1>2, <1>6 DEF Placed, Places
<1>8. /\ TxQueue' \in Seq(Packets) /\ Distinct(TxQueue')
      /\ Elements(TxQueue') = Elements(n) \cup Elements(TxQueue)
  <2>1. TxQueue \in Seq(Packets) /\ Distinct(TxQueue)
    BY <1>0 DEF QueueTypes, DistinctInv
  <2> QED
    BY <1>4, <1>6, <1>7, <2>1, ElementsConcat
<1>9. /\ TxLookupQueue' \in Seq(Seq(Packets)) /\ Distinct(TxLookupQueue')
      /\ lookupQueue' \in Seq(Seq(Packets)) /\ Distinct(lookupQueue')
      /\ pFoundPacket' \in Seq(Packets)
      /\ Elements(TxLookupQueue') \cap Elements(lookupQueue') = {}
      /\ pFoundPacket' \notin Elements(TxLookupQueue')
      /\ pFoundPacket' \notin Elements(lookupQueue')
      /\ Transfers' = Transfers \ {x} /\ Found' = Found
  BY <1>0, <1>1, <1>4, LookupRemoved
<1>10. \A u \in Threads :
         /\ netbuf'[u] = IF u = t THEN <<>> ELSE netbuf[u]
         /\ sendQueue'[u] = IF u = t THEN <<>> ELSE sendQueue[u]
         /\ pc'[u] = IF u = t THEN v ELSE pc[u]
  BY <1>0 DEF QueueTypes
<1>11. v \in AllPcs /\ v \notin SendPcs /\ pc[t] \notin HasCallers
  BY DEF HasCallers, SendPcs
<1>12. QueueTypes'
  BY <1>0, <1>8, <1>9, <1>11, EmptySeq DEF QueueTypes
<1>13. DistinctInv'
  BY <1>0, <1>8, <1>9, <1>10, ElementsEmpty DEF DistinctInv
<1>14. BusInv'
  BY <1>0, <1>1, <1>3, <1>9, <1>10, <1>11 DEF BusInv
<1>15. EmptyInv'
  BY <1>0, <1>10, <1>11 DEF EmptyInv
<1>16. Placed'
  <2>1. \A u \in Threads : E[u] = IF u = t THEN Locals[t] \cup Elements(x)
                                   ELSE Locals[u]
    BY DEF Locals
  <2> HIDE DEF E
  <2>2. Places(Elements(TxQueue), Callers, E, Transfers \ {x}, Pending)
    BY <1>0, <1>1, <2>1, PlaceTakeBack DEF Placed
  <2>3. ASSUME NEW u \in Threads
        PROVE  Locals'[u] = IF u = t THEN {} ELSE E[u]
    <3>1. /\ Locals[u] = Elements(sendQueue[u])
          /\ Locals'[u] = Elements(sendQueue'[u])
      BY DEF Locals
    <3>2. CASE u = t
      BY <1>10, <3>1, <3>2, ElementsEmpty
    <3>3. CASE u # t
      BY <1>10, <2>1, <3>1, <3>3
    <3> QED
      BY <3>2, <3>3
  <2>4. Places(Elements(TxQueue) \cup E[t], Callers, Locals', Transfers \ {x},
               Pending)
    BY <2>2, <2>3, PlaceEnqueue
  <2>5. Elements(TxQueue') = Elements(TxQueue) \cup E[t]
    BY <1>2, <1>6, <1>8, <2>1
  <2>6. UNCHANGED <<Callers, Pending>>
    BY DEF Callers, Pending
  <2> QED
    BY <1>9, <2>4, <2>5, <2>6 DEF Placed
<1> QED
  BY <1>12, <1>13, <1>14, <1>15, <1>16 DEF OwnInv

-----------------------------------------------------------------------------
(* What the places say of the packets and of the transfers.                *)

(* The threads that have a packet in one of their queues.                  *)
LEMMA OwnersCount ==
    ASSUME NEW T, \A t, u \in T : t = u
    PROVE  Cardinality(T) = IF T = {} THEN 0 ELSE 1
<1>1. CASE T = {}
  BY <1>1, FS_EmptySet
<1>2. CASE T # {}
  <2>1. PICK t \in T : TRUE
    BY <1>2
  <2>2. T = {t}
    BY <2>1
  <2> QED
    BY <1>2, <2>2, FS_Singleton
<1> QED
  BY <1>1, <1>2

(* A packet of one of the transfers of a queue occurs once in it.          *)
LEMMA OccurrencesFlat ==
    ASSUME NEW p, NEW q \in Seq(Seq(Packets)), Distinct(q),
           \A x \in Elements(q) : Distinct(x),
           \A x, y \in Elements(q) :
               x # y => Elements(x) \cap Elements(y) = {}
    PROVE  Occurrences(p, Flatten(q))
             = IF \E x \in Elements(q) : p \in Elements(x) THEN 1 ELSE 0
<1> DEFINE f == Flatten(q)
<1>1. /\ f \in Seq(Packets) /\ Distinct(f)
      /\ Elements(f) = UNION {Elements(x) : x \in Elements(q)}
  BY FlattenElements, FlattenType
<1> HIDE DEF f
<1>2. Occurrences(p, f) = IF p \in Elements(f) THEN 1 ELSE 0
  BY <1>1, OccurrencesOnce
<1>3. p \in Elements(f) <=> \E x \in Elements(q) : p \in Elements(x)
  BY <1>1
<1> QED
  BY <1>2, <1>3 DEF f

LEMMA OwnedOnce ==
    ASSUME OwnInv
    PROVE  PacketOwnership
<1>0. QueueTypes /\ DistinctInv /\ Placed
  BY DEF OwnInv
<1> SUFFICES ASSUME NEW p \in Packets
             PROVE  LET inThread(t) == Occurrences(p, pCallersSendQueue[t])
                                       + Occurrences(p, sendQueue[t])
                        owners == {t \in Threads : inThread(t) > 0}
                        places == Occurrences(p, TxQueue)
                                  + Occurrences(p, Flatten(TxLookupQueue))
                                  + Occurrences(p, Flatten(lookupQueue))
                                  + Occurrences(p, pFoundPacket)
                                  + Cardinality(owners)
                    IN  /\ \A t \in owners : inThread(t) = 1
                        /\ places = IF Status[p] = "pending" THEN 1 ELSE 0
  BY DEF PacketOwnership
<1> DEFINE inThread(t) == Occurrences(p, pCallersSendQueue[t])
                          + Occurrences(p, sendQueue[t])
           owners == {t \in Threads : inThread(t) > 0}
<1>1. ASSUME NEW t \in Threads
      PROVE  inThread(t) = IF p \in Callers[t] \/ p \in Locals[t] THEN 1 ELSE 0
  <2> DEFINE c == pCallersSendQueue[t]
             s == sendQueue[t]
  <2>1. /\ c \in Seq(Packets) /\ s \in Seq(Packets)
        /\ Distinct(c) /\ Distinct(s)
    BY <1>0 DEF QueueTypes, DistinctInv
  <2>2. Callers[t] = Elements(c) /\ Locals[t] = Elements(s)
    BY DEF Callers, Locals
  <2>3. Elements(c) \cap Elements(s) = {}
    BY <1>0, <2>2 DEF Placed, Places
  <2> HIDE DEF c, s
  <2>4. /\ Occurrences(p, c) = IF p \in Elements(c) THEN 1 ELSE 0
        /\ Occurrences(p, s) = IF p \in Elements(s) THEN 1 ELSE 0
    BY <2>1, OccurrencesOnce
  <2>5. inThread(t) = Occurrences(p, c) + Occurrences(p, s)
    BY DEF c, s
  <2> HIDE DEF inThread
  <2> QED
    BY <2>2, <2>3, <2>4, <2>5
<1> HIDE DEF inThread
<1>2. owners = {t \in Threads : p \in Callers[t] \/ p \in Locals[t]}
  BY <1>1
<1>3. \A t, u \in owners : t = u
  BY <1>0, <1>2 DEF Placed, Places
<1>4. \A t \in owners : inThread(t) = 1
  BY <1>1, <1>2
<1> HIDE DEF owners
<1>5. Cardinality(owners) = IF owners = {} THEN 0 ELSE 1
  BY <1>3, OwnersCount
<1>6. Occurrences(p, TxQueue) = IF p \in Elements(TxQueue) THEN 1 ELSE 0
  BY <1>0, OccurrencesOnce DEF QueueTypes, DistinctInv
<1> DEFINE q == TxLookupQueue
           l == lookupQueue
           f == pFoundPacket
           In(X) == \E x \in X : p \in Elements(x)
           Lookups == Occurrences(p, Flatten(q)) + Occurrences(p, Flatten(l))
                      + Occurrences(p, f)
<1>7. Lookups = IF \E x \in Transfers : p \in Elements(x) THEN 1 ELSE 0
  <2>1. /\ q \in Seq(Seq(Packets)) /\ Distinct(q)
        /\ l \in Seq(Seq(Packets)) /\ Distinct(l)
        /\ f \in Seq(Packets) /\ Elements(q) \cap Elements(l) = {}
        /\ f \notin Elements(q) /\ f \notin Elements(l)
    BY <1>0 DEF QueueTypes, DistinctInv
  <2>2. /\ \A x \in Transfers : Distinct(x)
        /\ \A x, y \in Transfers : x # y => Elements(x) \cap Elements(y) = {}
    BY <1>0 DEF DistinctInv, Placed, Places
  <2>3. /\ Transfers = Elements(q) \cup Elements(l) \cup Found
        /\ Found = IF f = <<>> THEN {} ELSE {f}
    BY DEF Transfers, Found
  <2> HIDE DEF q, l, f
  <2>4. Occurrences(p, Flatten(q)) = IF In(Elements(q)) THEN 1 ELSE 0
    BY <2>1, <2>2, <2>3, OccurrencesFlat
  <2>5. Occurrences(p, Flatten(l)) = IF In(Elements(l)) THEN 1 ELSE 0
    BY <2>1, <2>2, <2>3, OccurrencesFlat
  <2>6. Occurrences(p, f) = IF In(Found) THEN 1 ELSE 0
    <3>1. Distinct(f) /\ (f = <<>> => Elements(f) = {})
      BY <2>2, <2>3, ElementsEmpty
    <3>2. Occurrences(p, f) = IF p \in Elements(f) THEN 1 ELSE 0
      BY <2>1, <3>1, OccurrencesOnce
    <3>3. In(Found) <=> p \in Elements(f)
      BY <2>3, <3>1
    <3> QED
      BY <3>2, <3>3
  <2>7. /\ ~(In(Elements(q)) /\ In(Elements(l)))
        /\ ~(In(Elements(q)) /\ In(Found))
        /\ ~(In(Elements(l)) /\ In(Found))
    BY <2>1, <2>2, <2>3
  <2>8. (\E x \in Transfers : p \in Elements(x))
          <=> In(Elements(q)) \/ In(Elements(l)) \/ In(Found)
    BY <2>3
  <2> HIDE DEF In
  <2> QED
    BY <2>4, <2>5, <2>6, <2>7, <2>8
<1> HIDE DEF Lookups
<1>8. Status[p] = "pending" <=> \/ p \in Elements(TxQueue)
                                \/ owners # {}
                                \/ \E x \in Transfers : p \in Elements(x)
  <2>1. Status[p] = "pending" <=> p \in Pending
    BY DEF Pending
  <2>2. p \in Pending <=>
            \/ p \in Elements(TxQueue)
            \/ \E t \in Threads : p \in Callers[t] \/ p \in Locals[t]
            \/ \E x \in Transfers : p \in Elements(x)
    <3>1. Places(Elements(TxQueue), Callers, Locals, Transfers, Pending)
      BY <1>0 DEF Placed
    <3> QED
      BY <3>1, PlacePending
  <2>3. owners # {}
          <=> \E t \in Threads : p \in Callers[t] \/ p \in Locals[t]
    BY <1>2
  <2> QED
    BY <2>1, <2>2, <2>3
<1>9. /\ p \in Elements(TxQueue) =>
            owners = {} /\ ~\E x \in Transfers : p \in Elements(x)
      /\ owners # {} => ~\E x \in Transfers : p \in Elements(x)
  BY <1>0, <1>2 DEF Placed, Places
<1>10. Occurrences(p, TxQueue) + Lookups + Cardinality(owners)
         = IF Status[p] = "pending" THEN 1 ELSE 0
  BY <1>5, <1>6, <1>7, <1>8, <1>9
<1>11. /\ Occurrences(p, Flatten(TxLookupQueue)) \in Int
       /\ Occurrences(p, Flatten(lookupQueue)) \in Int
       /\ Occurrences(p, pFoundPacket) \in Int
       /\ Occurrences(p, TxQueue) \in Int /\ Cardinality(owners) \in Int
  <2>1. Cardinality(owners) \in Int /\ Occurrences(p, TxQueue) \in Int
    BY <1>5, <1>6
  <2>2. /\ QueueTypes /\ DistinctInv
        /\ \A x, y \in Transfers : x # y => Elements(x) \cap Elements(y) = {}
        /\ Elements(TxLookupQueue) \subseteq Transfers
        /\ Elements(lookupQueue) \subseteq Transfers
        /\ pFoundPacket # <<>> => pFoundPacket \in Transfers
    BY <1>0 DEF Placed, Places, Transfers, Found
  <2>3. Occurrences(p, Flatten(TxLookupQueue)) \in Int
    <3>1. Occurrences(p, Flatten(TxLookupQueue)) \in {0, 1}
      BY <2>2, OccurrencesFlat DEF QueueTypes, DistinctInv
    <3> QED
      BY <3>1
  <2>4. Occurrences(p, Flatten(lookupQueue)) \in Int
    <3>1. Occurrences(p, Flatten(lookupQueue)) \in {0, 1}
      BY <2>2, OccurrencesFlat DEF QueueTypes, DistinctInv
    <3> QED
      BY <3>1
  <2>5. Occurrences(p, pFoundPacket) \in Int
    <3>1. pFoundPacket \in Seq(Packets) /\ Distinct(pFoundPacket)
      BY <2>2, ElementsEmpty DEF QueueTypes, DistinctInv
    <3>2. Occurrences(p, pFoundPacket) \in {0, 1}
      BY <3>1, OccurrencesOnce
    <3> QED
      BY <3>2
  <2> QED
    BY <2>1, <2>3, <2>4, <2>5
<1>12. Occurrences(p, TxQueue) + Occurrences(p, Flatten(TxLookupQueue))
         + Occurrences(p, Flatten(lookupQueue)) + Occurrences(p, pFoundPacket)
         + Cardinality(owners) = IF Status[p] = "pending" THEN 1 ELSE 0
  BY <1>10, <1>11 DEF Lookups
<1> QED
  BY <1>4, <1>12 DEF owners, inThread

(* What a search has before it, it finds.                                  *)
LEMMA LookupFinds ==
    ASSUME OwnInv, LookupInv
    PROVE  CompletionsAreFound
<1>1. /\ hif \in Seq(Seq(Packets)) /\ hifCompletions \in Seq(Seq(Packets))
      /\ Elements(hif) \subseteq Transfers
      /\ Elements(hifCompletions) \subseteq Transfers
  BY DEF OwnInv, QueueTypes, BusInv
<1>2. Elements(hif \o hifCompletions) \subseteq Transfers
  BY <1>1, ElementsConcat
<1>3. Transfers \subseteq Elements(TxLookupQueue) \cup Elements(lookupQueue)
                           \cup {pFoundPacket}
  BY DEF Transfers, Found
<1>4. pc[CompThread] = "putBack" => pFoundPacket # <<>>
  BY TransfersKnown DEF LookupInv, LookupPcs
<1> QED
  BY <1>2, <1>3, <1>4 DEF CompletionsAreFound

-----------------------------------------------------------------------------
(* The search goes on unharmed.                                            *)

(* DL_ListRemove keeps the other members in their order.                   *)
LEMMA ReachesRemoved ==
    ASSUME NEW S, NEW q \in Seq(S), NEW x, NEW y, NEW w, x # y, w # y,
           Reaches(q, x, w)
    PROVE  Reaches(HTC_PACKET_REMOVE(q, y), x, w)
<1>1. CASE y \notin Elements(q)
  BY <1>1 DEF HTC_PACKET_REMOVE, DL_ListRemove
<1>2. CASE y \in Elements(q)
  <2> DEFINE i == CHOOSE j \in 1..Len(q) : q[j] = y
             f == SubSeq(q, 1, i - 1)
             r == SubSeq(q, i + 1, Len(q))
             n == Len(q)
  <2>1. i \in 1..n /\ q[i] = y /\ n \in Nat
    BY <1>2, LenProperties DEF Elements
  <2>2. HTC_PACKET_REMOVE(q, y) = f \o r
    BY <1>2 DEF HTC_PACKET_REMOVE, DL_ListRemove
  <2> HIDE DEF i
  <2>3. \A j \in 1..n : q[j] \in S
    BY ElementOfSeq
  <2>4. /\ f \in Seq(S) /\ Len(f) = i - 1
        /\ \A k \in 1..(i - 1) : f[k] = q[k]
    BY <2>1, <2>3
  <2>5. /\ r \in Seq(S) /\ Len(r) = n - i
        /\ \A k \in 1..(n - i) : r[k] = q[i + k]
    BY <2>1, <2>3
  <2> DEFINE c == f \o r
             at(k) == IF k < i THEN k ELSE k - 1
  <2> HIDE DEF f, r
  <2>6. Len(c) = n - 1
    <3>1. Len(c) = Len(f) + Len(r)
      BY <2>4, <2>5, ConcatProperties
    <3> QED
      BY <2>1, <2>4, <2>5, <3>1
  <2>7. ASSUME NEW k \in 1..n, k # i
        PROVE  at(k) \in 1..Len(c) /\ c[at(k)] = q[k]
    <3>1. CASE k < i
      <4>1. at(k) = k /\ k \in 1..Len(f)
        BY <2>1, <2>4, <3>1
      <4>2. c[k] = f[k]
        BY <2>4, <2>5, <4>1
      <4> QED
        BY <2>1, <2>4, <2>6, <3>1, <4>1, <4>2
    <3>2. CASE k > i
      <4> DEFINE m == k - i
      <4>1. at(k) = Len(f) + m /\ m \in 1..Len(r) /\ i + m = k
        BY <2>1, <2>4, <2>5, <3>2
      <4>2. c[Len(f) + m] = r[m] /\ Len(f) + m \in 1..Len(c)
        BY <2>1, <2>4, <2>5, <2>6, <4>1
      <4> HIDE DEF at, m, c
      <4>3. r[m] = q[i + m]
        BY <2>5, <4>1
      <4> QED
        BY <4>1, <4>2, <4>3
    <3> QED
      BY <2>1, <2>7, <3>1, <3>2
  <2>8. PICK a \in 1..n, b \in 1..n : a <= b /\ q[a] = x /\ q[b] = w
    BY DEF Reaches
  <2>9. a # i /\ b # i
    BY <2>1, <2>8
  <2>10. at(a) <= at(b)
    BY <2>1, <2>8, <2>9
  <2>11. /\ at(a) \in 1..Len(c) /\ c[at(a)] = x
         /\ at(b) \in 1..Len(c) /\ c[at(b)] = w
    BY <2>7, <2>8, <2>9
  <2> HIDE DEF at, c
  <2>12. Reaches(c, x, w)
    BY <2>10, <2>11 DEF Reaches
  <2> QED
    BY <2>2, <2>12 DEF c
<1> QED
  BY <1>1, <1>2

(* Nothing that concerns the search.                                       *)
LEMMA LookupKept ==
    ASSUME LookupInv, UNCHANGED searchVars,
           hifCompletions # <<>> =>
               hifCompletions' # <<>> /\ Completed' = Completed,
           \/ pc'[CompThread] = pc[CompThread]
           \/ /\ pc[CompThread] \notin LookupPcs
              /\ pc'[CompThread] \notin LookupPcs
    PROVE  LookupInv'
<1>1. CASE pc'[CompThread] = pc[CompThread]
  BY <1>1 DEF LookupInv, searchVars, LookupPcs
<1>2. CASE /\ pc[CompThread] \notin LookupPcs
           /\ pc'[CompThread] \notin LookupPcs
  BY <1>2 DEF LookupInv, searchVars, LookupPcs
<1> QED
  BY <1>1, <1>2

(* HIF refuses a transfer: it is not the one that is looked for, and it    *)
(* derails the search if it is the one the search goes on with.            *)
LEMMA LookupRefused ==
    ASSUME OwnInv, LookupInv, NEW t \in Threads, pc[t] \in SendPcs,
           NEW v \in AllPcs \ LookupPcs, pc' = [pc EXCEPT ![t] = v],
           RemoveRefused(netbuf[t])
    PROVE  LookupInv'
<1> DEFINE x == netbuf[t]
<1>1. /\ lookupQueue' = HTC_PACKET_REMOVE(lookupQueue, x)
      /\ derailed' = (derailed \/ Derails(x))
      /\ UNCHANGED <<pTemp, pFoundPacket, hifCompletions>>
      /\ Completed' = Completed
  BY DEF RemoveRefused, Completed
<1>2. /\ lookupQueue \in Seq(Seq(Packets)) /\ Distinct(lookupQueue)
      /\ x \notin Elements(hifCompletions)
  BY DEF OwnInv, QueueTypes, DistinctInv, BusInv
<1>3. CompThread \in Threads
      /\ pc'[CompThread] = IF t = CompThread THEN v ELSE pc[CompThread]
  BY DEF OwnInv, QueueTypes, Threads
<1>4. pc[t] \notin LookupPcs
  BY DEF LookupPcs, SendPcs
<1> HIDE DEF x
<1>5. Elements(lookupQueue') = Elements(lookupQueue) \ {x}
  BY <1>1, <1>2, PacketRemoved
<1>6. CASE t = CompThread
  <2>1. lookupQueue = <<>> /\ pFoundPacket = <<>>
        /\ pc'[CompThread] \notin LookupPcs
    BY <1>3, <1>4, <1>6 DEF LookupInv, LookupPcs
  <2>2. lookupQueue' = <<>>
    BY <1>1, <2>1, ElementsEmpty DEF HTC_PACKET_REMOVE, DL_ListRemove
  <2> QED
    BY <1>1, <2>1, <2>2 DEF LookupInv, LookupPcs
<1>7. CASE t # CompThread
  <2>1. pc'[CompThread] = pc[CompThread]
    BY <1>3, <1>7
  <2>2. ASSUME pc[CompThread] \in {"first", "search", "unlink"}
        PROVE  Completed \in Elements(lookupQueue') /\ x # Completed
    <3>1. hifCompletions # <<>> /\ Completed \in Elements(lookupQueue)
      BY <2>2 DEF LookupInv, LookupPcs
    <3> QED
      BY <1>2, <1>5, <3>1, TransfersKnown
  <2>3. ASSUME pc[CompThread] = "search", ~derailed'
        PROVE  Reaches(lookupQueue', pTemp, Completed)
    <3>1. ~derailed /\ x # pTemp
      BY <1>1, <2>3 DEF Derails
    <3>2. Reaches(lookupQueue, pTemp, Completed)
      BY <2>3, <3>1 DEF LookupInv
    <3> QED
      BY <1>1, <1>2, <2>2, <2>3, <3>1, <3>2, ReachesRemoved
  <2>4. pc[CompThread] \notin LookupPcs => lookupQueue' = <<>>
    <3>1. HTC_PACKET_REMOVE(<<>>, x) = <<>>
      BY ElementsEmpty DEF HTC_PACKET_REMOVE, DL_ListRemove
    <3> QED
      BY <1>1, <3>1 DEF LookupInv
  <2> QED
    BY <1>1, <2>1, <2>2, <2>3, <2>4 DEF LookupInv
<1> QED
  BY <1>6, <1>7

(* Where a thread of either function goes, it is not the search.           *)
LEMMA ThreadPc ==
    ASSUME NEW t \in Threads, pc \in [Threads -> AllPcs],
           ThreadStep(t) \/ DataThreadStep(t)
    PROVE  /\ pc[t] \notin LookupPcs
           /\ \E v \in AllPcs \ LookupPcs : pc' = [pc EXCEPT ![t] = v]
<1> USE DEF LookupPcs, AllPcs, PcValues
<1>1. CASE GetHTCSendPacketsCreditBased(t) \/ GetHTCSendPackets(t)
  <2>1. pc[t] = "get" /\ pc' = pc
    BY <1>1 DEF GetHTCSendPacketsCreditBased, GetHTCSendPackets, CanGet
  <2>2. pc' = [pc EXCEPT ![t] = "get"]
    BY <2>1
  <2> QED
    BY <2>1, <2>2
<1>2. CASE HTCIssuePacketsBundle(t) \/ IssueSingle(t)
  <2>1. PICK v \in {"hifSend", "hifSendBundle"} : pc' = [pc EXCEPT ![t] = v]
    BY <1>2 DEF HTCIssuePacketsBundle, IssueSingle, StartTransfer
  <2>2. pc[t] \in {"issue", "single"}
    BY <1>2 DEF HTCIssuePacketsBundle, IssueSingle
  <2> QED
    BY <2>1, <2>2
<1>3. CASE CheckOverflow(t)
  BY <1>3 DEF CheckOverflow, TrySendPc
<1>4. CASE EnterTrySend(t)
  BY <1>4 DEF EnterTrySend
<1>5. CASE EndGet(t)
  BY <1>5 DEF EndGet
<1>6. CASE RejectPacket(t) \/ ReadResources(t) \/ Requeue(t) \/ Reread(t)
           \/ Relock(t)
  BY <1>6 DEF RejectPacket, ReadResources, Requeue, Reread, Relock
<1>7. CASE HIFSendOk(t) \/ HIFSendFails(t) \/ HTCSendBundledNetbufFails(t)
  BY <1>7 DEF HIFSendOk, HIFSendFails, HTCSendBundledNetbufFails
<1>8. CASE EnterDataPkt(t) \/ ReadCount(t)
  BY <1>8 DEF EnterDataPkt, ReadCount
<1>9. CASE IncrementCount(t) \/ DecrementCount(t) \/ EndDataGet(t)
           \/ DataSendFails(t) \/ DataSent(t) \/ ClearCount(t)
  BY <1>9 DEF IncrementCount, DecrementCount, EndDataGet, DataSendFails,
              DataSent, ClearCount, AfterSendFailure
<1> QED
  BY <1>1, <1>2, <1>3, <1>4, <1>5, <1>6, <1>7, <1>8, <1>9
     DEF ThreadStep, DataThreadStep, SharedStep, TrySendStep

LEMMA LookupThread ==
    ASSUME OwnInv, LookupInv, NEW t \in Threads,
           ThreadStep(t) \/ DataThreadStep(t)
    PROVE  LookupInv'
<1>1. pc[t] \notin LookupPcs /\ pc \in [Threads -> AllPcs]
  BY ThreadPc DEF OwnInv, QueueTypes
<1>2. PICK v \in AllPcs \ LookupPcs : pc' = [pc EXCEPT ![t] = v]
  BY <1>1, ThreadPc
<1>3. CASE HIFSendFails(t) \/ HTCSendBundledNetbufFails(t)
           \/ DataSendFails(t)
  <2>1. pc[t] \in SendPcs /\ RemoveRefused(netbuf[t])
    BY <1>3 DEF HIFSendFails, HTCSendBundledNetbufFails, DataSendFails,
                SendPcs
  <2> QED
    BY <1>2, <2>1, LookupRefused
<1>4. CASE ~(HIFSendFails(t) \/ HTCSendBundledNetbufFails(t)
             \/ DataSendFails(t))
  <2>1. UNCHANGED searchVars /\ UNCHANGED hifCompletions
    <3> USE DEF busVars
    <3>1. CASE CheckOverflow(t) \/ RejectPacket(t) \/ ReadResources(t)
               \/ EnterTrySend(t) \/ EndGet(t)
      BY <3>1 DEF CheckOverflow, RejectPacket, ReadResources, EnterTrySend,
                  EndGet
    <3>2. CASE GetHTCSendPacketsCreditBased(t) \/ GetHTCSendPackets(t)
      BY <3>2 DEF GetHTCSendPacketsCreditBased, GetHTCSendPackets
    <3>3. CASE HTCIssuePacketsBundle(t) \/ IssueSingle(t)
      BY <3>3 DEF HTCIssuePacketsBundle, IssueSingle, StartTransfer
    <3>4. CASE HIFSendOk(t) \/ Requeue(t) \/ Reread(t) \/ Relock(t)
      BY <3>4 DEF HIFSendOk, Requeue, Reread, Relock
    <3>5. CASE EnterDataPkt(t) \/ IncrementCount(t) \/ ReadCount(t)
               \/ DecrementCount(t)
      BY <3>5 DEF EnterDataPkt, IncrementCount, ReadCount, DecrementCount
    <3>6. CASE EndDataGet(t) \/ DataSent(t) \/ ClearCount(t)
      BY <3>6 DEF EndDataGet, DataSent, ClearCount
    <3> QED
      BY <1>4, <3>1, <3>2, <3>3, <3>4, <3>5, <3>6
         DEF ThreadStep, DataThreadStep, SharedStep, TrySendStep
  <2>2. Completed' = Completed
    BY <2>1 DEF Completed
  <2>3. \/ pc'[CompThread] = pc[CompThread]
        \/ /\ pc[CompThread] \notin LookupPcs
           /\ pc'[CompThread] \notin LookupPcs
    BY <1>1, <1>2 DEF Threads
  <2> QED
    BY <2>1, <2>2, <2>3, LookupKept
<1> QED
  BY <1>3, <1>4

(* What the other contexts do: submit, report, flush, and the bus.         *)
LEMMA LookupOther ==
    ASSUME OwnInv, LookupInv,
           \/ \E t \in Senders, p \in Packets :
                 HTCSendPkt(t, p) \/ \E m \in MoreData : HTCSendDataPkt(t, p, m)
           \/ CreditReport \/ HTCFlushEndpointTX \/ BusCompletes
           \/ Quiescent \/ UNCHANGED vars
    PROVE  LookupInv'
<1>0. /\ pc \in [Threads -> AllPcs] /\ CompThread \in Threads
      /\ CompThread \notin Senders /\ CompThread # RxThread
      /\ hifCompletions \in Seq(Seq(Packets)) /\ hif \in Seq(Seq(Packets))
  BY ThreadAssumption DEF OwnInv, QueueTypes, Threads
<1>1. CASE BusCompletes
  <2>1. /\ UNCHANGED searchVars /\ UNCHANGED pc
        /\ hifCompletions' = Append(hifCompletions, Head(hif)) /\ hif # <<>>
    BY <1>1 DEF BusCompletes, threadVars
  <2>2. Head(hif) \in Seq(Packets)
    BY <1>0, <2>1, ElementsTail
  <2>3. hifCompletions # <<>> => hifCompletions' # <<>>
                                 /\ Head(hifCompletions') = Head(hifCompletions)
    <3> DEFINE h == hifCompletions
               x == Head(hif)
    <3>1. h \in Seq(Seq(Packets)) /\ x \in Seq(Packets)
          /\ h' = Append(h, x)
      BY <1>0, <2>1, <2>2
    <3> HIDE DEF h, x
    <3>2. ASSUME h # <<>>
          PROVE  Append(h, x) # <<>> /\ Head(Append(h, x)) = Head(h)
      BY <3>1, <3>2
    <3> QED
      BY <3>1, <3>2 DEF h
  <2> QED
    BY <2>1, <2>3, LookupKept DEF Completed
<1>2. CASE CreditReport
  <2>1. PICK n \in 1..TotalCredits : HTCProcessCreditRpt(n)
    BY <1>2 DEF CreditReport
  <2>2. UNCHANGED searchVars /\ UNCHANGED hifCompletions
        /\ pc'[CompThread] = pc[CompThread]
    BY <1>0, <2>1 DEF HTCProcessCreditRpt
  <2> QED
    BY <2>2, LookupKept DEF Completed
<1>3. CASE HTCFlushEndpointTX \/ Quiescent \/ UNCHANGED vars
  <2>1. UNCHANGED searchVars /\ UNCHANGED hifCompletions /\ UNCHANGED pc
    BY <1>3 DEF HTCFlushEndpointTX, Quiescent, vars, busVars, threadVars,
                searchVars
  <2> QED
    BY <2>1, LookupKept DEF Completed
<1>4. CASE \E t \in Senders, p \in Packets :
              HTCSendPkt(t, p) \/ \E m \in MoreData : HTCSendDataPkt(t, p, m)
  <2>1. UNCHANGED searchVars /\ UNCHANGED hifCompletions
        /\ pc'[CompThread] = pc[CompThread]
    BY <1>0, <1>4 DEF HTCSendPkt, HTCSendDataPkt, busVars
  <2> QED
    BY <2>1, LookupKept DEF Completed
<1> QED
  BY <1>1, <1>2, <1>3, <1>4

(* The completion context itself.                                          *)
LEMMA LookupSearch ==
    ASSUME OwnInv, LookupInv, HTCTxCompletionHandler \/ LookupStep
    PROVE  LookupInv'
<1>0. /\ \A v : pc' = [pc EXCEPT ![CompThread] = v] => pc'[CompThread] = v
      /\ lookupQueue \in Seq(Seq(Packets))
      /\ TxLookupQueue \in Seq(Seq(Packets))
      /\ AfterCompletionPc \in {"idle", "resources"}
  BY DEF OwnInv, QueueTypes, Threads, AfterCompletionPc
<1> USE DEF LookupPcs
<1>1. CASE HTCTxCompletionHandler
  <2>1. /\ pc[CompThread] = "idle" /\ pc'[CompThread] = AfterCompletionPc
        /\ UNCHANGED <<lookupQueue, pFoundPacket>>
    BY <1>0, <1>1 DEF HTCTxCompletionHandler, searchVars
  <2> QED
    BY <1>0, <2>1 DEF LookupInv
<1>2. CASE HTCLookupTxPacket
  <2>1. /\ pc[CompThread] = "idle" /\ pc'[CompThread] = "first"
        /\ lookupQueue' = TxLookupQueue /\ hifCompletions # <<>>
        /\ UNCHANGED <<pFoundPacket, hifCompletions>>
    BY <1>0, <1>2 DEF HTCLookupTxPacket
  <2>2. Completed \in Elements(TxLookupQueue) /\ pFoundPacket = <<>>
    BY <2>1, NoSearch, TransfersKnown
  <2>3. Completed' = Completed
    BY <2>1 DEF Completed
  <2> QED
    BY <2>1, <2>2, <2>3 DEF LookupInv
<1>3. CASE SearchFirst
  <2>1. /\ pc[CompThread] = "first" /\ pc'[CompThread] = "search"
        /\ pTemp' = IF lookupQueue = <<>> THEN <<>> ELSE Head(lookupQueue)
        /\ UNCHANGED <<lookupQueue, pFoundPacket, hifCompletions, derailed>>
        /\ Completed' = Completed
    BY <1>0, <1>3 DEF SearchFirst, searchFrame, Completed
  <2>2. Completed \in Elements(lookupQueue)
    BY <2>1 DEF LookupInv
  <2>3. PICK j \in 1..Len(lookupQueue) : lookupQueue[j] = Completed
    BY <2>2 DEF Elements
  <2>4. pTemp' = lookupQueue[1] /\ 1 \in 1..Len(lookupQueue) /\ 1 <= j
    BY <1>0, <2>1, <2>2, <2>3, ElementsEmpty
  <2>5. Reaches(lookupQueue, pTemp', Completed)
    BY <2>3, <2>4 DEF Reaches
  <2> QED
    BY <2>1, <2>2, <2>5 DEF LookupInv
<1>4. CASE SearchNext
  <2> DEFINE l == lookupQueue
  <2>1. /\ pc[CompThread] = "search" /\ ~derailed
        /\ UNCHANGED <<lookupQueue, pFoundPacket, hifCompletions, derailed>>
        /\ Completed' = Completed
    BY <1>4 DEF SearchNext, searchFrame, Completed
  <2>2. /\ Reaches(l, pTemp, Completed) /\ Completed \in Elements(l)
        /\ hifCompletions # <<>> /\ pFoundPacket = <<>>
    BY <2>1 DEF LookupInv
  <2>3. PICK a \in 1..Len(l), b \in 1..Len(l) :
           a <= b /\ l[a] = pTemp /\ l[b] = Completed
    BY <2>2 DEF Reaches
  <2>4. pTemp # <<>> /\ Distinct(l)
    <3>1. pTemp \in Transfers /\ Distinct(l)
      BY <2>3 DEF Transfers, Elements, OwnInv, DistinctInv
    <3> QED
      BY <3>1 DEF OwnInv, DistinctInv
  <2>5. /\ pTemp' = Following(l, pTemp)
        /\ pc'[CompThread] = IF pTemp = Completed THEN "unlink" ELSE "search"
    BY <1>0, <1>4, <2>4 DEF SearchNext
  <2>6. CASE pTemp = Completed
    BY <2>1, <2>2, <2>5, <2>6 DEF LookupInv
  <2>7. CASE pTemp # Completed
    <3>1. (CHOOSE j \in 1..Len(l) : l[j] = pTemp) = a
      BY <2>3, <2>4 DEF Distinct
    <3>2. Len(l) \in Nat /\ a # b
      BY <1>0, <2>3, <2>7, LenProperties
    <3>3. a + 1 \in 1..Len(l) /\ a # Len(l) /\ a + 1 <= b
      BY <2>3, <3>2
    <3>4. pTemp' = l[a + 1]
      BY <2>5, <3>1, <3>3 DEF Following
    <3>5. Reaches(l, pTemp', Completed)
      BY <2>3, <3>3, <3>4 DEF Reaches
    <3> QED
      BY <2>1, <2>2, <2>5, <2>7, <3>5 DEF LookupInv
  <2> QED
    BY <2>6, <2>7
<1>5. CASE UnlinkFound
  <2>1. /\ pc[CompThread] = "unlink" /\ pc'[CompThread] = "putBack"
        /\ pFoundPacket' = Completed
        /\ UNCHANGED hifCompletions /\ Completed' = Completed
    BY <1>0, <1>5 DEF UnlinkFound, Completed
  <2>2. hifCompletions # <<>>
    BY <2>1 DEF LookupInv
  <2> QED
    BY <2>1, <2>2 DEF LookupInv
<1>6. CASE EndLookup
  <2>1. /\ pc'[CompThread] = AfterCompletionPc
        /\ lookupQueue' = <<>> /\ pFoundPacket' = <<>>
    BY <1>0, <1>6 DEF EndLookup
  <2> QED
    BY <1>0, <2>1 DEF LookupInv
<1> QED
  BY <1>1, <1>2, <1>3, <1>4, <1>5, <1>6 DEF LookupStep

-----------------------------------------------------------------------------
(* The actions of HtcSend, one by one.                                     *)

LEMMA OwnHTCSendPkt ==
    ASSUME OwnInv, NEW t \in Threads, NEW p \in Packets, HTCSendPkt(t, p)
    PROVE  OwnInv'
<1>1. "depth" \in HasCallers
  BY DEF HasCallers
<1> QED
  BY <1>1, OwnSubmit DEF HTCSendPkt, busVars, searchVars

LEMMA OwnThreadStep ==
    ASSUME OwnInv, NEW t \in Threads, ThreadStep(t)
    PROVE  OwnInv'
<1>0. /\ pc[t] \notin HasCallers => pCallersSendQueue[t] = <<>>
      /\ pc[t] \notin HasLocals => sendQueue[t] = <<>>
      /\ sendQueue[t] \in Seq(Packets) /\ pc[t] \in AllPcs
  BY DEF OwnInv, EmptyInv, QueueTypes
<1>1. CASE CheckOverflow(t)
  <2>1. pc[t] = "depth" /\ UNCHANGED <<TxQueue, TxLookupQueue, netbuf, Status,
                                       hif, hifCompletions, lookupQueue,
                                       pFoundPacket>>
    BY <1>1 DEF CheckOverflow, busVars, searchVars
  <2>2. \/ /\ sendQueue' = [sendQueue EXCEPT ![t] = pCallersSendQueue[t]]
           /\ pCallersSendQueue' = [pCallersSendQueue EXCEPT ![t] = <<>>]
           /\ pc' = [pc EXCEPT ![t] = TrySendPc]
        \/ /\ pc' = [pc EXCEPT ![t] = "reject"]
           /\ UNCHANGED <<sendQueue, pCallersSendQueue>>
    BY <1>1 DEF CheckOverflow
  <2>3. /\ TrySendPc \in HasLocals \ SendPcs /\ "depth" \notin HasLocals
        /\ "reject" \in AllPcs \ SendPcs /\ "reject" \in HasCallers
    BY DEF TrySendPc, HasLocals, HasCallers, AllPcs, PcValues, SendPcs
  <2>4. CASE pc' = [pc EXCEPT ![t] = "reject"]
             /\ UNCHANGED <<sendQueue, pCallersSendQueue>>
    BY <1>0, <2>1, <2>3, <2>4, OwnPc DEF queueVars
  <2> QED
    BY <2>1, <2>2, <2>3, <2>4, OwnAccept
<1>2. CASE RejectPacket(t)
  <2>1. "reject" \in HasCallers
    BY DEF HasCallers
  <2>2. PICK result \in {"A_ECANCELED", "A_NO_RESOURCE"} :
           Status' = Complete(Elements(pCallersSendQueue[t]), result)
    BY <1>2 DEF RejectPacket
  <2> QED
    BY <1>2, <2>1, <2>2, OwnReject DEF RejectPacket, busVars, searchVars
<1>3. CASE ReadResources(t)
  <2>1. /\ "lock" \in AllPcs \ SendPcs /\ "lock" \in HasLocals
        /\ "resources" \notin HasCallers
    BY DEF HasLocals, HasCallers, AllPcs, PcValues, SendPcs
  <2> QED
    BY <1>0, <1>3, <2>1, OwnPc DEF ReadResources, queueVars, busVars, searchVars
<1>4. CASE EnterTrySend(t)
  <2>1. /\ "lock" \notin HasCallers
        /\ "idle" \in AllPcs \ (SendPcs \cup HasCallers)
        /\ "get" \in AllPcs \ (SendPcs \cup HasCallers)
    BY DEF HasCallers, AllPcs, PcValues, SendPcs
  <2>2. PICK v \in {"idle", "get"} : pc' = [pc EXCEPT ![t] = v]
    BY <1>4 DEF EnterTrySend
  <2>3. v \in AllPcs \ (SendPcs \cup HasCallers)
    BY <2>1
  <2>4. /\ pc[t] \notin HasCallers
        /\ TxQueue' = TxQueue \o sendQueue[t]
        /\ sendQueue' = [sendQueue EXCEPT ![t] = <<>>]
        /\ UNCHANGED <<TxLookupQueue, pCallersSendQueue, netbuf, Status, hif,
                       hifCompletions, lookupQueue, pFoundPacket>>
    BY <1>4, <2>1 DEF EnterTrySend, busVars, searchVars, HTC_PACKET_QUEUE_TRANSFER_TO_TAIL
  <2> QED
    BY <2>2, <2>3, <2>4, OwnEnqueue
<1>5. CASE GetHTCSendPacketsCreditBased(t) \/ GetHTCSendPackets(t)
  <2>1. /\ pc[t] = "get" /\ TxQueue # <<>> /\ TxQueue' = Tail(TxQueue)
        /\ sendQueue' = [sendQueue EXCEPT ![t] = Append(@, Head(TxQueue))]
        /\ UNCHANGED <<pc, TxLookupQueue, pCallersSendQueue, netbuf, Status,
                       hif, hifCompletions, lookupQueue, pFoundPacket>>
    BY <1>5 DEF GetHTCSendPacketsCreditBased, GetHTCSendPackets, CanGet,
                HTC_PACKET_ENQUEUE, busVars, searchVars
  <2>2. "get" \in HasLocals
    BY DEF HasLocals, HasCallers, AllPcs, PcValues
  <2> QED
    BY <2>1, <2>2, OwnGet
<1>6. CASE EndGet(t)
  <2>1. /\ "issue" \in AllPcs \ SendPcs /\ "issue" \in HasLocals
        /\ "idle" \in AllPcs \ SendPcs /\ "get" \notin HasCallers
    BY DEF HasLocals, HasCallers, AllPcs, PcValues, SendPcs
  <2>2. pc[t] = "get" /\ UNCHANGED queueVars
    BY <1>6 DEF EndGet, queueVars, busVars, searchVars
  <2>3. CASE sendQueue[t] = <<>> /\ pc' = [pc EXCEPT ![t] = "idle"]
    BY <1>0, <2>1, <2>2, <2>3, OwnPc
  <2>4. CASE pc' = [pc EXCEPT ![t] = "issue"]
    BY <1>0, <2>1, <2>2, <2>4, OwnPc
  <2> QED
    BY <1>6, <2>3, <2>4 DEF EndGet
<1>7. ASSUME NEW k \in 1..Len(sendQueue[t]), NEW v \in SendPcs,
             StartTransfer(t, k, v), pc[t] \in {"issue", "single"}
      PROVE  OwnInv'
  <2>1. pc[t] \in HasLocals \ SendPcs
    BY <1>7 DEF HasLocals, HasCallers, AllPcs, PcValues, SendPcs
  <2>2. /\ netbuf' = [netbuf EXCEPT ![t] = SubSeq(sendQueue[t], 1, k)]
        /\ TxLookupQueue' = Append(TxLookupQueue, SubSeq(sendQueue[t], 1, k))
        /\ sendQueue' = [sendQueue EXCEPT
               ![t] = SubSeq(sendQueue[t], k + 1, Len(sendQueue[t]))]
        /\ pc' = [pc EXCEPT ![t] = v]
        /\ UNCHANGED <<TxQueue, pCallersSendQueue, Status, hif,
                       hifCompletions, lookupQueue, pFoundPacket>>
    BY <1>7 DEF StartTransfer, HTC_PACKET_ENQUEUE, busVars, searchVars
  <2> QED
    BY <2>1, <2>2, OwnIssue
<1>8. CASE HTCIssuePacketsBundle(t)
  <2>1. PICK k \in 1..Len(sendQueue[t]) : StartTransfer(t, k, "hifSendBundle")
    BY <1>8 DEF HTCIssuePacketsBundle
  <2>2. "hifSendBundle" \in SendPcs /\ pc[t] = "issue"
    BY <1>8 DEF SendPcs, HTCIssuePacketsBundle
  <2> QED
    BY <1>7, <2>1, <2>2
<1>9. CASE IssueSingle(t)
  <2>1. 1 \in 1..Len(sendQueue[t])
    <3>1. sendQueue[t] # <<>> /\ Len(sendQueue[t]) \in Nat
      BY <1>0, <1>9, LenProperties DEF IssueSingle
    <3>2. Len(sendQueue[t]) # 0
      BY <1>0, <3>1, EmptySeq
    <3> QED
      BY <3>1, <3>2
  <2>2. /\ "hifSend" \in SendPcs /\ pc[t] \in {"issue", "single"}
        /\ StartTransfer(t, 1, "hifSend")
    BY <1>9 DEF SendPcs, IssueSingle
  <2> QED
    BY <1>7, <2>1, <2>2
<1>10. CASE HIFSendOk(t)
  BY <1>10, OwnSendOk DEF HIFSendOk, SendPcs, searchVars
<1>11. CASE HIFSendFails(t) \/ HTCSendBundledNetbufFails(t)
  <2>1. PICK v \in {"requeue", "single"} : pc' = [pc EXCEPT ![t] = v]
    BY <1>11 DEF HIFSendFails, HTCSendBundledNetbufFails
  <2>2. v \in HasLocals \ SendPcs
    BY DEF HasLocals, HasCallers, AllPcs, PcValues, SendPcs
  <2>3. /\ pc[t] \in SendPcs
        /\ TxLookupQueue' = HTC_PACKET_REMOVE(TxLookupQueue, netbuf[t])
        /\ lookupQueue' = HTC_PACKET_REMOVE(lookupQueue, netbuf[t])
        /\ sendQueue' = [sendQueue EXCEPT ![t] = netbuf[t] \o sendQueue[t]]
        /\ netbuf' = [netbuf EXCEPT ![t] = <<>>]
        /\ UNCHANGED <<TxQueue, pCallersSendQueue, Status, hif,
                       hifCompletions, pFoundPacket>>
    BY <1>11 DEF HIFSendFails, HTCSendBundledNetbufFails, SendPcs,
                 RemoveRefused, HTC_PACKET_QUEUE_TRANSFER_TO_HEAD
  <2> QED
    BY <2>1, <2>2, <2>3, OwnTakeBack
<1>12. CASE Requeue(t)
  <2>1. /\ "requeue" \notin HasCallers
        /\ "idle" \in AllPcs \ (SendPcs \cup HasCallers)
    BY DEF HasCallers, AllPcs, PcValues, SendPcs
  <2>2. /\ pc[t] = "requeue" /\ pc' = [pc EXCEPT ![t] = "idle"]
        /\ TxQueue' = sendQueue[t] \o TxQueue
        /\ sendQueue' = [sendQueue EXCEPT ![t] = <<>>]
        /\ UNCHANGED <<TxLookupQueue, pCallersSendQueue, netbuf, Status, hif,
                       hifCompletions, lookupQueue, pFoundPacket>>
    BY <1>12 DEF Requeue, busVars, searchVars, HTC_PACKET_QUEUE_TRANSFER_TO_HEAD
  <2> QED
    BY <2>1, <2>2, OwnEnqueue
<1>13. CASE Reread(t)
  <2>1. "relock" \in AllPcs \ SendPcs /\ "issue" \notin HasCallers
    BY DEF HasCallers, AllPcs, PcValues, SendPcs
  <2> QED
    BY <1>0, <1>13, <2>1, OwnPc DEF Reread, queueVars, busVars, searchVars
<1>14. CASE Relock(t)
  <2>1. /\ "get" \in AllPcs \ SendPcs /\ "get" \in HasLocals
        /\ "relock" \notin HasCallers
    BY DEF HasCallers, HasLocals, AllPcs, PcValues, SendPcs
  <2> QED
    BY <1>0, <1>14, <2>1, OwnPc DEF Relock, queueVars, busVars, searchVars
<1> QED
  BY <1>1, <1>2, <1>3, <1>4, <1>5, <1>6, <1>8, <1>9, <1>10, <1>11, <1>12,
     <1>13, <1>14 DEF ThreadStep

LEMMA OwnReport ==
    ASSUME OwnInv, CreditReport
    PROVE  OwnInv'
<1>1. PICK n \in 1..TotalCredits : HTCProcessCreditRpt(n)
  BY DEF CreditReport
<1>2. PICK v \in {"idle", TrySendPc} : pc' = [pc EXCEPT ![RxThread] = v]
  BY <1>1 DEF HTCProcessCreditRpt
<1>3. RxThread \in Threads /\ pc[RxThread] = "idle" /\ UNCHANGED queueVars
  BY <1>1 DEF HTCProcessCreditRpt, queueVars, searchVars, Threads
<1>4. /\ v \in AllPcs \ SendPcs
      /\ "idle" \notin HasCallers /\ "idle" \notin HasLocals
  BY DEF TrySendPc, AllPcs, PcValues, SendPcs, HasCallers, HasLocals
<1>5. pCallersSendQueue[RxThread] = <<>> /\ sendQueue[RxThread] = <<>>
  BY <1>3, <1>4 DEF OwnInv, EmptyInv
<1> QED
  BY <1>2, <1>3, <1>4, <1>5, OwnPc

LEMMA OwnStep ==
    ASSUME OwnInv, LookupInv, [Next]_vars
    PROVE  OwnInv' /\ LookupInv'
<1>1. CASE \E t \in Senders, p \in Packets : HTCSendPkt(t, p)
  BY <1>1, OwnHTCSendPkt, LookupOther DEF Threads
<1>2. CASE \E t \in Threads : ThreadStep(t)
  BY <1>2, OwnThreadStep, LookupThread
<1>3. CASE Quiescent \/ UNCHANGED vars
  <2>1. UNCHANGED queueVars /\ UNCHANGED pc
    BY <1>3 DEF Quiescent, vars, queueVars, searchVars
  <2> QED
    BY <1>3, <2>1, OwnSame, LookupOther
<1>4. CASE HTCTxCompletionHandler
  BY <1>4, OwnComplete, LookupSearch
<1>5. CASE CreditReport \/ HTCFlushEndpointTX \/ BusCompletes
  BY <1>5, OwnReport, OwnFlush, OwnBus, LookupOther
<1> QED
  BY <1>1, <1>2, <1>3, <1>4, <1>5 DEF Next

LEMMA SearchInit ==
    ASSUME Init
    PROVE  OwnInv /\ LookupInv
BY OwnInit DEF Init, LookupInv, LookupPcs, Threads

(* A packet handed to HTCSendPkt is in exactly one place until its owner   *)
(* is told about it and in none afterwards, whatever the number of threads *)
(* and packets and the length of bundles, and even if HIF refuses          *)
(* transfers: none is leaked, sent twice or completed twice.               *)
THEOREM PacketsOwned == Spec => []PacketOwnership
<1>1. Init => OwnInv /\ LookupInv
  BY SearchInit
<1>2. OwnInv /\ LookupInv /\ [Next]_vars => OwnInv' /\ LookupInv'
  BY OwnStep
<1>3. OwnInv => PacketOwnership
  BY OwnedOnce
<1> QED
  BY <1>1, <1>2, <1>3, PTL DEF Spec

-----------------------------------------------------------------------------
(* Ownership: the steps of HTCSendDataPkt keep the places of HtcQueueProofs*)
(* apart, as those of HTCTrySend do.                                       *)

LEMMA DataThreadOwn ==
    ASSUME OwnInv, NEW t \in Threads, DataThreadStep(t)
    PROVE  OwnInv'
<1>0. /\ pc[t] \notin HasCallers => pCallersSendQueue[t] = <<>>
      /\ pc[t] \notin HasLocals => sendQueue[t] = <<>>
  BY DEF OwnInv, EmptyInv
<1> USE DEF busVars, searchVars
<1>1. CASE EnterDataPkt(t)
  <2>1. PICK v \in {"idle", "count"} : pc' = [pc EXCEPT ![t] = v]
    BY <1>1 DEF EnterDataPkt
  <2>2. /\ v \in AllPcs \ (SendPcs \cup HasCallers \cup HasLocals)
        /\ "dataLock" \notin HasLocals
    BY DEF HasCallers, HasLocals, AllPcs, PcValues, SendPcs
  <2>3. /\ pc[t] = "dataLock" /\ TxQueue' = TxQueue \o pCallersSendQueue[t]
        /\ pCallersSendQueue' = [pCallersSendQueue EXCEPT ![t] = <<>>]
        /\ UNCHANGED <<TxLookupQueue, sendQueue, netbuf, Status, hif,
                       hifCompletions, lookupQueue, pFoundPacket>>
    BY <1>1 DEF EnterDataPkt
  <2> QED
    BY <2>1, <2>2, <2>3, OwnEnqueueCallers
<1>2. CASE IncrementCount(t)
  <2>1. /\ "lock" \notin HasCallers
        /\ "count" \in AllPcs \ (SendPcs \cup HasCallers)
    BY DEF HasCallers, AllPcs, PcValues, SendPcs
  <2>2. /\ pc[t] = "lock" /\ pc' = [pc EXCEPT ![t] = "count"]
        /\ TxQueue' = TxQueue \o sendQueue[t]
        /\ sendQueue' = [sendQueue EXCEPT ![t] = <<>>]
        /\ UNCHANGED <<TxLookupQueue, pCallersSendQueue, netbuf, Status, hif,
                       hifCompletions, lookupQueue, pFoundPacket>>
    BY <1>2 DEF IncrementCount, HTC_PACKET_QUEUE_TRANSFER_TO_TAIL
  <2> QED
    BY <2>1, <2>2, OwnEnqueue
<1>3. CASE ReadCount(t) \/ DecrementCount(t) \/ ClearCount(t)
  <2>1. PICK v \in {"undo", "get", "idle"} : pc' = [pc EXCEPT ![t] = v]
    BY <1>3 DEF ReadCount, DecrementCount, ClearCount
  <2>2. pc[t] \in {"count", "undo", "clear"} /\ UNCHANGED queueVars
    BY <1>3 DEF ReadCount, DecrementCount, ClearCount, queueVars
  <2>3. v \in AllPcs \ SendPcs /\ pc[t] \notin HasCallers
        /\ pc[t] \notin HasLocals
    BY <2>2 DEF HasCallers, HasLocals, AllPcs, PcValues, SendPcs
  <2> QED
    BY <1>0, <2>1, <2>2, <2>3, OwnPc
<1>4. CASE EndDataGet(t) \/ DataSent(t)
  <2>1. PICK v \in {"issue", "clear"} :
           /\ pc' = [pc EXCEPT ![t] = v]
           /\ v = "clear" => sendQueue[t] = <<>>
    BY <1>4 DEF EndDataGet, DataSent
  <2>2. pc[t] \in {"get", "issue"} /\ UNCHANGED queueVars
    BY <1>4 DEF EndDataGet, DataSent, queueVars
  <2>3. v \in AllPcs \ SendPcs /\ pc[t] \notin HasCallers
        /\ "issue" \in HasLocals
    BY <2>2 DEF HasCallers, HasLocals, AllPcs, PcValues, SendPcs
  <2> QED
    BY <1>0, <2>1, <2>2, <2>3, OwnPc
<1>5. CASE DataSendFails(t)
  <2>1. pc[t] \in SendPcs /\ "clear" \in AllPcs \ (SendPcs \cup HasCallers)
    BY <1>5 DEF DataSendFails, HasCallers, AllPcs, PcValues, SendPcs
  <2>2. /\ pc' = [pc EXCEPT ![t] = "clear"]
        /\ TxLookupQueue' = HTC_PACKET_REMOVE(TxLookupQueue, netbuf[t])
        /\ lookupQueue' = HTC_PACKET_REMOVE(lookupQueue, netbuf[t])
        /\ TxQueue' = (netbuf[t] \o sendQueue[t]) \o TxQueue
        /\ sendQueue' = [sendQueue EXCEPT ![t] = <<>>]
        /\ netbuf' = [netbuf EXCEPT ![t] = <<>>]
        /\ UNCHANGED <<pCallersSendQueue, Status, hif, hifCompletions,
                       pFoundPacket>>
    BY <1>5 DEF DataSendFails, AfterSendFailure, RemoveRefused,
                HTC_PACKET_QUEUE_TRANSFER_TO_HEAD
  <2> QED
    BY <2>1, <2>2, OwnDataFail
<1>6. CASE SharedStep(t) \/ TrySendStep(t)
  <2>1. ThreadStep(t)
    BY <1>6 DEF SharedStep, TrySendStep, ThreadStep
  <2> QED
    BY <2>1, OwnThreadStep
<1> QED
  BY <1>1, <1>2, <1>3, <1>4, <1>5, <1>6 DEF DataThreadStep

LEMMA DataOwnStep ==
    ASSUME OwnInv, LookupInv, [DataNext]_dataVars
    PROVE  OwnInv' /\ LookupInv'
<1>1. ASSUME NEW t \in Senders, NEW p \in Packets, NEW more \in MoreData,
             HTCSendDataPkt(t, p, more)
      PROVE  OwnInv' /\ LookupInv'
  <2>1. "dataLock" \in HasCallers /\ t \in Threads
    BY DEF HasCallers, Threads
  <2>2. OwnInv'
    BY <1>1, <2>1, OwnSubmit DEF HTCSendDataPkt, busVars, searchVars
  <2> QED
    BY <1>1, <2>2, LookupOther
<1>2. ASSUME NEW t \in Senders, NEW p \in Packets, HTCSendPkt(t, p)
      PROVE  OwnInv' /\ LookupInv'
  BY <1>2, OwnHTCSendPkt, LookupOther DEF Threads
<1>3. CASE \E t \in Threads : DataThreadStep(t)
  BY <1>3, DataThreadOwn, LookupThread
<1>4. CASE Quiescent \/ UNCHANGED dataVars
  <2>1. UNCHANGED queueVars /\ UNCHANGED pc
    BY <1>4 DEF Quiescent, dataVars, vars, queueVars, searchVars
  <2>2. Quiescent \/ UNCHANGED vars
    BY <1>4 DEF dataVars
  <2> QED
    BY <2>1, <2>2, OwnSame, LookupOther
<1>5. CASE HTCTxCompletionHandler \/ LookupStep
  BY <1>5, OwnComplete, OwnSearch, LookupSearch
<1>6. CASE HTCFlushEndpointTX \/ BusCompletes
  BY <1>6, OwnFlush, OwnBus, LookupOther
<1> QED
  BY <1>1, <1>2, <1>3, <1>4, <1>5, <1>6 DEF DataNext

(* Packets are owned once on the data endpoint too, unless a search was    *)
(* derailed: two functions drain it, HTCSendDataPkt puts refused packets   *)
(* back by itself, and HTCLookupTxPacket searches without the lock while   *)
(* others issue transfers and take refused ones out of its list.           *)
THEOREM DataPacketsOwned == DataSpec => []PacketOwnership
<1>1. DataInit => OwnInv /\ LookupInv
  BY SearchInit DEF DataInit
<1>2. OwnInv /\ LookupInv /\ [DataNext]_dataVars => OwnInv' /\ LookupInv'
  BY DataOwnStep
<1>3. OwnInv => PacketOwnership
  BY OwnedOnce
<1> QED
  BY <1>1, <1>2, <1>3, PTL DEF DataSpec

(* HTCLookupTxPacket finds the packets of every transfer on the bus or     *)
(* waiting for its completion, in whatever order they were stored and      *)
(* whatever other threads do to its list while it searches without the     *)
(* lock, unless they derail the search.                                    *)
THEOREM LookupsSucceed == DataSpec => []CompletionsAreFound
<1>1. DataInit => OwnInv /\ LookupInv
  BY SearchInit DEF DataInit
<1>2. OwnInv /\ LookupInv /\ [DataNext]_dataVars => OwnInv' /\ LookupInv'
  BY DataOwnStep
<1>3. OwnInv /\ LookupInv => CompletionsAreFound
  BY LookupFinds
<1> QED
  BY <1>1, <1>2, <1>3, PTL DEF DataSpec

-----------------------------------------------------------------------------
(* The count.  ClearCount and EndGet set it to 0 whoever else is counted,  *)
(* so it is no more than a lower bound on the threads inside; that it      *)
(* never exceeds their number is what makes BusyHasDrainer hold.           *)

InsidePcs == DrainPcs \cup {"count", "undo", "clear"}
Inside == {t \in Threads : pc[t] \in InsidePcs}

CountInv ==
    /\ pc \in [Threads -> AllPcs]
    /\ IsFiniteSet(Inside)
    /\ TxProcessCount \in Int /\ TxProcessCount <= Cardinality(Inside)

(* A thread that comes in with the count.                                  *)
LEMMA CountEnters ==
    ASSUME CountInv, NEW t \in Threads, pc[t] \notin InsidePcs,
           pc' = [pc EXCEPT ![t] = "count"],
           TxProcessCount' = TxProcessCount + 1
    PROVE  CountInv'
<1>1. Inside' = Inside \cup {t} /\ t \notin Inside
  BY DEF CountInv, Inside, InsidePcs
<1>2. IsFiniteSet(Inside) /\ Cardinality(Inside) \in Nat
  BY FS_CardinalityType DEF CountInv
<1>3. /\ IsFiniteSet(Inside \cup {t})
      /\ Cardinality(Inside \cup {t}) = Cardinality(Inside) + 1
  BY <1>1, <1>2, FS_AddElement
<1>4. pc' \in [Threads -> AllPcs]
  BY DEF CountInv, AllPcs
<1> QED
  BY <1>1, <1>2, <1>3, <1>4 DEF CountInv

(* A thread that leaves and takes its own part of the count with it.       *)
LEMMA CountUndo ==
    ASSUME CountInv, NEW t \in Threads, pc[t] \in InsidePcs,
           pc' = [pc EXCEPT ![t] = "idle"],
           TxProcessCount' = TxProcessCount - 1
    PROVE  CountInv'
<1>1. Inside' = Inside \ {t} /\ t \in Inside
  BY DEF CountInv, Inside, InsidePcs, DrainPcs
<1>2. IsFiniteSet(Inside) /\ Cardinality(Inside) \in Nat
  BY FS_CardinalityType DEF CountInv
<1>3. /\ IsFiniteSet(Inside \ {t})
      /\ Cardinality(Inside \ {t}) = Cardinality(Inside) - 1
  BY <1>1, <1>2, FS_RemoveElement
<1>4. pc' \in [Threads -> AllPcs]
  BY DEF CountInv, AllPcs, PcValues
<1> QED
  BY <1>1, <1>2, <1>3, <1>4 DEF CountInv

(* A thread that leaves and clears the count.                              *)
LEMMA CountCleared ==
    ASSUME CountInv, NEW t \in Threads, pc[t] \in InsidePcs,
           pc' = [pc EXCEPT ![t] = "idle"],
           TxProcessCount' = 0
    PROVE  CountInv'
<1>1. Inside' = Inside \ {t} /\ t \in Inside
  BY DEF CountInv, Inside, InsidePcs, DrainPcs
<1>2. IsFiniteSet(Inside)
  BY DEF CountInv
<1>3. IsFiniteSet(Inside \ {t})
  BY <1>1, <1>2, FS_RemoveElement
<1>4. Cardinality(Inside \ {t}) \in Nat
  BY <1>3, FS_CardinalityType
<1>5. pc' \in [Threads -> AllPcs]
  BY DEF CountInv, AllPcs, PcValues
<1> QED
  BY <1>1, <1>3, <1>4, <1>5 DEF CountInv

(* A thread that moves on, inside or outside.                              *)
LEMMA CountMoves ==
    ASSUME CountInv, NEW t \in Threads, NEW v \in AllPcs,
           v \in InsidePcs <=> pc[t] \in InsidePcs,
           pc' = [pc EXCEPT ![t] = v],
           UNCHANGED TxProcessCount
    PROVE  CountInv'
<1>1. Inside' = Inside
  BY DEF CountInv, Inside
<1>2. pc' \in [Threads -> AllPcs]
  BY DEF CountInv
<1> QED
  BY <1>1, <1>2 DEF CountInv

LEMMA CountSame ==
    ASSUME CountInv, UNCHANGED <<pc, TxProcessCount>>
    PROVE  CountInv'
BY DEF CountInv, Inside

LEMMA CountThread ==
    ASSUME CountInv, NEW t \in Threads, DataThreadStep(t)
    PROVE  CountInv'
<1> USE DEF InsidePcs, DrainPcs, AllPcs, PcValues
<1>1. CASE EnterDataPkt(t)
  <2>1. CASE EnableBundle /\ more_data[t] = "yes"
    BY <1>1, <2>1, CountMoves DEF EnterDataPkt
  <2>2. CASE ~(EnableBundle /\ more_data[t] = "yes")
    BY <1>1, <2>2, CountEnters DEF EnterDataPkt
  <2> QED
    BY <2>1, <2>2
<1>2. CASE IncrementCount(t)
  BY <1>2, CountEnters DEF IncrementCount
<1>3. CASE ReadCount(t)
  BY <1>3, CountMoves DEF ReadCount
<1>4. CASE DecrementCount(t)
  BY <1>4, CountUndo DEF DecrementCount, CountTakenBack
<1>5. CASE EndDataGet(t) \/ DataSendFails(t) \/ DataSent(t)
  BY <1>5, CountMoves DEF EndDataGet, DataSendFails, DataSent,
                          AfterSendFailure
<1>6. CASE ClearCount(t)
  BY <1>6, CountCleared DEF ClearCount
<1>7. CASE GetHTCSendPackets(t)
  BY <1>7, CountSame DEF GetHTCSendPackets
<1>8. CASE HTCIssuePacketsBundle(t) \/ IssueSingle(t)
  <2>1. PICK v \in {"hifSend", "hifSendBundle"} :
           \E k \in Nat : StartTransfer(t, k, v)
    BY <1>8 DEF HTCIssuePacketsBundle, IssueSingle
  <2>2. pc[t] \in {"issue", "single"}
    BY <1>8 DEF HTCIssuePacketsBundle, IssueSingle
  <2> QED
    BY <2>1, <2>2, CountMoves DEF StartTransfer
<1>9. CASE HIFSendOk(t) \/ HTCSendBundledNetbufFails(t) \/ HIFSendFails(t)
  BY <1>9, CountMoves DEF HIFSendOk, HTCSendBundledNetbufFails, HIFSendFails
<1>10. CASE CheckOverflow(t)
  <2>1. PICK v \in {"lock", "resources", "reject"} :
           pc' = [pc EXCEPT ![t] = v]
    BY <1>10 DEF CheckOverflow, TrySendPc
  <2> QED
    BY <1>10, <2>1, CountMoves DEF CheckOverflow
<1>11. CASE RejectPacket(t) \/ ReadResources(t) \/ Reread(t) \/ Relock(t)
  BY <1>11, CountMoves DEF RejectPacket, ReadResources, Reread, Relock
<1>12. CASE EndGet(t)
  <2>1. CASE sendQueue[t] = <<>>
    BY <1>12, <2>1, CountCleared DEF EndGet
  <2>2. CASE sendQueue[t] # <<>>
    BY <1>12, <2>2, CountMoves DEF EndGet
  <2> QED
    BY <2>1, <2>2
<1>13. CASE Requeue(t)
  BY <1>13, CountCleared DEF Requeue
<1> QED
  BY <1>1, <1>2, <1>3, <1>4, <1>5, <1>6, <1>7, <1>8, <1>9, <1>10, <1>11,
     <1>12, <1>13 DEF DataThreadStep, SharedStep, TrySendStep

LEMMA CountStep ==
    ASSUME CountInv, [DataNext]_dataVars
    PROVE  CountInv'
<1> USE DEF InsidePcs, DrainPcs, AllPcs, PcValues
<1>1. ASSUME NEW t \in Senders, NEW p \in Packets, NEW more \in MoreData,
             HTCSendDataPkt(t, p, more)
      PROVE  CountInv'
  BY <1>1, CountMoves DEF HTCSendDataPkt, Threads
<1>2. ASSUME NEW t \in Senders, NEW p \in Packets, HTCSendPkt(t, p)
      PROVE  CountInv'
  BY <1>2, CountMoves DEF HTCSendPkt, Threads
<1>3. CASE \E t \in Threads : DataThreadStep(t)
  BY <1>3, CountThread
<1>4. CASE HTCTxCompletionHandler
  <2>1. PICK v \in {"idle", "resources"} :
           pc' = [pc EXCEPT ![CompThread] = v]
    BY <1>4 DEF HTCTxCompletionHandler, AfterCompletionPc
  <2> QED
    BY <1>4, <2>1, CountMoves DEF HTCTxCompletionHandler, Threads
<1>5. CASE HTCFlushEndpointTX \/ BusCompletes \/ Quiescent
           \/ UNCHANGED dataVars
  BY <1>5, CountSame DEF HTCFlushEndpointTX, BusCompletes, Quiescent,
                         threadVars, dataVars, vars
<1>6. CASE LookupStep
  <2>1. PICK v \in LookupPcs \cup {"idle", "resources"} :
           pc' = [pc EXCEPT ![CompThread] = v]
    BY <1>6 DEF LookupStep, HTCLookupTxPacket, SearchFirst, SearchNext,
                UnlinkFound, EndLookup, AfterCompletionPc, LookupPcs
  <2>2. pc[CompThread] \in LookupPcs \cup {"idle"} /\ UNCHANGED TxProcessCount
    BY <1>6 DEF LookupStep, HTCLookupTxPacket, SearchFirst, SearchNext,
                UnlinkFound, EndLookup, LookupPcs, searchFrame
  <2> QED
    BY <2>1, <2>2, CountMoves DEF LookupPcs, Threads
<1> QED
  BY <1>1, <1>2, <1>3, <1>4, <1>5, <1>6 DEF DataNext

(* Whoever finds the endpoint busy can rely on a thread inside that will   *)
(* reset the count, however HTCSendDataPkt and HTCTrySend race for it and  *)
(* however many threads there are.                                         *)
THEOREM BusyEndpointIsDrained == DataSpec => []BusyHasDrainer
<1>1. DataInit => CountInv
  <2> SUFFICES ASSUME DataInit PROVE CountInv
    OBVIOUS
  <2>1. Inside = {}
    BY DEF DataInit, Init, Inside, InsidePcs, DrainPcs
  <2> QED
    BY <2>1, FS_EmptySet DEF DataInit, Init, CountInv, AllPcs, PcValues
<1>2. CountInv /\ [DataNext]_dataVars => CountInv'
  BY CountStep
<1>3. CountInv => BusyHasDrainer
  <2> SUFFICES ASSUME CountInv, TxProcessCount > 0
               PROVE  \E t \in Threads :
                         Draining(t) \/ pc[t] \in {"count", "undo", "clear"}
    BY DEF BusyHasDrainer
  <2>1. Inside # {}
    BY FS_EmptySet DEF CountInv
  <2> QED
    BY <2>1 DEF Inside, InsidePcs, Draining
<1> QED
  BY <1>1, <1>2, <1>3, PTL DEF DataSpec
=============================================================================
