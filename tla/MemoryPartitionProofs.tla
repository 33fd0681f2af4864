------------------------ MODULE MemoryPartitionProofs ------------------------
(***************************************************************************)
(* For any number of sub-partitions, banks, rows and requests and all      *)
(* queue sizes: FR-FCFS never reorders two requests of the same row, the   *)
(* credits match the requests in flight, and the sub-partitions take turns.*)
(*                                                                         *)
(* Order: the requests of one bank pass a line of seven queues, from that  *)
(* of their sub-partition to the list of those served; a stage of a DRAM   *)
(* cycle moves a request from one queue of the line to the next, and only  *)
(* the scheduler takes one that is not the first.                          *)
(*                                                                         *)
(* Credits: every stage keeps Sound, that the credits borrowed are as many *)
(* as the requests in flight and each private one is held by one of them;  *)
(* a stage either moves requests (Carries), or lets one leave and gives    *)
(* its credit back (Repays), or lets one start and takes one (TakesCredit).*)
(***************************************************************************)
EXTENDS MemoryPartition, FiniteSetTheorems, WellFoundedInduction, TLAPS

Lines == [1 .. 7 -> Seq(Requests)]

Same(x, y) == x.bank = y.bank /\ x.row = y.row

\* A place of a line comes before another: an earlier queue, or further ahead.
Before(k, i, l, j) == k < l \/ (k = l /\ i < j)

\* Requests of bank b for the same row are in the order of their ids along c,
\* and no id is above n.
Ordered(c, b, n) ==
  /\ \A k, l \in 1 .. 7 : \A i \in 1 .. Len(c[k]), j \in 1 .. Len(c[l]) :
       Before(k, i, l, j) /\ c[k][i].bank = b /\ Same(c[k][i], c[l][j])
         => c[k][i].id < c[l][j].id
  /\ \A k \in 1 .. 7 : \A i \in 1 .. Len(c[k]) : c[k][i].bank = b => c[k][i].id <= n

-----------------------------------------------------------------------------
(* Queues.                                                                 *)

LEMMA LineTypes ==
  ASSUME NEW c \in Lines
  PROVE  \A l \in 1 .. 7 :
           /\ c[l] \in Seq(Requests) /\ Len(c[l]) \in Nat
           /\ \A i \in 1 .. Len(c[l]) : i \in Nat \ {0} /\ i <= Len(c[l]) /\ c[l][i] \in Requests
<1> SUFFICES ASSUME NEW l \in 1 .. 7
             PROVE  /\ c[l] \in Seq(Requests) /\ Len(c[l]) \in Nat
                    /\ \A i \in 1 .. Len(c[l]) :
                         i \in Nat \ {0} /\ i <= Len(c[l]) /\ c[l][i] \in Requests
  OBVIOUS
<1>1. c[l] \in Seq(Requests)
  BY DEF Lines
<1> QED BY <1>1

\* r is queue q without the request at place n.
Drops(q, r, n) ==
  /\ Len(r) = Len(q) - 1
  /\ \A i \in 1 .. Len(r) : r[i] = q[IF i < n THEN i ELSE i + 1]

LEMMA TailDrops ==
  ASSUME NEW q \in Seq(Requests), q # <<>>
  PROVE  Drops(q, Tail(q), 1) /\ Tail(q) \in Seq(Requests)
<1>1. Len(Tail(q)) = Len(q) - 1 /\ \A i \in 1 .. Len(q) - 1 : Tail(q)[i] = q[i + 1]
  OBVIOUS
<1> QED BY <1>1 DEF Drops

LEMMA Concat ==
  \A a, e \in Seq(Requests) :
    /\ a \o e \in Seq(Requests) /\ Len(a \o e) = Len(a) + Len(e)
    /\ \A i \in 1 .. Len(a) + Len(e) :
         (a \o e)[i] = IF i <= Len(a) THEN a[i] ELSE e[i - Len(a)]
  OBVIOUS

LEMMA Appended ==
  \A a \in Seq(Requests), x \in Requests :
    /\ Append(a, x) \in Seq(Requests) /\ Len(Append(a, x)) = Len(a) + 1
    /\ \A i \in 1 .. Len(a) + 1 :
         Append(a, x)[i] = IF i <= Len(a) THEN a[i] ELSE x
  OBVIOUS

LEMMA Slice ==
  ASSUME NEW q \in Seq(Requests), NEW m \in Nat, m <= Len(q)
  PROVE  /\ SubSeq(q, 1, m) \in Seq(Requests) /\ Len(SubSeq(q, 1, m)) = m
         /\ \A i \in 1 .. m : SubSeq(q, 1, m)[i] = q[i]
         /\ SubSeq(q, m + 1, Len(q)) \in Seq(Requests)
         /\ Len(SubSeq(q, m + 1, Len(q))) = Len(q) - m
         /\ \A i \in 1 .. Len(q) - m : SubSeq(q, m + 1, Len(q))[i] = q[i + m]
<1>1. SubSeq(q, 1, m) \in Seq(Requests)
  OBVIOUS
<1>2. Len(SubSeq(q, 1, m)) = m
  OBVIOUS
<1>3. \A i \in 1 .. m : SubSeq(q, 1, m)[i] = q[i]
  OBVIOUS
<1>4. SubSeq(q, m + 1, Len(q)) \in Seq(Requests)
  OBVIOUS
<1>5. Len(SubSeq(q, m + 1, Len(q))) = Len(q) - m
  OBVIOUS
<1>6. \A i \in 1 .. Len(q) - m : SubSeq(q, m + 1, Len(q))[i] = q[i + m]
  OBVIOUS
<1> QED BY <1>1, <1>2, <1>3, <1>4, <1>5, <1>6

LEMMA RemoveDrops ==
  ASSUME NEW q \in Seq(Requests), NEW n \in 1 .. Len(q)
  PROVE  Drops(q, RemoveAt(q, n), n) /\ RemoveAt(q, n) \in Seq(Requests)
<1> DEFINE a == SubSeq(q, 1, n - 1)
           e == SubSeq(q, n + 1, Len(q))
<1>1. Len(q) \in Nat /\ n \in Nat /\ n - 1 \in Nat /\ n - 1 <= Len(q) /\ n <= Len(q)
  OBVIOUS
<1>2. a \in Seq(Requests) /\ Len(a) = n - 1 /\ \A i \in 1 .. n - 1 : a[i] = q[i]
  BY <1>1, Slice
<1>3. /\ e \in Seq(Requests) /\ Len(e) = Len(q) - n
      /\ \A i \in 1 .. Len(q) - n : e[i] = q[i + n]
  BY <1>1, Slice
<1>4. RemoveAt(q, n) = a \o e
  BY DEF RemoveAt
<1> HIDE DEF a, e
<1>5. /\ a \o e \in Seq(Requests) /\ Len(a \o e) = Len(q) - 1
      /\ \A i \in 1 .. Len(q) - 1 : (a \o e)[i] = IF i <= n - 1 THEN a[i] ELSE e[i - (n - 1)]
  <2>1. a \o e \in Seq(Requests) /\ Len(a \o e) = Len(a) + Len(e)
    BY <1>2, <1>3, Concat
  <2>2. Len(a) + Len(e) = Len(q) - 1
    BY <1>1, <1>2, <1>3
  <2>3. \A i \in 1 .. Len(a) + Len(e) :
          (a \o e)[i] = IF i <= Len(a) THEN a[i] ELSE e[i - Len(a)]
    BY <1>2, <1>3, Concat
  <2>4. \A i \in 1 .. Len(q) - 1 : (a \o e)[i] = IF i <= n - 1 THEN a[i] ELSE e[i - (n - 1)]
    <3>1. Len(a) = n - 1
      BY <1>2
    <3> QED BY <2>2, <2>3, <3>1
  <2> QED BY <2>1, <2>2, <2>4
<1>6. ASSUME NEW i \in 1 .. Len(q) - 1
      PROVE  (a \o e)[i] = q[IF i < n THEN i ELSE i + 1]
  <2>1. CASE i < n
    BY <2>1, <1>1, <1>2, <1>5
  <2>2. CASE i >= n
    <3>1. (a \o e)[i] = e[i - (n - 1)] /\ i - (n - 1) \in 1 .. Len(q) - n
      BY <2>2, <1>1, <1>5
    <3>2. e[i - (n - 1)] = q[i - (n - 1) + n] /\ i - (n - 1) + n = i + 1
      BY <3>1, <1>1, <1>3
    <3>3. (IF i < n THEN i ELSE i + 1) = i + 1
      BY <2>2, <1>1
    <3> QED BY <3>1, <3>2, <3>3
  <2>3. i < n \/ i >= n
    BY <1>1
  <2> QED BY <2>1, <2>2, <2>3
<1> QED BY <1>4, <1>5, <1>6 DEF Drops

-----------------------------------------------------------------------------
(* What may happen to a line.                                              *)

\* Every request of d has a place in c, and places of requests for the same row
\* are in the same order.
Embedded(c, d, K, I) ==
  /\ \A k \in 1 .. 7 : \A i \in 1 .. Len(d[k]) :
       /\ K[k][i] \in 1 .. 7 /\ I[k][i] \in 1 .. Len(c[K[k][i]])
       /\ d[k][i] = c[K[k][i]][I[k][i]]
  /\ \A k, l \in 1 .. 7 : \A i \in 1 .. Len(d[k]), j \in 1 .. Len(d[l]) :
       Before(k, i, l, j) /\ Same(d[k][i], d[l][j])
         => Before(K[k][i], I[k][i], K[l][j], I[l][j])

LEMMA Embeds ==
  ASSUME NEW c, NEW d, NEW b, NEW n, Ordered(c, b, n), NEW K, NEW I, Embedded(c, d, K, I)
  PROVE  Ordered(d, b, n)
<1>1. ASSUME NEW k \in 1 .. 7, NEW i \in 1 .. Len(d[k]), d[k][i].bank = b
      PROVE  d[k][i].id <= n
  <2>1. /\ K[k][i] \in 1 .. 7 /\ I[k][i] \in 1 .. Len(c[K[k][i]])
        /\ d[k][i] = c[K[k][i]][I[k][i]]
    BY DEF Embedded
  <2>2. c[K[k][i]][I[k][i]].id <= n
    BY <1>1, <2>1 DEF Ordered
  <2> QED BY <2>1, <2>2
<1>2. ASSUME NEW k \in 1 .. 7, NEW l \in 1 .. 7, NEW i \in 1 .. Len(d[k]), NEW j \in 1 .. Len(d[l]),
             Before(k, i, l, j), d[k][i].bank = b, Same(d[k][i], d[l][j])
      PROVE  d[k][i].id < d[l][j].id
  <2>1. d[l][j].bank = b
    BY <1>2 DEF Same
  <2>2. /\ K[k][i] \in 1 .. 7 /\ I[k][i] \in 1 .. Len(c[K[k][i]])
        /\ d[k][i] = c[K[k][i]][I[k][i]]
        /\ K[l][j] \in 1 .. 7 /\ I[l][j] \in 1 .. Len(c[K[l][j]])
        /\ d[l][j] = c[K[l][j]][I[l][j]]
    BY DEF Embedded
  <2>3. Before(K[k][i], I[k][i], K[l][j], I[l][j])
    BY <1>2 DEF Embedded
  <2> QED BY <1>2, <2>2, <2>3 DEF Ordered
<1> QED BY <1>1, <1>2 DEF Ordered

MovesUp(c, d, k, h, r) ==
  /\ r \in 1 .. Len(c[h])
  /\ \A i \in 1 .. r - 1 : ~Same(c[h][i], c[h][r])
  /\ d[k] = Append(c[k], c[h][r])
  /\ Drops(c[h], d[h], r)
  /\ \A l \in 1 .. 7 : l # k /\ l # h => d[l] = c[l]

\* A request moves to the next queue that passes no other one for its row.
LEMMA MoveUp ==
  ASSUME NEW c \in Lines, NEW d \in Lines, NEW b, NEW n, Ordered(c, b, n),
         NEW k \in 1 .. 7, NEW h \in 1 .. 7, h = k + 1, NEW r \in Nat, MovesUp(c, d, k, h, r)
  PROVE  Ordered(d, b, n)
<1> DEFINE K == [l \in 1 .. 7 |-> [i \in Nat |->
                   IF l = k /\ i > Len(c[k]) THEN h ELSE l]]
           I == [l \in 1 .. 7 |-> [i \in Nat |->
                   IF l = k /\ i > Len(c[k]) THEN r
                   ELSE IF l = h /\ i >= r THEN i + 1 ELSE i]]
<1>1. \A l \in 1 .. 7 : Len(c[l]) \in Nat /\ Len(d[l]) \in Nat
  BY LineTypes
<1>2. h # k /\ r >= 1 /\ r <= Len(c[h])
  <2>1. r \in 1 .. Len(c[h]) /\ Len(c[h]) \in Nat
    BY <1>1 DEF MovesUp
  <2> QED BY <2>1
<1>3. \A l \in 1 .. 7 : \A i \in Nat :
        K[l][i] = IF l = k /\ i > Len(c[k]) THEN h ELSE l
  OBVIOUS
<1>4. \A l \in 1 .. 7 : \A i \in Nat :
        I[l][i] = IF l = k /\ i > Len(c[k]) THEN r
                  ELSE IF l = h /\ i >= r THEN i + 1 ELSE i
  OBVIOUS
<1> HIDE DEF K, I
<1>5. /\ Len(d[k]) = Len(c[k]) + 1
      /\ \A i \in 1 .. Len(c[k]) + 1 : d[k][i] = IF i <= Len(c[k]) THEN c[k][i] ELSE c[h][r]
  <2>1. c[k] \in Seq(Requests) /\ c[h] \in Seq(Requests)
    BY LineTypes
  <2>2. c[h][r] \in Requests
    BY <2>1, <1>2
  <2>3. d[k] = Append(c[k], c[h][r])
    BY DEF MovesUp
  <2> QED BY <2>1, <2>2, <2>3, Appended
<1>6. \A l \in 1 .. 7 : \A i \in 1 .. Len(d[l]) : i \in Nat /\ i >= 1 /\ i <= Len(d[l])
  BY <1>1
<1>7. \A i \in 1 .. Len(d[h]) : d[h][i] = c[h][IF i < r THEN i ELSE i + 1]
  BY DEF MovesUp, Drops
<1>8. Len(d[h]) = Len(c[h]) - 1 /\ Len(c[h]) \in Nat /\ Len(c[k]) \in Nat
  BY <1>1 DEF MovesUp, Drops
<1>9. ASSUME NEW l \in 1 .. 7, NEW i \in 1 .. Len(d[l])
      PROVE  /\ K[l][i] \in 1 .. 7 /\ I[l][i] \in 1 .. Len(c[K[l][i]])
             /\ d[l][i] = c[K[l][i]][I[l][i]]
  <2>1. i \in Nat /\ i >= 1 /\ i <= Len(d[l])
    BY <1>6
  <2>2. CASE l = k /\ i <= Len(c[k])
    <3>1. K[l][i] = k
      BY <2>1, <2>2, <1>3, <1>8
    <3>2. I[l][i] = i
      BY <2>1, <2>2, <1>2, <1>4, <1>8
    <3>3. i \in 1 .. Len(c[k]) /\ i \in 1 .. Len(c[k]) + 1
      BY <2>1, <2>2, <1>8
    <3>4. d[l][i] = c[k][i]
      BY <2>2, <3>3, <1>5
    <3> QED BY <3>1, <3>2, <3>3, <3>4
  <2>3. CASE l = k /\ i > Len(c[k])
    <3>1. K[l][i] = h
      BY <2>1, <2>3, <1>3
    <3>2. I[l][i] = r
      BY <2>1, <2>3, <1>4
    <3>3. i = Len(c[k]) + 1
      BY <2>1, <2>3, <1>5, <1>8
    <3>4. d[l][i] = c[h][r]
      BY <2>3, <3>3, <1>5, <1>8
    <3>5. r \in 1 .. Len(c[h])
      BY DEF MovesUp
    <3> QED BY <3>1, <3>2, <3>4, <3>5
  <2>4. CASE l = h
    <3>1. K[l][i] = h
      BY <2>1, <2>4, <1>2, <1>3
    <3>2. I[l][i] = IF i >= r THEN i + 1 ELSE i
      BY <2>1, <2>4, <1>2, <1>4
    <3>3. (IF i < r THEN i ELSE i + 1) = (IF i >= r THEN i + 1 ELSE i)
      BY <2>1
    <3>4. d[l][i] = c[h][I[l][i]]
      BY <2>4, <3>2, <3>3, <1>7
    <3>5. I[l][i] \in 1 .. Len(c[h])
      BY <2>1, <2>4, <3>2, <1>8
    <3> QED BY <3>1, <3>4, <3>5
  <2>5. CASE l # k /\ l # h
    <3>1. K[l][i] = l
      BY <2>1, <2>5, <1>3
    <3>2. I[l][i] = i
      BY <2>1, <2>5, <1>4
    <3>3. d[l] = c[l]
      BY <2>5 DEF MovesUp
    <3> QED BY <3>1, <3>2, <3>3
  <2>6. i <= Len(c[k]) \/ i > Len(c[k])
    BY <2>1, <1>8
  <2> QED BY <2>2, <2>3, <2>4, <2>5, <2>6
<1>10. ASSUME NEW l \in 1 .. 7, NEW m \in 1 .. 7,
             NEW i \in 1 .. Len(d[l]), NEW j \in 1 .. Len(d[m]),
             Before(l, i, m, j), Same(d[l][i], d[m][j])
      PROVE  Before(K[l][i], I[l][i], K[m][j], I[m][j])
  <2>1. i \in Nat /\ j \in Nat /\ i <= Len(d[l]) /\ j <= Len(d[m]) /\ j >= 1
    BY <1>6
  <2>2. CASE l = k /\ i > Len(c[k])
    <3>1. i = Len(c[k]) + 1
      BY <2>1, <2>2, <1>5, <1>8
    <3>2. K[l][i] = h
      BY <2>1, <2>2, <1>3
    <3>3. I[l][i] = r
      BY <2>1, <2>2, <1>4
    <3>4. d[l][i] = c[h][r]
      BY <2>2, <3>1, <1>5, <1>8
    <3>5. m > k
      <4>1. ~(l = m /\ i < j)
        BY <2>1, <2>2, <3>1, <1>5, <1>8
      <4> QED BY <2>2, <4>1, <1>10 DEF Before
    <3>6. CASE m = h
      <4>1. ~(j < r)
        <5> SUFFICES ASSUME j < r PROVE FALSE
          OBVIOUS
        <5>1. d[m][j] = c[h][j]
          BY <3>6, <1>7
        <5>2. j \in 1 .. r - 1
          BY <2>1
        <5>3. ~Same(c[h][j], c[h][r])
          BY <5>2 DEF MovesUp
        <5> QED BY <5>1, <5>3, <3>4, <1>10 DEF Same
      <4>2. K[m][j] = h
        BY <2>1, <3>6, <1>2, <1>3
      <4>3. I[m][j] = j + 1
        <5>1. I[m][j] = IF m = k /\ j > Len(c[k]) THEN r
                        ELSE IF m = h /\ j >= r THEN j + 1 ELSE j
          BY <2>1, <1>4
        <5> QED BY <2>1, <3>6, <4>1, <5>1, <1>2
      <4> QED BY <2>1, <3>2, <3>3, <4>1, <4>2, <4>3 DEF Before
    <3>7. CASE m # h
      <4>1. K[m][j] = m
        BY <2>1, <3>5, <1>3
      <4> QED BY <4>1, <3>2, <3>5, <3>7 DEF Before
    <3> QED BY <3>6, <3>7
  <2>3. CASE ~(l = k /\ i > Len(c[k]))
    <3>1. K[l][i] = l
      BY <2>1, <2>3, <1>3
    <3>2. I[l][i] = IF l = h /\ i >= r THEN i + 1 ELSE i
      BY <2>1, <2>3, <1>4
    <3>3. CASE m = k /\ j > Len(c[k])
      <4>1. K[m][j] = h
        BY <2>1, <3>3, <1>3
      <4>2. l <= k
        BY <3>3, <1>10 DEF Before
      <4> QED BY <3>1, <4>1, <4>2 DEF Before
    <3>4. CASE ~(m = k /\ j > Len(c[k]))
      <4>1. K[m][j] = m
        BY <2>1, <3>4, <1>3
      <4>2. I[m][j] = IF m = h /\ j >= r THEN j + 1 ELSE j
        BY <2>1, <3>4, <1>4
      <4>3. l = m /\ i < j => I[l][i] < I[m][j]
        BY <2>1, <3>2, <4>2
      <4> QED BY <3>1, <4>1, <4>3, <1>10 DEF Before
    <3> QED BY <3>3, <3>4
  <2> QED BY <2>2, <2>3
<1>11. Embedded(c, d, K, I)
  BY <1>9, <1>10 DEF Embedded
<1> QED BY <1>11, Embeds

MovesFirst(c, d, k, h, m) ==
  /\ m <= Len(c[h])
  /\ d[k] = c[k] \o SubSeq(c[h], 1, m)
  /\ d[h] = SubSeq(c[h], m + 1, Len(c[h]))
  /\ \A l \in 1 .. 7 : l # k /\ l # h => d[l] = c[l]

\* The first m requests of a queue move to the next.
LEMMA MoveFirst ==
  ASSUME NEW c \in Lines, NEW d \in Lines, NEW b, NEW n, Ordered(c, b, n),
         NEW k \in 1 .. 7, NEW h \in 1 .. 7, h = k + 1, NEW m \in Nat,
         MovesFirst(c, d, k, h, m)
  PROVE  Ordered(d, b, n)
<1> DEFINE K == [l \in 1 .. 7 |-> [i \in Nat |->
                   IF l = k /\ i > Len(c[k]) THEN h ELSE l]]
           I == [l \in 1 .. 7 |-> [i \in Nat |->
                   IF l = k /\ i > Len(c[k]) THEN i - Len(c[k])
                   ELSE IF l = h THEN i + m ELSE i]]
           a == SubSeq(c[h], 1, m)
<1>1. \A l \in 1 .. 7 : Len(c[l]) \in Nat /\ Len(d[l]) \in Nat
  BY LineTypes
<1>2. h # k /\ c[k] \in Seq(Requests) /\ c[h] \in Seq(Requests)
  <2>1. h # k
    OBVIOUS
  <2> QED BY <2>1, LineTypes
<1>3. m <= Len(c[h]) /\ Len(c[h]) \in Nat /\ Len(c[k]) \in Nat
  BY <1>1 DEF MovesFirst
<1>4. \A l \in 1 .. 7 : \A i \in Nat :
        K[l][i] = IF l = k /\ i > Len(c[k]) THEN h ELSE l
  OBVIOUS
<1>5. \A l \in 1 .. 7 : \A i \in Nat :
        I[l][i] = IF l = k /\ i > Len(c[k]) THEN i - Len(c[k])
                  ELSE IF l = h THEN i + m ELSE i
  OBVIOUS
<1>6. a \in Seq(Requests) /\ Len(a) = m /\ \A i \in 1 .. m : a[i] = c[h][i]
  BY <1>2, <1>3, Slice
<1>7. d[k] = c[k] \o a
  BY DEF MovesFirst
<1> HIDE DEF K, I, a
<1>8. /\ Len(d[k]) = Len(c[k]) + m
      /\ \A i \in 1 .. Len(c[k]) + m :
           d[k][i] = IF i <= Len(c[k]) THEN c[k][i] ELSE a[i - Len(c[k])]
  <2>1. Len(d[k]) = Len(c[k]) + Len(a)
    <3>1. c[k] \in Seq(Requests) /\ a \in Seq(Requests)
      BY <1>2, <1>6
    <3>2. Len(c[k] \o a) = Len(c[k]) + Len(a)
      BY <3>1, Concat
    <3> QED BY <3>2, <1>7
  <2>2. \A i \in 1 .. Len(c[k]) + Len(a) :
           d[k][i] = IF i <= Len(c[k]) THEN c[k][i] ELSE a[i - Len(c[k])]
    BY <1>2, <1>6, <1>7, Concat
  <2>3. Len(a) = m
    BY <1>6
  <2> QED BY <2>1, <2>2, <2>3
<1>9. /\ Len(d[h]) = Len(c[h]) - m
      /\ \A i \in 1 .. Len(c[h]) - m : d[h][i] = c[h][i + m]
  BY <1>2, <1>3, Slice DEF MovesFirst
<1>10. \A l \in 1 .. 7 : \A i \in 1 .. Len(d[l]) : i \in Nat /\ i >= 1 /\ i <= Len(d[l])
  BY <1>1
<1>11. ASSUME NEW l \in 1 .. 7, NEW i \in 1 .. Len(d[l])
      PROVE  /\ K[l][i] \in 1 .. 7 /\ I[l][i] \in 1 .. Len(c[K[l][i]])
             /\ d[l][i] = c[K[l][i]][I[l][i]]
  <2>1. i \in Nat /\ i >= 1 /\ i <= Len(d[l])
    BY <1>10
  <2>2. CASE l = k /\ i <= Len(c[k])
    <3>1. K[l][i] = k
      BY <2>1, <2>2, <1>4, <1>3
    <3>2. I[l][i] = i
      <4>1. I[l][i] = IF l = k /\ i > Len(c[k]) THEN i - Len(c[k])
                      ELSE IF l = h THEN i + m ELSE i
        BY <2>1, <1>5
      <4> QED BY <2>1, <2>2, <4>1, <1>2, <1>3
    <3>3. i \in 1 .. Len(c[k]) /\ i \in 1 .. Len(c[k]) + m
      BY <2>1, <2>2, <1>3
    <3>4. d[l][i] = c[k][i]
      BY <2>2, <3>3, <1>8
    <3> QED BY <3>1, <3>2, <3>3, <3>4
  <2>3. CASE l = k /\ i > Len(c[k])
    <3>1. K[l][i] = h
      BY <2>1, <2>3, <1>4
    <3>2. I[l][i] = i - Len(c[k])
      BY <2>1, <2>3, <1>5
    <3>3. i \in 1 .. Len(c[k]) + m
      BY <2>1, <2>3, <1>8
    <3>4. i - Len(c[k]) \in 1 .. m
      BY <2>1, <2>3, <3>3, <1>3
    <3>5. d[l][i] = a[i - Len(c[k])]
      BY <2>1, <2>3, <3>3, <1>8, <1>3
    <3>6. a[i - Len(c[k])] = c[h][i - Len(c[k])]
      BY <3>4, <1>6
    <3>7. i - Len(c[k]) \in 1 .. Len(c[h])
      BY <3>4, <1>3
    <3> QED BY <3>1, <3>2, <3>5, <3>6, <3>7
  <2>4. CASE l = h
    <3>1. K[l][i] = h
      BY <2>1, <2>4, <1>2, <1>4
    <3>2. I[l][i] = i + m
      BY <2>1, <2>4, <1>2, <1>5
    <3>3. i \in 1 .. Len(c[h]) - m
      BY <2>4, <1>9
    <3>4. d[h][i] = c[h][i + m]
      BY <3>3, <1>9
    <3>5. i + m \in 1 .. Len(c[h])
      BY <2>1, <3>3, <1>3
    <3> QED BY <2>4, <3>1, <3>2, <3>4, <3>5
  <2>5. CASE l # k /\ l # h
    <3>1. K[l][i] = l
      BY <2>1, <2>5, <1>4
    <3>2. I[l][i] = i
      BY <2>1, <2>5, <1>5
    <3>3. d[l] = c[l]
      BY <2>5 DEF MovesFirst
    <3> QED BY <3>1, <3>2, <3>3
  <2>6. i <= Len(c[k]) \/ i > Len(c[k])
    BY <2>1, <1>3
  <2> QED BY <2>2, <2>3, <2>4, <2>5, <2>6
<1>12. ASSUME NEW l \in 1 .. 7, NEW q \in 1 .. 7,
             NEW i \in 1 .. Len(d[l]), NEW j \in 1 .. Len(d[q]), Before(l, i, q, j)
      PROVE  Before(K[l][i], I[l][i], K[q][j], I[q][j])
  <2>1. i \in Nat /\ j \in Nat /\ j >= 1
    BY <1>10
  <2>2. l = k => i <= Len(c[k]) + m
    BY <1>8, <1>10
  <2>3. K[l][i] = IF l = k /\ i > Len(c[k]) THEN h ELSE l
    BY <2>1, <1>4
  <2>4. K[q][j] = IF q = k /\ j > Len(c[k]) THEN h ELSE q
    BY <2>1, <1>4
  <2>5. I[l][i] = IF l = k /\ i > Len(c[k]) THEN i - Len(c[k])
                  ELSE IF l = h THEN i + m ELSE i
    BY <2>1, <1>5
  <2>6. I[q][j] = IF q = k /\ j > Len(c[k]) THEN j - Len(c[k])
                  ELSE IF q = h THEN j + m ELSE j
    BY <2>1, <1>5
  <2> QED BY <2>1, <2>2, <2>3, <2>4, <2>5, <2>6, <1>3, <1>12 DEF Before
<1>13. Embedded(c, d, K, I)
  BY <1>11, <1>12 DEF Embedded
<1> QED BY <1>13, Embeds

Loses(c, d, k, r) ==
  /\ r \in 1 .. Len(c[k])
  /\ Drops(c[k], d[k], r)
  /\ \A l \in 1 .. 7 : l # k => d[l] = c[l]

\* A request leaves a queue.
LEMMA Leaves ==
  ASSUME NEW c \in Lines, NEW d \in Lines, NEW b, NEW n, Ordered(c, b, n),
         NEW k \in 1 .. 7, NEW r \in Nat, Loses(c, d, k, r)
  PROVE  Ordered(d, b, n)
<1> DEFINE K == [l \in 1 .. 7 |-> [i \in Nat |-> l]]
           I == [l \in 1 .. 7 |-> [i \in Nat |->
                   IF l = k /\ i >= r THEN i + 1 ELSE i]]
<1>1. \A l \in 1 .. 7 : Len(c[l]) \in Nat /\ Len(d[l]) \in Nat
  BY LineTypes
<1>2. r >= 1 /\ r <= Len(c[k]) /\ Len(c[k]) \in Nat
  <2>1. r \in 1 .. Len(c[k])
    BY DEF Loses
  <2>2. Len(c[k]) \in Nat
    BY <1>1
  <2> QED BY <2>1, <2>2
<1>3. \A l \in 1 .. 7 : \A i \in Nat : K[l][i] = l
  OBVIOUS
<1>4. \A l \in 1 .. 7 : \A i \in Nat :
        I[l][i] = IF l = k /\ i >= r THEN i + 1 ELSE i
  OBVIOUS
<1> HIDE DEF K, I
<1>5. \A l \in 1 .. 7 : \A i \in 1 .. Len(d[l]) : i \in Nat /\ i >= 1 /\ i <= Len(d[l])
  BY <1>1
<1>6. ASSUME NEW l \in 1 .. 7, NEW i \in 1 .. Len(d[l])
      PROVE  /\ K[l][i] \in 1 .. 7 /\ I[l][i] \in 1 .. Len(c[K[l][i]])
             /\ d[l][i] = c[K[l][i]][I[l][i]]
  <2>1. i \in Nat /\ i >= 1 /\ i <= Len(d[l])
    BY <1>5
  <2>2. K[l][i] = l
    BY <2>1, <1>3
  <2>3. CASE l = k
    <3>1. I[l][i] = IF i >= r THEN i + 1 ELSE i
      BY <2>1, <2>3, <1>4
    <3>2. d[l][i] = c[k][IF i < r THEN i ELSE i + 1]
      BY <2>3 DEF Loses, Drops
    <3>3. (IF i < r THEN i ELSE i + 1) = (IF i >= r THEN i + 1 ELSE i)
      BY <2>1
    <3>4. Len(d[l]) = Len(c[k]) - 1
      BY <2>3 DEF Loses, Drops
    <3>5. I[l][i] \in 1 .. Len(c[k])
      BY <2>1, <3>1, <3>4, <1>2
    <3> QED BY <2>3, <2>2, <3>1, <3>2, <3>3, <3>5
  <2>4. CASE l # k
    <3>1. I[l][i] = i
      BY <2>1, <2>4, <1>4
    <3>2. d[l] = c[l]
      BY <2>4 DEF Loses
    <3> QED BY <2>2, <3>1, <3>2
  <2> QED BY <2>3, <2>4
<1>7. ASSUME NEW l \in 1 .. 7, NEW m \in 1 .. 7,
             NEW i \in 1 .. Len(d[l]), NEW j \in 1 .. Len(d[m]), Before(l, i, m, j)
      PROVE  Before(K[l][i], I[l][i], K[m][j], I[m][j])
  <2>1. i \in Nat /\ j \in Nat
    BY <1>5
  <2>2. K[l][i] = l /\ K[m][j] = m
    BY <2>1, <1>3
  <2>3. I[l][i] = IF l = k /\ i >= r THEN i + 1 ELSE i
    BY <2>1, <1>4
  <2>4. I[m][j] = IF m = k /\ j >= r THEN j + 1 ELSE j
    BY <2>1, <1>4
  <2> QED BY <2>1, <2>2, <2>3, <2>4, <1>7 DEF Before
<1>8. Embedded(c, d, K, I)
  BY <1>6, <1>7 DEF Embedded
<1> QED BY <1>8, Embeds

Gains(c, d, k, x) ==
  /\ d[k] = Append(c[k], x)
  /\ \A l \in 1 .. 7 : l # k => d[l] = c[l]

\* A request of another bank joins a queue.
LEMMA OtherJoins ==
  ASSUME NEW c \in Lines, NEW d \in Lines, NEW b, NEW n, Ordered(c, b, n),
         NEW k \in 1 .. 7, NEW x \in Requests, x.bank # b, Gains(c, d, k, x)
  PROVE  Ordered(d, b, n)
<1>1. Len(c[k]) \in Nat /\ c[k] \in Seq(Requests)
  BY LineTypes
<1>2. /\ Len(d[k]) = Len(c[k]) + 1
      /\ \A h \in 1 .. Len(c[k]) + 1 : d[k][h] = IF h <= Len(c[k]) THEN c[k][h] ELSE x
  <2>1. d[k] = Append(c[k], x)
    BY DEF Gains
  <2> QED BY <1>1, <2>1, Appended
<1>3. ASSUME NEW l \in 1 .. 7, NEW i \in 1 .. Len(d[l]), d[l][i].bank = b
      PROVE  i \in 1 .. Len(c[l]) /\ d[l][i] = c[l][i]
  <2>1. CASE l = k
    <3>1. i \in 1 .. Len(c[k]) + 1
      BY <2>1, <1>2
    <3>2. i <= Len(c[k])
      BY <2>1, <3>1, <1>1, <1>2, <1>3
    <3> QED BY <2>1, <3>1, <3>2, <1>1, <1>2
  <2>2. CASE l # k
    <3>1. d[l] = c[l]
      BY <2>2 DEF Gains
    <3> QED BY <3>1
  <2> QED BY <2>1, <2>2
<1>4. \A l \in 1 .. 7 : \A i \in 1 .. Len(d[l]) : d[l][i].bank = b => d[l][i].id <= n
  BY <1>3 DEF Ordered
<1>5. ASSUME NEW p \in 1 .. 7, NEW l \in 1 .. 7, NEW i \in 1 .. Len(d[p]), NEW j \in 1 .. Len(d[l]),
             Before(p, i, l, j), d[p][i].bank = b, Same(d[p][i], d[l][j])
      PROVE  d[p][i].id < d[l][j].id
  <2>1. d[l][j].bank = b
    BY <1>5 DEF Same
  <2>2. /\ i \in 1 .. Len(c[p]) /\ d[p][i] = c[p][i]
        /\ j \in 1 .. Len(c[l]) /\ d[l][j] = c[l][j]
    BY <2>1, <1>3, <1>5
  <2> QED BY <2>2, <1>5 DEF Ordered
<1> QED BY <1>4, <1>5 DEF Ordered

LEMMA RequestTypes == \A m \in Requests : m.id \in Nat /\ m.bank \in Banks /\ m.bank \in Nat
  BY PartitionAssumption DEF Requests, Banks

\* A request with a new id joins the last queue.
LEMMA NewJoins ==
  ASSUME NEW c \in Lines, NEW d \in Lines, NEW b, NEW n \in Nat, Ordered(c, b, n),
         NEW x \in Requests, x.id = n + 1, Gains(c, d, 7, x)
  PROVE  Ordered(d, b, n + 1)
<1>1. Len(c[7]) \in Nat /\ c[7] \in Seq(Requests)
  BY LineTypes
<1>2. /\ Len(d[7]) = Len(c[7]) + 1
      /\ \A h \in 1 .. Len(c[7]) + 1 : d[7][h] = IF h <= Len(c[7]) THEN c[7][h] ELSE x
  <2>1. d[7] = Append(c[7], x)
    BY DEF Gains
  <2> QED BY <1>1, <2>1, Appended
<1>3. ASSUME NEW l \in 1 .. 7, NEW i \in 1 .. Len(d[l])
      PROVE  \/ i \in 1 .. Len(c[l]) /\ d[l][i] = c[l][i]
             \/ l = 7 /\ i = Len(c[7]) + 1 /\ d[l][i] = x
  <2>1. CASE l = 7
    <3>1. i \in 1 .. Len(c[7]) + 1
      BY <2>1, <1>2
    <3>2. CASE i <= Len(c[7])
      BY <2>1, <3>1, <3>2, <1>1, <1>2
    <3>3. CASE i > Len(c[7])
      BY <2>1, <3>1, <3>3, <1>1, <1>2
    <3> QED BY <3>1, <3>2, <3>3, <1>1
  <2>2. CASE l # 7
    <3>1. d[l] = c[l]
      BY <2>2 DEF Gains
    <3> QED BY <3>1
  <2> QED BY <2>1, <2>2
<1>4. ASSUME NEW l \in 1 .. 7, NEW i \in 1 .. Len(c[l])
      PROVE  c[l][i].id \in Nat
  <2>1. c[l][i] \in Requests
    BY LineTypes
  <2> QED BY <2>1, RequestTypes
<1>5. ASSUME NEW l \in 1 .. 7, NEW i \in 1 .. Len(d[l]), d[l][i].bank = b
      PROVE  d[l][i].id <= n + 1
  <2>1. CASE i \in 1 .. Len(c[l]) /\ d[l][i] = c[l][i]
    <3>1. c[l][i].id <= n
      BY <2>1, <1>5 DEF Ordered
    <3>2. c[l][i].id \in Nat
      BY <2>1, <1>4
    <3> QED BY <2>1, <3>1, <3>2
  <2>2. CASE d[l][i] = x
    BY <2>2
  <2> QED BY <2>1, <2>2, <1>3
<1>6. ASSUME NEW k \in 1 .. 7, NEW l \in 1 .. 7, NEW i \in 1 .. Len(d[k]), NEW j \in 1 .. Len(d[l]),
             Before(k, i, l, j), d[k][i].bank = b, Same(d[k][i], d[l][j])
      PROVE  d[k][i].id < d[l][j].id
  <2>1. ~(k = 7 /\ i = Len(c[7]) + 1)
    <3> SUFFICES ASSUME k = 7, i = Len(c[7]) + 1 PROVE FALSE
      OBVIOUS
    <3>1. l = 7 /\ i < j
      BY <1>6 DEF Before
    <3>2. j \in 1 .. Len(c[7]) + 1
      BY <3>1, <1>2
    <3> QED BY <3>1, <3>2, <1>1
  <2>2. i \in 1 .. Len(c[k]) /\ d[k][i] = c[k][i]
    BY <2>1, <1>3
  <2>3. CASE j \in 1 .. Len(c[l]) /\ d[l][j] = c[l][j]
    BY <2>2, <2>3, <1>6 DEF Ordered
  <2>4. CASE d[l][j] = x
    <3>1. c[k][i].id <= n
      BY <2>2, <1>6 DEF Ordered
    <3>2. c[k][i].id \in Nat
      BY <2>2, <1>4
    <3> QED BY <2>2, <2>4, <3>1, <3>2
  <2> QED BY <2>3, <2>4, <1>3
<1> QED BY <1>5, <1>6 DEF Ordered

-----------------------------------------------------------------------------
(* The partition.                                                          *)

Fields ==
  {"toDram", "latency", "mrqq", "pending", "bank", "open", "rwq", "returnq",
   "fromDram", "private", "shared", "last"}

\* Requests are in the queue of their sub-partition and with their bank.
Shape(p) ==
  /\ DOMAIN p = Fields
  /\ p.rwq \in Seq(Requests) /\ p.pending \in Seq(Requests)
  /\ p.mrqq \in Seq(Requests) /\ p.latency \in Seq(Requests)
  /\ p.toDram \in [Subs -> Seq(Requests)] /\ p.bank \in [Banks -> Seq(Requests)]
  /\ Len(p.pending) <= schedSize
  /\ p.last \in Subs
  /\ \A s \in Subs : \A i \in 1 .. Len(p.toDram[s]) : SubOf(p.toDram[s][i]) = s
  /\ \A b \in Banks : p.bank[b] # <<>> =>
       \E m \in Requests : m.bank = b /\ p.bank[b] = <<m>>

\* The way of the requests of bank b, the last stage first.
Line(p, out, b) ==
  <<out, p.rwq, p.bank[b], p.pending, p.mrqq, p.latency, p.toDram[b % SubCount]>>

Good(p, out, n) ==
  /\ Shape(p) /\ out \in Seq(Requests)
  /\ \A b \in Banks : Ordered(Line(p, out, b), b, n)

LEMMA SubOfBank == \A b \in Banks : b % SubCount \in Subs
<1>1. SubCount \in Nat /\ SubCount > 0 /\ BankCount \in Nat
  BY PartitionAssumption
<1>2. \A b \in Banks : b \in Nat
  BY <1>1 DEF Banks
<1> QED BY <1>1, <1>2 DEF Subs

LEMMA LineOf ==
  ASSUME NEW p, Shape(p), NEW out \in Seq(Requests), NEW b \in Banks, NEW c,
         c = Line(p, out, b)
  PROVE  /\ c \in Lines
         /\ c[1] = out /\ c[2] = p.rwq /\ c[3] = p.bank[b] /\ c[4] = p.pending
         /\ c[5] = p.mrqq /\ c[6] = p.latency /\ c[7] = p.toDram[b % SubCount]
<1>1. p.bank[b] \in Seq(Requests) /\ p.toDram[b % SubCount] \in Seq(Requests)
  BY SubOfBank DEF Shape
<1>2. /\ c[1] = out /\ c[2] = p.rwq /\ c[3] = p.bank[b] /\ c[4] = p.pending
      /\ c[5] = p.mrqq /\ c[6] = p.latency /\ c[7] = p.toDram[b % SubCount]
  BY DEF Line
<1>3. c \in [1 .. 7 -> Seq(Requests)]
  <2>1. /\ p.rwq \in Seq(Requests) /\ p.pending \in Seq(Requests)
        /\ p.mrqq \in Seq(Requests) /\ p.latency \in Seq(Requests)
    BY DEF Shape
  <2>2. DOMAIN c = 1 .. 7 /\ c = [l \in 1 .. 7 |-> c[l]]
    BY DEF Line
  <2>3. \A l \in 1 .. 7 : l = 1 \/ l = 2 \/ l = 3 \/ l = 4 \/ l = 5 \/ l = 6 \/ l = 7
    OBVIOUS
  <2>4. \A l \in 1 .. 7 : c[l] \in Seq(Requests)
    BY <2>1, <2>3, <1>1, <1>2
  <2> QED BY <2>2, <2>4
<1> QED BY <1>2, <1>3 DEF Lines

\* q has the same requests in the same queues as p.
Alike(p, q) ==
  /\ DOMAIN q = Fields
  /\ q.rwq = p.rwq /\ q.pending = p.pending /\ q.mrqq = p.mrqq
  /\ q.latency = p.latency /\ q.toDram = p.toDram /\ q.bank = p.bank

LEMMA AlikeGood ==
  ASSUME NEW p, NEW q, NEW out, NEW n, Good(p, out, n), Alike(p, q), q.last \in Subs
  PROVE  Good(q, out, n)
<1>1. Shape(q)
  BY DEF Good, Shape, Alike
<1>2. \A b \in Banks : Line(q, out, b) = Line(p, out, b)
  BY DEF Line, Alike
<1> QED BY <1>1, <1>2 DEF Good

LEMMA CreditAlike ==
  ASSUME NEW p, DOMAIN p = Fields, NEW s
  PROVE  /\ Alike(p, ReturnCredit(p, s)) /\ ReturnCredit(p, s).last = p.last
         /\ Alike(p, Borrow(p, s)) /\ Borrow(p, s).last = s
<1>1. PICK x : x = [p.private EXCEPT ![s] = @ - 1]
  OBVIOUS
<1>2. PICK y : y = [p.private EXCEPT ![s] = @ + 1]
  OBVIOUS
<1>3. \A z : Alike(p, [p EXCEPT !.private = z]) /\ [p EXCEPT !.private = z].last = p.last
  BY DEF Alike, Fields
<1>4. \A z : Alike(p, [p EXCEPT !.shared = z]) /\ [p EXCEPT !.shared = z].last = p.last
  BY DEF Alike, Fields
<1>5. \A z : /\ Alike(p, [p EXCEPT !.private = z, !.last = s])
             /\ [p EXCEPT !.private = z, !.last = s].last = s
  BY DEF Alike, Fields
<1>6. \A z : /\ Alike(p, [p EXCEPT !.shared = z, !.last = s])
             /\ [p EXCEPT !.shared = z, !.last = s].last = s
  BY DEF Alike, Fields
<1>7. ReturnCredit(p, s) = IF p.private[s] > 0 THEN [p EXCEPT !.private = x]
                                               ELSE [p EXCEPT !.shared = p.shared - 1]
  BY <1>1 DEF ReturnCredit
<1>8. Borrow(p, s) = IF p.private[s] < 1 THEN [p EXCEPT !.private = y, !.last = s]
                                         ELSE [p EXCEPT !.shared = p.shared + 1, !.last = s]
  BY <1>2 DEF Borrow
<1>9. Alike(p, ReturnCredit(p, s)) /\ ReturnCredit(p, s).last = p.last
  <2>1. CASE p.private[s] > 0
    BY <2>1, <1>3, <1>7
  <2>2. CASE ~(p.private[s] > 0)
    BY <2>2, <1>4, <1>7
  <2> QED BY <2>1, <2>2
<1>10. Alike(p, Borrow(p, s)) /\ Borrow(p, s).last = s
  <2>1. CASE p.private[s] < 1
    BY <2>1, <1>5, <1>8
  <2>2. CASE ~(p.private[s] < 1)
    BY <2>2, <1>6, <1>8
  <2> QED BY <2>1, <2>2
<1> QED BY <1>9, <1>10

LEMMA ReturnGood ==
  ASSUME NEW p, NEW out, NEW n, Good(p, out, n)
  PROVE  Good(Return(p), out, n) /\ Return(p).rwq = p.rwq
<1>1. CASE Return(p) = p
  BY <1>1
<1>2. CASE Return(p) # p
  <2>1. PICK m, u, v : Return(p) = ReturnCredit([p EXCEPT !.fromDram = u, !.returnq = v], m)
    BY <1>2 DEF Return
  <2>2. PICK q : q = [p EXCEPT !.fromDram = u, !.returnq = v]
    OBVIOUS
  <2>3. Alike(p, q) /\ q.last = p.last /\ DOMAIN q = Fields
    BY <2>2 DEF Good, Shape, Alike, Fields
  <2>4. PICK r : r = ReturnCredit(q, m)
    OBVIOUS
  <2>5. Alike(q, r) /\ r.last = q.last
    BY <2>3, <2>4, CreditAlike
  <2>6. Alike(p, r) /\ r.last \in Subs
    BY <2>3, <2>5 DEF Alike, Good, Shape
  <2>7. r.rwq = p.rwq
    BY <2>6 DEF Alike
  <2>8. Good(r, out, n)
    BY <2>6, AlikeGood
  <2> QED BY <2>1, <2>2, <2>4, <2>7, <2>8
<1> QED BY <1>1, <1>2

\* What finishes leaves the commands in flight for the requests served.
LEMMA FinishGood ==
  ASSUME NEW p, NEW out, NEW n, Good(p, out, n), NEW done \in BOOLEAN
  PROVE  \/ Finish(p, done) = p
         \/ /\ p.rwq # <<>> /\ Finish(p, done).rwq = Tail(p.rwq)
            /\ Good(Finish(p, done), Append(out, Head(p.rwq)), n)
<1> SUFFICES ASSUME Finish(p, done) # p
             PROVE  /\ p.rwq # <<>> /\ Finish(p, done).rwq = Tail(p.rwq)
                    /\ Good(Finish(p, done), Append(out, Head(p.rwq)), n)
  OBVIOUS
<1>1. p.rwq # <<>>
  BY DEF Finish
<1> DEFINE m == Head(p.rwq)
           popped == [p EXCEPT !.rwq = Tail(@)]
<1>2. PICK q : q = popped
  OBVIOUS
<1>3. /\ DOMAIN q = Fields /\ q.rwq = Tail(p.rwq) /\ q.last = p.last
      /\ q.pending = p.pending /\ q.mrqq = p.mrqq
      /\ q.latency = p.latency /\ q.toDram = p.toDram /\ q.bank = p.bank
  BY <1>2 DEF Good, Shape, Fields
<1>4. PICK r : r = Finish(p, done)
  OBVIOUS
<1>5. r = IF m.kind = "wrbk" THEN ReturnCredit(q, SubOf(m))
                             ELSE [q EXCEPT !.returnq = Append(@, m)]
  BY <1>1, <1>2, <1>4 DEF Finish
<1>6. Alike(q, r) /\ r.last = q.last
  <2>1. CASE r = ReturnCredit(q, SubOf(m))
    BY <2>1, <1>3, CreditAlike
  <2>2. CASE r = [q EXCEPT !.returnq = Append(@, m)]
    <3>1. \A z : /\ Alike(q, [q EXCEPT !.returnq = z])
                 /\ [q EXCEPT !.returnq = z].last = q.last
      BY <1>3 DEF Alike, Fields
    <3> QED BY <2>2, <3>1
  <2> QED BY <1>5, <2>1, <2>2
<1>7. p.rwq \in Seq(Requests) /\ m \in Requests /\ Append(out, m) \in Seq(Requests)
  BY <1>1 DEF Good, Shape
<1>8. Tail(p.rwq) \in Seq(Requests) /\ Drops(p.rwq, Tail(p.rwq), 1)
  BY <1>1, <1>7, TailDrops
<1>9. Shape(q)
  BY <1>3, <1>8 DEF Good, Shape
<1>10. ASSUME NEW b \in Banks
       PROVE  Ordered(Line(q, Append(out, m), b), b, n)
  <2>1. PICK c : c = Line(p, out, b)
    OBVIOUS
  <2>2. PICK d : d = Line(q, Append(out, m), b)
    OBVIOUS
  <2>3. /\ c \in Lines
        /\ c[1] = out /\ c[2] = p.rwq /\ c[3] = p.bank[b] /\ c[4] = p.pending
        /\ c[5] = p.mrqq /\ c[6] = p.latency /\ c[7] = p.toDram[b % SubCount]
    BY <2>1, LineOf DEF Good
  <2>4. /\ d \in Lines
        /\ d[1] = Append(out, m) /\ d[2] = q.rwq /\ d[3] = q.bank[b] /\ d[4] = q.pending
        /\ d[5] = q.mrqq /\ d[6] = q.latency /\ d[7] = q.toDram[b % SubCount]
    <3>1. PICK o : o = Append(out, m)
      OBVIOUS
    <3>2. o \in Seq(Requests) /\ d = Line(q, o, b)
      BY <3>1, <2>2, <1>7
    <3>3. /\ d \in Lines /\ d[1] = o
          /\ d[2] = q.rwq /\ d[3] = q.bank[b] /\ d[4] = q.pending
          /\ d[5] = q.mrqq /\ d[6] = q.latency /\ d[7] = q.toDram[b % SubCount]
      BY <3>2, <1>9, LineOf
    <3> QED BY <3>1, <3>3
  <2>5. MovesUp(c, d, 1, 2, 1)
    <3>1. 1 \in 1 .. Len(p.rwq) /\ p.rwq[1] = m
      BY <1>1, <1>7
    <3>2. \A l \in 1 .. 7 : l # 1 /\ l # 2 => l = 3 \/ l = 4 \/ l = 5 \/ l = 6 \/ l = 7
      OBVIOUS
    <3>3. \A l \in 1 .. 7 : l # 1 /\ l # 2 => d[l] = c[l]
      BY <2>3, <2>4, <3>2, <1>3
    <3>4. \A i \in 1 .. 1 - 1 : FALSE
      OBVIOUS
    <3> HIDE DEF m
    <3> QED BY <2>3, <2>4, <3>1, <3>3, <3>4, <1>3, <1>8 DEF MovesUp
  <2>6. Ordered(c, b, n)
    BY <2>1 DEF Good
  <2>7. 1 \in 1 .. 7 /\ 2 \in 1 .. 7 /\ 2 = 1 + 1 /\ 1 \in Nat
    OBVIOUS
  <2> QED BY <2>2, <2>3, <2>4, <2>5, <2>6, <2>7, MoveUp
<1>11. Good(q, Append(out, m), n)
  BY <1>7, <1>9, <1>10 DEF Good
<1>12. r.last \in Subs
  BY <1>6, <1>9 DEF Shape
<1> HIDE DEF m, popped
<1>13. Good(r, Append(out, m), n)
  BY <1>6, <1>11, <1>12, AlikeGood
<1>14. r.rwq = Tail(p.rwq)
  BY <1>3, <1>6 DEF Alike
<1> QED BY <1>1, <1>4, <1>13, <1>14 DEF m

LEMMA LeastNatural ==
  ASSUME NEW T \in SUBSET Nat, T # {}
  PROVE  Min(T) \in T /\ \A m \in T : Min(T) <= m
<1>1. PICK top \in T : TRUE
  OBVIOUS
<1>2. IsWellFoundedOn(StrictSubsetOrdering(0 .. top), SUBSET (0 .. top))
  <2>1. IsFiniteSet(0 .. top)
    BY FS_Interval
  <2> QED BY <2>1, FS_StrictSubsetOrderingWellFounded, FS_FiniteSubsetsOfFinite
<1>3. PICK M : M = {0 .. m : m \in {k \in T : k <= top}}
  OBVIOUS
<1>4. M # {} /\ M \subseteq SUBSET (0 .. top)
  BY <1>3
<1>5. PICK x \in M :
        \A y \in M : ~(<<y, x>> \in StrictSubsetOrdering(0 .. top))
  BY <1>2, <1>4, WFMin
<1>6. PICK n \in T : n <= top /\ x = 0 .. n
  BY <1>3
<1>7. ASSUME NEW m \in T, m < n PROVE FALSE
  <2>1. 0 .. m \in M
    BY <1>3, <1>6, <1>7
  <2>2. 0 .. m \subseteq 0 .. n /\ n \in 0 .. n /\ n \notin 0 .. m
    BY <1>7
  <2>3. 0 .. m \in SUBSET (0 .. top) /\ 0 .. n \in SUBSET (0 .. top)
    BY <1>6, <1>7
  <2> QED BY <1>5, <1>6, <2>1, <2>2, <2>3 DEF StrictSubsetOrdering
<1>8. \A m \in T : n <= m
  BY <1>7
<1> QED BY <1>6, <1>8 DEF Min

\* The scheduler's queue grows by the first requests of mrqq.
LEMMA AddGood ==
  ASSUME NEW p, NEW out, NEW n, Good(p, out, n), schedSize \in Nat
  PROVE  Good(AddRequests(p), out, n)
<1>1. PICK k : k = Min({Len(p.mrqq), schedSize - Len(p.pending)})
  OBVIOUS
<1>2. /\ p.pending \in Seq(Requests) /\ p.mrqq \in Seq(Requests)
      /\ Len(p.pending) \in Nat /\ Len(p.mrqq) \in Nat /\ Len(p.pending) <= schedSize
  <2>1. p.pending \in Seq(Requests) /\ p.mrqq \in Seq(Requests) /\ Len(p.pending) <= schedSize
    BY DEF Good, Shape
  <2> QED BY <2>1
<1>3. k \in Nat /\ k <= Len(p.mrqq) /\ k <= schedSize - Len(p.pending)
  <2>1. {Len(p.mrqq), schedSize - Len(p.pending)} \in SUBSET Nat
    BY <1>2
  <2> QED BY <2>1, <1>1, LeastNatural
<1>4. PICK x, v : x = SubSeq(p.mrqq, 1, k) /\ v = SubSeq(p.mrqq, k + 1, Len(p.mrqq))
  OBVIOUS
<1>5. x \in Seq(Requests) /\ v \in Seq(Requests) /\ Len(x) = k
  BY <1>2, <1>3, <1>4, Slice
<1>6. PICK u : u = p.pending \o x
  OBVIOUS
<1>7. u \in Seq(Requests) /\ Len(u) <= schedSize
  <2>1. u \in Seq(Requests) /\ Len(u) = Len(p.pending) + Len(x)
    BY <1>2, <1>5, <1>6, Concat
  <2> QED BY <2>1, <1>2, <1>3, <1>5
<1>8. PICK q : q = [p EXCEPT !.pending = u, !.mrqq = v]
  OBVIOUS
<1>9. AddRequests(p) = q
  BY <1>1, <1>4, <1>6, <1>8 DEF AddRequests
<1>10. /\ DOMAIN q = Fields /\ q.rwq = p.rwq /\ q.last = p.last
       /\ q.pending = u /\ q.mrqq = v
       /\ q.latency = p.latency /\ q.toDram = p.toDram /\ q.bank = p.bank
  BY <1>8 DEF Good, Shape, Fields
<1>11. Shape(q)
  BY <1>5, <1>7, <1>10 DEF Good, Shape
<1>12. ASSUME NEW b \in Banks
       PROVE  Ordered(Line(q, out, b), b, n)
  <2>1. PICK c, d : c = Line(p, out, b) /\ d = Line(q, out, b)
    OBVIOUS
  <2>2. /\ c \in Lines
        /\ c[1] = out /\ c[2] = p.rwq /\ c[3] = p.bank[b] /\ c[4] = p.pending
        /\ c[5] = p.mrqq /\ c[6] = p.latency /\ c[7] = p.toDram[b % SubCount]
    BY <2>1, LineOf DEF Good
  <2>3. /\ d \in Lines
        /\ d[1] = out /\ d[2] = q.rwq /\ d[3] = q.bank[b] /\ d[4] = q.pending
        /\ d[5] = q.mrqq /\ d[6] = q.latency /\ d[7] = q.toDram[b % SubCount]
    BY <2>1, <1>11, LineOf DEF Good
  <2>4. \A l \in 1 .. 7 : l # 4 /\ l # 5 => d[l] = c[l]
    <3>1. \A l \in 1 .. 7 : l # 4 /\ l # 5 => l = 1 \/ l = 2 \/ l = 3 \/ l = 6 \/ l = 7
      OBVIOUS
    <3> QED BY <2>2, <2>3, <3>1, <1>10
  <2>5. MovesFirst(c, d, 4, 5, k)
    BY <2>2, <2>3, <2>4, <1>3, <1>4, <1>6, <1>10 DEF MovesFirst
  <2>6. Ordered(c, b, n)
    BY <2>1 DEF Good
  <2>7. 4 \in 1 .. 7 /\ 5 \in 1 .. 7 /\ 5 = 4 + 1
    OBVIOUS
  <2> QED BY <2>1, <2>2, <2>3, <2>5, <2>6, <2>7, <1>3, MoveFirst
<1> QED BY <1>9, <1>11, <1>12 DEF Good

\* The request chosen is of its bank, and the oldest for its row.
LEMMA ChosenOldest ==
  ASSUME NEW p, p.pending \in Seq(Requests), NEW b, InBank(p, b) # {}
  PROVE  /\ Chosen(p, b) \in 1 .. Len(p.pending)
         /\ p.pending[Chosen(p, b)].bank = b
         /\ \A i \in 1 .. Chosen(p, b) - 1 :
              ~Same(p.pending[i], p.pending[Chosen(p, b)])
<1>1. /\ Len(p.pending) \in Nat /\ DOMAIN p.pending = 1 .. Len(p.pending)
      /\ 1 .. Len(p.pending) \subseteq Nat
  OBVIOUS
<1>2. PICK T : T = IF RowHits(p, b) # {} THEN RowHits(p, b) ELSE InBank(p, b)
  OBVIOUS
<1>3. PICK r : r = Chosen(p, b)
  OBVIOUS
<1>4. T # {} /\ r = Min(T)
  BY <1>2, <1>3 DEF Chosen
<1>5. T \subseteq InBank(p, b) /\ InBank(p, b) \subseteq 1 .. Len(p.pending)
  BY <1>1, <1>2 DEF RowHits, InBank
<1>6. T \in SUBSET Nat
  BY <1>1, <1>5
<1>7. r \in T /\ \A i \in T : r <= i
  BY <1>4, <1>6, LeastNatural
<1>8. r \in 1 .. Len(p.pending) /\ p.pending[r].bank = b
  BY <1>5, <1>7 DEF InBank
<1>9. ASSUME NEW i \in 1 .. r - 1, Same(p.pending[i], p.pending[r]) PROVE FALSE
  <2>1. i \in 1 .. Len(p.pending) /\ i < r /\ ~(r <= i)
    BY <1>1, <1>8
  <2>2. i \in InBank(p, b)
    BY <2>1, <1>1, <1>8, <1>9 DEF InBank, Same
  <2>3. RowHits(p, b) # {} => i \in RowHits(p, b)
    <3> SUFFICES ASSUME RowHits(p, b) # {} PROVE i \in RowHits(p, b)
      OBVIOUS
    <3>1. r \in RowHits(p, b)
      BY <1>2, <1>7
    <3> QED BY <2>2, <3>1, <1>9 DEF RowHits, Same
  <2>4. i \in T
    BY <2>2, <2>3, <1>2
  <2> QED BY <2>1, <2>4, <1>7
<1> QED BY <1>3, <1>8, <1>9

\* A bank gets the oldest request for some row.
LEMMA ScheduleGood ==
  ASSUME NEW p, NEW out, NEW n, Good(p, out, n), NEW b, schedSize \in Nat
  PROVE  Good(Schedule(p, b), out, n)
<1> SUFFICES ASSUME b \in Schedulable(p) PROVE Good(Schedule(p, b), out, n)
  BY DEF Schedule
<1>1. /\ p.pending \in Seq(Requests) /\ p.bank \in [Banks -> Seq(Requests)]
      /\ Len(p.pending) <= schedSize
  BY DEF Good, Shape
<1>2. b \in Banks /\ p.bank[b] = <<>> /\ InBank(p, b) # {}
  BY DEF Schedulable
<1>3. PICK r : r = Chosen(p, b)
  OBVIOUS
<1>4. /\ r \in 1 .. Len(p.pending) /\ p.pending[r].bank = b
      /\ \A i \in 1 .. r - 1 : ~Same(p.pending[i], p.pending[r])
  BY <1>1, <1>2, <1>3, ChosenOldest
<1>5. r \in Nat /\ Len(p.pending) \in Nat /\ p.pending[r] \in Requests
  BY <1>1, <1>4
<1>6. PICK m, u, o, v : /\ m = p.pending[r] /\ u = RemoveAt(p.pending, r)
                        /\ o = [p.open EXCEPT ![b] = m.row]
                        /\ v = [p.bank EXCEPT ![b] = <<m>>]
  OBVIOUS
<1>7. u \in Seq(Requests) /\ Drops(p.pending, u, r)
  BY <1>1, <1>4, <1>6, RemoveDrops
<1>8. Len(u) <= schedSize
  BY <1>1, <1>5, <1>7 DEF Drops
<1>9. /\ v \in [Banks -> Seq(Requests)] /\ v[b] = <<m>> /\ m \in Requests /\ m.bank = b
      /\ \A a \in Banks : a # b => v[a] = p.bank[a]
  BY <1>1, <1>2, <1>4, <1>5, <1>6
<1>10. PICK q : q = [p EXCEPT !.bank = v, !.open = o, !.pending = u]
  OBVIOUS
<1>11. Schedule(p, b) = q
  BY <1>3, <1>6, <1>10 DEF Schedule
<1>12. /\ DOMAIN q = Fields /\ q.rwq = p.rwq /\ q.last = p.last
       /\ q.pending = u /\ q.mrqq = p.mrqq
       /\ q.latency = p.latency /\ q.toDram = p.toDram /\ q.bank = v
  BY <1>10 DEF Good, Shape, Fields
<1>13. ASSUME NEW a \in Banks, v[a] # <<>>
       PROVE  \E x \in Requests : x.bank = a /\ v[a] = <<x>>
  <2>1. CASE a = b
    BY <2>1, <1>9
  <2>2. CASE a # b
    <3>1. v[a] = p.bank[a] /\ p.bank[a] # <<>>
      BY <2>2, <1>9, <1>13
    <3>2. PICK x \in Requests : x.bank = a /\ p.bank[a] = <<x>>
      BY <3>1 DEF Good, Shape
    <3> QED BY <3>1, <3>2
  <2> QED BY <2>1, <2>2
<1>14. Shape(q)
  BY <1>7, <1>8, <1>9, <1>12, <1>13 DEF Good, Shape
<1>15. ASSUME NEW a \in Banks
       PROVE  Ordered(Line(q, out, a), a, n)
  <2>1. PICK c, d : c = Line(p, out, a) /\ d = Line(q, out, a)
    OBVIOUS
  <2>2. /\ c \in Lines
        /\ c[1] = out /\ c[2] = p.rwq /\ c[3] = p.bank[a] /\ c[4] = p.pending
        /\ c[5] = p.mrqq /\ c[6] = p.latency /\ c[7] = p.toDram[a % SubCount]
    BY <2>1, LineOf DEF Good
  <2>3. /\ d \in Lines
        /\ d[1] = out /\ d[2] = q.rwq /\ d[3] = q.bank[a] /\ d[4] = q.pending
        /\ d[5] = q.mrqq /\ d[6] = q.latency /\ d[7] = q.toDram[a % SubCount]
    BY <2>1, <1>14, LineOf DEF Good
  <2>4. \A l \in 1 .. 7 : l # 3 /\ l # 4 => d[l] = c[l]
    <3>1. \A l \in 1 .. 7 : l # 3 /\ l # 4 => l = 1 \/ l = 2 \/ l = 5 \/ l = 6 \/ l = 7
      OBVIOUS
    <3> QED BY <2>2, <2>3, <3>1, <1>12
  <2>5. Ordered(c, a, n)
    BY <2>1 DEF Good
  <2>6. c[4] = p.pending /\ d[4] = u
    BY <2>2, <2>3, <1>12
  <2>7. CASE a = b
    <3>1. c[3] = <<>> /\ d[3] = <<m>>
      BY <2>2, <2>3, <2>7, <1>2, <1>9, <1>12
    <3>2. d[3] = Append(c[3], c[4][r])
      BY <3>1, <2>6, <1>6
    <3>3. MovesUp(c, d, 3, 4, r)
      BY <2>4, <2>6, <3>2, <1>4, <1>7 DEF MovesUp
    <3>4. 3 \in 1 .. 7 /\ 4 \in 1 .. 7 /\ 4 = 3 + 1
      OBVIOUS
    <3> QED BY <2>1, <2>2, <2>3, <2>5, <3>3, <3>4, <1>5, MoveUp
  <2>8. CASE a # b
    <3>1. c[3] = d[3]
      BY <2>2, <2>3, <2>8, <1>9, <1>12
    <3>2. \A l \in 1 .. 7 : l # 4 => d[l] = c[l]
      BY <3>1, <2>4
    <3>3. Loses(c, d, 4, r)
      BY <2>6, <3>2, <1>4, <1>7 DEF Loses
    <3>4. 4 \in 1 .. 7
      OBVIOUS
    <3> QED BY <2>1, <2>2, <2>3, <2>5, <3>3, <3>4, <1>5, Leaves
  <2> QED BY <2>7, <2>8
<1> QED BY <1>11, <1>14, <1>15 DEF Good

\* The request of a bank joins the commands in flight.
LEMMA ColumnGood ==
  ASSUME NEW p, NEW out, NEW n, Good(p, out, n), NEW b
  PROVE  Good(IssueColumn(p, b), out, n)
<1> SUFFICES ASSUME b \in Banks, p.bank[b] # <<>>, Len(p.rwq) < RwqSize
             PROVE  Good(IssueColumn(p, b), out, n)
  <2>1. Len(p.rwq) \in Nat /\ RwqSize \in Nat
    <3>1. p.rwq \in Seq(Requests)
      BY DEF Good, Shape
    <3> QED BY <3>1, PartitionAssumption
  <2>2. ~(Len(p.rwq) >= RwqSize) => Len(p.rwq) < RwqSize
    BY <2>1
  <2>3. IssueColumn(p, b) = p \/ (b \in Banks /\ p.bank[b] # <<>> /\ ~(Len(p.rwq) >= RwqSize))
    BY DEF IssueColumn
  <2> QED BY <2>2, <2>3
<1>1. ~(Len(p.rwq) >= RwqSize)
  <2>1. Len(p.rwq) \in Nat /\ RwqSize \in Nat
    <3>1. p.rwq \in Seq(Requests)
      BY DEF Good, Shape
    <3> QED BY <3>1, PartitionAssumption
  <2> QED BY <2>1
<1>2. PICK m \in Requests : m.bank = b /\ p.bank[b] = <<m>>
  BY DEF Good, Shape
<1>3. p.rwq \in Seq(Requests) /\ p.bank \in [Banks -> Seq(Requests)]
  BY DEF Good, Shape
<1>4. PICK u, v : u = Append(p.rwq, m) /\ v = [p.bank EXCEPT ![b] = <<>>]
  OBVIOUS
<1>5. u \in Seq(Requests)
  BY <1>3, <1>4
<1>6. /\ v \in [Banks -> Seq(Requests)] /\ v[b] = <<>>
      /\ \A a \in Banks : a # b => v[a] = p.bank[a]
  BY <1>3, <1>4
<1>7. PICK q : q = [p EXCEPT !.rwq = u, !.bank = v]
  OBVIOUS
<1>8. IssueColumn(p, b) = q
  <2>1. Head(p.bank[b]) = m
    BY <1>2
  <2> QED BY <2>1, <1>1, <1>4, <1>7 DEF IssueColumn
<1>9. /\ DOMAIN q = Fields /\ q.rwq = u /\ q.last = p.last
      /\ q.pending = p.pending /\ q.mrqq = p.mrqq
      /\ q.latency = p.latency /\ q.toDram = p.toDram /\ q.bank = v
  BY <1>7 DEF Good, Shape, Fields
<1>10. ASSUME NEW a \in Banks, v[a] # <<>>
      PROVE  \E x \in Requests : x.bank = a /\ v[a] = <<x>>
  <2>1. a # b /\ v[a] = p.bank[a] /\ p.bank[a] # <<>>
    BY <1>6, <1>10
  <2>2. PICK x \in Requests : x.bank = a /\ p.bank[a] = <<x>>
    BY <2>1 DEF Good, Shape
  <2> QED BY <2>1, <2>2
<1>11. Shape(q)
  BY <1>5, <1>6, <1>9, <1>10 DEF Good, Shape
<1>12. ASSUME NEW a \in Banks
       PROVE  Ordered(Line(q, out, a), a, n)
  <2>1. PICK c, d : c = Line(p, out, a) /\ d = Line(q, out, a)
    OBVIOUS
  <2>2. /\ c \in Lines
        /\ c[1] = out /\ c[2] = p.rwq /\ c[3] = p.bank[a] /\ c[4] = p.pending
        /\ c[5] = p.mrqq /\ c[6] = p.latency /\ c[7] = p.toDram[a % SubCount]
    BY <2>1, LineOf DEF Good
  <2>3. /\ d \in Lines
        /\ d[1] = out /\ d[2] = q.rwq /\ d[3] = q.bank[a] /\ d[4] = q.pending
        /\ d[5] = q.mrqq /\ d[6] = q.latency /\ d[7] = q.toDram[a % SubCount]
    BY <2>1, <1>11, LineOf DEF Good
  <2>4. \A l \in 1 .. 7 : l # 2 /\ l # 3 => d[l] = c[l]
    <3>1. \A l \in 1 .. 7 : l # 2 /\ l # 3 => l = 1 \/ l = 4 \/ l = 5 \/ l = 6 \/ l = 7
      OBVIOUS
    <3> QED BY <2>2, <2>3, <3>1, <1>9
  <2>5. Ordered(c, a, n)
    BY <2>1 DEF Good
  <2>6. d[2] = Append(c[2], m)
    BY <2>2, <2>3, <1>4, <1>9
  <2>7. CASE a = b
    <3>1. c[3] = <<m>> /\ d[3] = <<>>
      BY <2>2, <2>3, <2>7, <1>2, <1>6, <1>9
    <3>2. 1 \in 1 .. Len(c[3]) /\ c[3][1] = m /\ Drops(c[3], d[3], 1)
      BY <3>1 DEF Drops
    <3>3. \A i \in 1 .. 1 - 1 : FALSE
      OBVIOUS
    <3>4. MovesUp(c, d, 2, 3, 1)
      BY <2>4, <2>6, <3>2, <3>3 DEF MovesUp
    <3>5. 2 \in 1 .. 7 /\ 3 \in 1 .. 7 /\ 3 = 2 + 1 /\ 1 \in Nat
      OBVIOUS
    <3> QED BY <2>1, <2>2, <2>3, <2>5, <3>4, <3>5, MoveUp
  <2>8. CASE a # b
    <3>1. c[3] = d[3]
      BY <2>2, <2>3, <2>8, <1>6, <1>9
    <3>2. \A l \in 1 .. 7 : l # 2 => d[l] = c[l]
      BY <3>1, <2>4
    <3>3. Gains(c, d, 2, m)
      BY <2>6, <3>2 DEF Gains
    <3>4. 2 \in 1 .. 7 /\ m.bank # a
      BY <2>8, <1>2
    <3> QED BY <2>1, <2>2, <2>3, <2>5, <3>3, <3>4, OtherJoins
  <2> QED BY <2>7, <2>8
<1> QED BY <1>8, <1>11, <1>12 DEF Good

\* The head of the latency queue goes to mrqq.
LEMMA ToSchedulerGood ==
  ASSUME NEW p, NEW out, NEW n, Good(p, out, n), NEW ready \in BOOLEAN
  PROVE  Good(ToScheduler(p, ready), out, n)
<1> SUFFICES ASSUME ToScheduler(p, ready) # p PROVE Good(ToScheduler(p, ready), out, n)
  OBVIOUS
<1>1. p.latency \in Seq(Requests) /\ p.latency # <<>> /\ p.mrqq \in Seq(Requests)
  BY DEF Good, Shape, ToScheduler
<1>2. PICK m, u, v : m = Head(p.latency) /\ u = Append(p.mrqq, m) /\ v = Tail(p.latency)
  OBVIOUS
<1>3. m \in Requests /\ m = p.latency[1] /\ 1 \in 1 .. Len(p.latency)
  BY <1>1, <1>2
<1>4. u \in Seq(Requests) /\ v \in Seq(Requests) /\ Drops(p.latency, v, 1)
  BY <1>1, <1>2, <1>3, TailDrops
<1>5. PICK q : q = [p EXCEPT !.mrqq = u, !.latency = v]
  OBVIOUS
<1>6. ToScheduler(p, ready) = q
  BY <1>2, <1>5 DEF ToScheduler
<1>7. /\ DOMAIN q = Fields /\ q.rwq = p.rwq /\ q.last = p.last
      /\ q.pending = p.pending /\ q.mrqq = u
      /\ q.latency = v /\ q.toDram = p.toDram /\ q.bank = p.bank
  BY <1>5 DEF Good, Shape, Fields
<1>8. Shape(q)
  BY <1>4, <1>7 DEF Good, Shape
<1>9. ASSUME NEW a \in Banks
      PROVE  Ordered(Line(q, out, a), a, n)
  <2>1. PICK c, d : c = Line(p, out, a) /\ d = Line(q, out, a)
    OBVIOUS
  <2>2. /\ c \in Lines
        /\ c[1] = out /\ c[2] = p.rwq /\ c[3] = p.bank[a] /\ c[4] = p.pending
        /\ c[5] = p.mrqq /\ c[6] = p.latency /\ c[7] = p.toDram[a % SubCount]
    BY <2>1, LineOf DEF Good
  <2>3. /\ d \in Lines
        /\ d[1] = out /\ d[2] = q.rwq /\ d[3] = q.bank[a] /\ d[4] = q.pending
        /\ d[5] = q.mrqq /\ d[6] = q.latency /\ d[7] = q.toDram[a % SubCount]
    BY <2>1, <1>8, LineOf DEF Good
  <2>4. \A l \in 1 .. 7 : l # 5 /\ l # 6 => d[l] = c[l]
    <3>1. \A l \in 1 .. 7 : l # 5 /\ l # 6 => l = 1 \/ l = 2 \/ l = 3 \/ l = 4 \/ l = 7
      OBVIOUS
    <3> QED BY <2>2, <2>3, <3>1, <1>7
  <2>5. Ordered(c, a, n)
    BY <2>1 DEF Good
  <2>6. \A i \in 1 .. 1 - 1 : FALSE
    OBVIOUS
  <2>7. MovesUp(c, d, 5, 6, 1)
    BY <2>2, <2>3, <2>4, <2>6, <1>2, <1>3, <1>4, <1>7 DEF MovesUp
  <2>8. 5 \in 1 .. 7 /\ 6 \in 1 .. 7 /\ 6 = 5 + 1 /\ 1 \in Nat
    OBVIOUS
  <2> QED BY <2>1, <2>2, <2>3, <2>5, <2>7, <2>8, MoveUp
<1> QED BY <1>6, <1>8, <1>9 DEF Good

\* v is the queues from the sub-partitions without the head, m, of that of s.
HeadGone(p, s, m, v) ==
  /\ m \in Requests /\ SubOf(m) = s
  /\ m = p.toDram[s][1] /\ 1 \in 1 .. Len(p.toDram[s])
  /\ v \in [Subs -> Seq(Requests)] /\ Drops(p.toDram[s], v[s], 1)
  /\ \A t \in Subs : t # s => v[t] = p.toDram[t]
  /\ \A t \in Subs : \A i \in 1 .. Len(v[t]) : SubOf(v[t][i]) = t

\* The queue of sub-partition s without its head still holds its requests only.
LEMMA HeadLeaves ==
  ASSUME NEW p, Shape(p), NEW s \in Subs, p.toDram[s] # <<>>,
         NEW m, m = Head(p.toDram[s]), NEW v, v = [p.toDram EXCEPT ![s] = Tail(@)]
  PROVE  HeadGone(p, s, m, v)
<1>1. p.toDram \in [Subs -> Seq(Requests)] /\ p.toDram[s] \in Seq(Requests)
  BY DEF Shape
<1>2. PICK w : w = Tail(p.toDram[s])
  OBVIOUS
<1>3. w \in Seq(Requests) /\ Drops(p.toDram[s], w, 1)
  BY <1>1, <1>2, TailDrops
<1>4. /\ v \in [Subs -> Seq(Requests)] /\ v[s] = w
      /\ \A t \in Subs : t # s => v[t] = p.toDram[t]
  BY <1>1, <1>2, <1>3
<1>5. m = p.toDram[s][1] /\ 1 \in 1 .. Len(p.toDram[s]) /\ m \in Requests
  BY <1>1
<1>6. SubOf(m) = s
  BY <1>5 DEF Shape
<1>7. ASSUME NEW t \in Subs, NEW i \in 1 .. Len(v[t])
      PROVE  SubOf(v[t][i]) = t
  <2>1. CASE t = s
    <3>1. Len(p.toDram[s]) \in Nat /\ Len(w) = Len(p.toDram[s]) - 1 /\ i \in 1 .. Len(w)
      BY <2>1, <1>1, <1>3, <1>4 DEF Drops
    <3>2. i + 1 \in 1 .. Len(p.toDram[s]) /\ ~(i < 1)
      BY <3>1
    <3>3. w[i] = p.toDram[s][i + 1]
      BY <3>1, <3>2, <1>3 DEF Drops
    <3>4. SubOf(p.toDram[s][i + 1]) = s
      BY <3>2 DEF Shape
    <3> QED BY <2>1, <3>3, <3>4, <1>4
  <2>2. CASE t # s
    <3>1. v[t] = p.toDram[t]
      BY <2>2, <1>4
    <3> QED BY <3>1 DEF Shape
  <2> QED BY <2>1, <2>2
<1> QED BY <1>3, <1>4, <1>5, <1>6, <1>7 DEF HeadGone

\* The sub-partition whose turn it is sends the head of its queue.
LEMMA ArbitrateGood ==
  ASSUME NEW p, NEW out, NEW n, Good(p, out, n)
  PROVE  Good(Arbitrate(p), out, n)
<1> SUFFICES ASSUME Turns(p) # {}, ~Full(p) PROVE Good(Arbitrate(p), out, n)
  BY DEF Arbitrate
<1>1. PICK s : s = Successor(p, Min(Turns(p)))
  OBVIOUS
<1>2. s \in Subs /\ p.toDram[s] # <<>>
  <2>1. Turns(p) \in SUBSET Nat
    BY PartitionAssumption DEF Turns
  <2>2. Min(Turns(p)) \in Turns(p)
    BY <2>1, LeastNatural
  <2>3. Min(Turns(p)) \in Nat /\ CanIssue(p, s)
    BY <2>1, <2>2, <1>1 DEF Turns
  <2>4. p.last \in Nat /\ SubCount \in Nat /\ SubCount > 0
    <3>1. SubCount \in Nat /\ SubCount > 0
      BY PartitionAssumption
    <3> QED BY <3>1 DEF Good, Shape, Subs
  <2>5. Min(Turns(p)) + p.last \in Nat
    BY <2>3, <2>4
  <2>6. s \in Subs
    <3>1. PICK k \in Nat : k = Min(Turns(p)) + p.last
      BY <2>5
    <3>2. s = k % SubCount
      BY <3>1, <1>1 DEF Successor
    <3> QED BY <3>2, <2>4 DEF Subs
  <2> QED BY <2>3, <2>6 DEF CanIssue
<1>3. PICK m, u, v : /\ m = Head(p.toDram[s]) /\ u = Append(p.latency, m)
                     /\ v = [p.toDram EXCEPT ![s] = Tail(@)]
  OBVIOUS
<1>4. Shape(p) /\ p.latency \in Seq(Requests)
  BY DEF Good, Shape
<1>5. /\ m \in Requests /\ SubOf(m) = s
      /\ m = p.toDram[s][1] /\ 1 \in 1 .. Len(p.toDram[s])
      /\ v \in [Subs -> Seq(Requests)] /\ Drops(p.toDram[s], v[s], 1)
      /\ \A t \in Subs : t # s => v[t] = p.toDram[t]
      /\ \A t \in Subs : \A i \in 1 .. Len(v[t]) : SubOf(v[t][i]) = t
  <2>1. HeadGone(p, s, m, v)
    BY <1>2, <1>3, <1>4, HeadLeaves
  <2> QED BY <2>1 DEF HeadGone
<1>6. u \in Seq(Requests)
  BY <1>3, <1>4, <1>5
<1>7. PICK q : q = [p EXCEPT !.latency = u, !.toDram = v]
  OBVIOUS
<1>8. /\ DOMAIN q = Fields /\ q.rwq = p.rwq /\ q.last = p.last
      /\ q.pending = p.pending /\ q.mrqq = p.mrqq
      /\ q.latency = u /\ q.toDram = v /\ q.bank = p.bank
  BY <1>7 DEF Good, Shape, Fields
<1>9. Arbitrate(p) = Borrow(q, s)
  BY <1>1, <1>3, <1>7 DEF Arbitrate
<1>10. Shape(q)
  BY <1>4, <1>5, <1>6, <1>8 DEF Shape
<1>11. ASSUME NEW a \in Banks
       PROVE  Ordered(Line(q, out, a), a, n)
  <2>1. PICK c, d : c = Line(p, out, a) /\ d = Line(q, out, a)
    OBVIOUS
  <2>2. /\ c \in Lines
        /\ c[1] = out /\ c[2] = p.rwq /\ c[3] = p.bank[a] /\ c[4] = p.pending
        /\ c[5] = p.mrqq /\ c[6] = p.latency /\ c[7] = p.toDram[a % SubCount]
    BY <2>1, LineOf DEF Good
  <2>3. /\ d \in Lines
        /\ d[1] = out /\ d[2] = q.rwq /\ d[3] = q.bank[a] /\ d[4] = q.pending
        /\ d[5] = q.mrqq /\ d[6] = q.latency /\ d[7] = q.toDram[a % SubCount]
    BY <2>1, <1>10, LineOf DEF Good
  <2>4. \A l \in 1 .. 7 : l # 6 /\ l # 7 => d[l] = c[l]
    <3>1. \A l \in 1 .. 7 : l # 6 /\ l # 7 => l = 1 \/ l = 2 \/ l = 3 \/ l = 4 \/ l = 5
      OBVIOUS
    <3> QED BY <2>2, <2>3, <3>1, <1>8
  <2>5. Ordered(c, a, n)
    BY <2>1 DEF Good
  <2>6. d[6] = Append(c[6], m)
    BY <2>2, <2>3, <1>3, <1>8
  <2>7. CASE a % SubCount = s
    <3>1. c[7] = p.toDram[s] /\ d[7] = v[s]
      BY <2>2, <2>3, <2>7, <1>8
    <3>2. 1 \in 1 .. Len(c[7]) /\ c[7][1] = m /\ Drops(c[7], d[7], 1)
      BY <3>1, <1>5
    <3>3. \A i \in 1 .. 1 - 1 : FALSE
      OBVIOUS
    <3>4. MovesUp(c, d, 6, 7, 1)
      BY <2>4, <2>6, <3>2, <3>3 DEF MovesUp
    <3>5. 6 \in 1 .. 7 /\ 7 \in 1 .. 7 /\ 7 = 6 + 1 /\ 1 \in Nat
      OBVIOUS
    <3> QED BY <2>1, <2>2, <2>3, <2>5, <3>4, <3>5, MoveUp
  <2>8. CASE a % SubCount # s
    <3>1. c[7] = d[7]
      BY <2>2, <2>3, <2>8, <1>5, <1>8, SubOfBank
    <3>2. \A l \in 1 .. 7 : l # 6 => d[l] = c[l]
      BY <3>1, <2>4
    <3>3. Gains(c, d, 6, m)
      BY <2>6, <3>2 DEF Gains
    <3>4. m.bank # a
      BY <2>8, <1>5 DEF SubOf
    <3>5. 6 \in 1 .. 7
      OBVIOUS
    <3> QED BY <1>5, <2>1, <2>2, <2>3, <2>5, <3>3, <3>4, <3>5, OtherJoins
  <2> QED BY <2>7, <2>8
<1>12. Good(q, out, n)
  BY <1>10, <1>11 DEF Good
<1>13. PICK r : r = Borrow(q, s)
  OBVIOUS
<1>14. Alike(q, r) /\ r.last = s
  BY <1>8, <1>13, CreditAlike
<1> QED BY <1>2, <1>9, <1>12, <1>13, <1>14, AlikeGood

-----------------------------------------------------------------------------
(* The steps.                                                              *)

PartInv ==
  /\ Good(mp, served, sent) /\ schedSize \in SchedSizes
  /\ sent \in Nat /\ sent <= MaxRequests

LEMMA InitInv ==
  ASSUME Init PROVE PartInv
<1>1. schedSize \in SchedSizes /\ SchedSizes \subseteq Nat /\ schedSize \in Nat
  BY PartitionAssumption DEF Init
<1>2. SubCount - 1 \in Subs /\ MaxRequests \in Nat
  BY PartitionAssumption DEF Subs
<1>3. /\ DOMAIN mp = Fields
      /\ mp.rwq = <<>> /\ mp.pending = <<>> /\ mp.mrqq = <<>> /\ mp.latency = <<>>
      /\ mp.toDram = [s \in Subs |-> <<>>] /\ mp.bank = [b \in Banks |-> <<>>]
      /\ mp.last = SubCount - 1
  BY DEF Init, Fields
<1>4. /\ <<>> \in Seq(Requests) /\ Len(<<>>) = 0 /\ 1 .. 0 = {}
  OBVIOUS
<1>5. Shape(mp)
  BY <1>1, <1>2, <1>3, <1>4 DEF Shape
<1>6. sent = 0 /\ served = <<>>
  BY DEF Init
<1>7. ASSUME NEW b \in Banks PROVE Ordered(Line(mp, served, b), b, sent)
  <2>1. PICK c : c = Line(mp, served, b)
    OBVIOUS
  <2>2. \A l \in 1 .. 7 : c[l] = <<>>
    <3>1. /\ c[1] = <<>> /\ c[2] = <<>> /\ c[3] = <<>> /\ c[4] = <<>>
          /\ c[5] = <<>> /\ c[6] = <<>> /\ c[7] = <<>>
      BY <2>1, <1>3, <1>6, SubOfBank DEF Line
    <3>2. \A l \in 1 .. 7 : l = 1 \/ l = 2 \/ l = 3 \/ l = 4 \/ l = 5 \/ l = 6 \/ l = 7
      OBVIOUS
    <3> QED BY <3>1, <3>2
  <2>3. \A l \in 1 .. 7 : 1 .. Len(c[l]) = {}
    BY <2>2, <1>4
  <2> QED BY <2>1, <2>3 DEF Ordered
<1> QED BY <1>1, <1>2, <1>4, <1>5, <1>6, <1>7 DEF PartInv, Good

\* A new request joins the queue of its sub-partition.
LEMMA SendInv ==
  ASSUME PartInv, Send PROVE PartInv'
<1>1. PICK x \in [bank : Banks, row : Rows, kind : {"reply", "wrbk"}, id : {sent + 1}] :
        /\ sent < MaxRequests /\ sent' = sent + 1
        /\ mp' = [mp EXCEPT !.toDram[SubOf(x)] = Append(@, x)]
        /\ UNCHANGED <<schedSize, served>>
  BY DEF Send
<1>2. sent + 1 \in 1 .. MaxRequests /\ sent \in Nat /\ sent + 1 \in Nat
  BY <1>1, PartitionAssumption DEF PartInv
<1>3. x \in Requests /\ x.id = sent + 1 /\ x.bank \in Banks
  BY <1>1, <1>2 DEF Requests
<1>4. PICK s : s = SubOf(x)
  OBVIOUS
<1>5. s \in Subs
  BY <1>3, <1>4, SubOfBank DEF SubOf
<1>6. Shape(mp) /\ mp.toDram \in [Subs -> Seq(Requests)] /\ mp.toDram[s] \in Seq(Requests)
  BY <1>5 DEF PartInv, Good, Shape
<1>7. PICK u, v : u = Append(mp.toDram[s], x) /\ v = [mp.toDram EXCEPT ![s] = u]
  OBVIOUS
<1>8. /\ u \in Seq(Requests) /\ Len(u) = Len(mp.toDram[s]) + 1
      /\ \A i \in 1 .. Len(mp.toDram[s]) + 1 :
           u[i] = IF i <= Len(mp.toDram[s]) THEN mp.toDram[s][i] ELSE x
  BY <1>3, <1>6, <1>7, Appended
<1>9. /\ v \in [Subs -> Seq(Requests)] /\ v[s] = u
      /\ \A t \in Subs : t # s => v[t] = mp.toDram[t]
  BY <1>5, <1>6, <1>7, <1>8
<1>10. PICK q : q = mp'
  OBVIOUS
<1>11. q = [mp EXCEPT !.toDram = v]
  BY <1>1, <1>4, <1>7, <1>10
<1>12. /\ DOMAIN q = Fields /\ q.rwq = mp.rwq /\ q.last = mp.last
       /\ q.pending = mp.pending /\ q.mrqq = mp.mrqq
       /\ q.latency = mp.latency /\ q.toDram = v /\ q.bank = mp.bank
  BY <1>6, <1>11 DEF Shape, Fields
<1>13. ASSUME NEW t \in Subs, NEW i \in 1 .. Len(v[t])
       PROVE  SubOf(v[t][i]) = t
  <2>1. CASE t = s
    <3>1. i \in 1 .. Len(mp.toDram[s]) + 1 /\ v[t][i] = u[i]
      BY <2>1, <1>8, <1>9
    <3>2. CASE i <= Len(mp.toDram[s])
      <4>1. i \in 1 .. Len(mp.toDram[s])
        BY <3>1, <3>2, <1>6
      <4>2. v[t][i] = mp.toDram[s][i]
        BY <3>1, <3>2, <1>8
      <4>3. SubOf(mp.toDram[s][i]) = s
        BY <4>1, <1>5, <1>6 DEF Shape
      <4> QED BY <2>1, <4>2, <4>3
    <3>3. CASE ~(i <= Len(mp.toDram[s]))
      BY <2>1, <3>1, <3>3, <1>4, <1>8
    <3> QED BY <3>2, <3>3
  <2>2. CASE t # s
    <3>1. v[t] = mp.toDram[t]
      BY <2>2, <1>9
    <3> QED BY <3>1, <1>6 DEF Shape
  <2> QED BY <2>1, <2>2
<1>14. Shape(q)
  BY <1>6, <1>9, <1>12, <1>13 DEF Shape
<1>15. served \in Seq(Requests)
  BY DEF PartInv, Good
<1>16. ASSUME NEW a \in Banks
       PROVE  Ordered(Line(q, served, a), a, sent + 1)
  <2>1. PICK c, d : c = Line(mp, served, a) /\ d = Line(q, served, a)
    OBVIOUS
  <2>2. /\ c \in Lines
        /\ c[1] = served /\ c[2] = mp.rwq /\ c[3] = mp.bank[a] /\ c[4] = mp.pending
        /\ c[5] = mp.mrqq /\ c[6] = mp.latency /\ c[7] = mp.toDram[a % SubCount]
    BY <2>1, <1>6, <1>15, LineOf
  <2>3. /\ d \in Lines
        /\ d[1] = served /\ d[2] = q.rwq /\ d[3] = q.bank[a] /\ d[4] = q.pending
        /\ d[5] = q.mrqq /\ d[6] = q.latency /\ d[7] = q.toDram[a % SubCount]
    BY <2>1, <1>14, <1>15, LineOf
  <2>4. \A l \in 1 .. 7 : l # 7 => d[l] = c[l]
    <3>1. \A l \in 1 .. 7 : l # 7 => l = 1 \/ l = 2 \/ l = 3 \/ l = 4 \/ l = 5 \/ l = 6
      OBVIOUS
    <3> QED BY <2>2, <2>3, <3>1, <1>12
  <2>5. Ordered(c, a, sent)
    BY <2>1 DEF PartInv, Good
  <2>6. CASE a % SubCount = s
    <3>1. d[7] = Append(c[7], x)
      BY <2>2, <2>3, <2>6, <1>7, <1>9, <1>12
    <3>2. Gains(c, d, 7, x)
      BY <2>4, <3>1 DEF Gains
    <3> QED BY <2>1, <2>2, <2>3, <2>5, <3>2, <1>2, <1>3, NewJoins
  <2>7. CASE a % SubCount # s
    <3>1. c[7] = d[7]
      BY <2>2, <2>3, <2>7, <1>9, <1>12, SubOfBank
    <3>2. \A l \in 1 .. 7 : d[l] = c[l]
      BY <3>1, <2>4
    <3>3. Ordered(d, a, sent)
      BY <2>5, <3>2 DEF Ordered
    <3>4. ASSUME NEW k \in 1 .. 7, NEW i \in 1 .. Len(d[k]), d[k][i].bank = a
          PROVE  d[k][i].id <= sent + 1
      <4>1. d[k][i] \in Requests
        BY <2>3, LineTypes
      <4>2. d[k][i].id \in Nat
        BY <4>1, RequestTypes
      <4>3. d[k][i].id <= sent
        BY <3>3, <3>4 DEF Ordered
      <4> QED BY <4>2, <4>3, <1>2
    <3>5. Ordered(d, a, sent + 1)
      BY <3>3, <3>4 DEF Ordered
    <3> QED BY <2>1, <3>5
  <2> QED BY <2>6, <2>7
<1>17. Good(q, served, sent + 1)
  BY <1>14, <1>15, <1>16 DEF Good
<1>18. /\ sent' = sent + 1 /\ served' = served /\ schedSize' = schedSize
       /\ sent' <= MaxRequests /\ sent' \in Nat /\ schedSize \in SchedSizes
  BY <1>1, <1>2 DEF PartInv
<1> QED BY <1>10, <1>17, <1>18 DEF PartInv, Good, Shape

\* What leaves the partition is past the line.
LEMMA TakeInv ==
  ASSUME PartInv, NEW s \in Subs, Take(s) PROVE PartInv'
<1>1. PICK u : mp' = [mp EXCEPT !.fromDram = u]
  BY DEF Take
<1>2. Good(mp, served, sent) /\ DOMAIN mp = Fields /\ mp.last \in Subs
  BY DEF PartInv, Good, Shape
<1>3. PICK q : q = mp'
  OBVIOUS
<1>4. Alike(mp, q) /\ q.last = mp.last
  BY <1>1, <1>2, <1>3 DEF Alike, Fields
<1>5. Good(q, served, sent)
  BY <1>2, <1>4, AlikeGood
<1>6. UNCHANGED <<schedSize, sent, served>>
  BY DEF Take
<1> QED BY <1>3, <1>5, <1>6 DEF PartInv, Good, Shape

\* The stages of a cycle, one after the other: each leaves the requests in their queues.
Staged(done, column, ready) ==
  \E f, a, c, h, i, z :
    /\ f = Finish(Return(mp), done) /\ a = AddRequests(f) /\ h = Schedule(a, c)
    /\ i = IssueColumn(h, column) /\ z = Arbitrate(i) /\ mp' = ToScheduler(z, ready)
    /\ Shape(a) /\ Shape(h) /\ Shape(i) /\ Shape(z) /\ Shape(mp')
    /\ UNCHANGED <<schedSize, taken>>

LEMMA CycleInv ==
  ASSUME PartInv, NEW done \in BOOLEAN, NEW column, NEW ready \in BOOLEAN,
         Cycle(done, column, ready)
  PROVE  PartInv' /\ Staged(done, column, ready)
<1>1. PICK finished : finished = Finish(Return(mp), done)
  OBVIOUS
<1>2. PICK added : added = AddRequests(finished)
  OBVIOUS
<1>3. PICK chosen : /\ mp' = ToScheduler(Arbitrate(IssueColumn(Schedule(added, chosen), column)), ready)
                    /\ served' = IF finished.rwq = mp.rwq THEN served
                                                          ELSE Append(served, Head(mp.rwq))
                    /\ UNCHANGED <<schedSize, sent, taken>>
  BY <1>1, <1>2 DEF Cycle
<1>4. Good(mp, served, sent) /\ schedSize \in Nat
  BY PartitionAssumption DEF PartInv
<1>5. PICK returned : returned = Return(mp)
  OBVIOUS
<1>6. Good(returned, served, sent) /\ returned.rwq = mp.rwq
  BY <1>4, <1>5, ReturnGood
<1>7. PICK out : out = served'
  OBVIOUS
<1>8. Good(finished, out, sent)
  <2>1. CASE finished = returned
    <3>1. out = served
      BY <2>1, <1>3, <1>6, <1>7
    <3> QED BY <2>1, <3>1, <1>6
  <2>2. CASE /\ returned.rwq # <<>> /\ finished.rwq = Tail(returned.rwq)
             /\ Good(finished, Append(served, Head(returned.rwq)), sent)
    <3>1. returned.rwq \in Seq(Requests)
      BY <1>6 DEF Good, Shape
    <3>2. Tail(returned.rwq) # returned.rwq
      <4>1. Len(Tail(returned.rwq)) # Len(returned.rwq)
        BY <2>2, <3>1
      <4> QED BY <4>1
    <3>3. out = Append(served, Head(returned.rwq))
      BY <2>2, <3>2, <1>3, <1>6, <1>7
    <3> QED BY <2>2, <3>3
  <2>3. \/ Finish(returned, done) = returned
        \/ /\ returned.rwq # <<>> /\ Finish(returned, done).rwq = Tail(returned.rwq)
           /\ Good(Finish(returned, done), Append(served, Head(returned.rwq)), sent)
    BY <1>6, FinishGood
  <2>4. finished = Finish(returned, done)
    BY <1>1, <1>5
  <2> QED BY <2>1, <2>2, <2>3, <2>4
<1>9. Good(added, out, sent)
  BY <1>2, <1>4, <1>8, AddGood
<1>10. PICK scheduled : scheduled = Schedule(added, chosen)
  OBVIOUS
<1>11. Good(scheduled, out, sent)
  BY <1>4, <1>9, <1>10, ScheduleGood
<1>12. PICK issued : issued = IssueColumn(scheduled, column)
  OBVIOUS
<1>13. Good(issued, out, sent)
  BY <1>11, <1>12, ColumnGood
<1>14. PICK arbitrated : arbitrated = Arbitrate(issued)
  OBVIOUS
<1>15. Good(arbitrated, out, sent)
  BY <1>13, <1>14, ArbitrateGood
<1>16. PICK q : q = ToScheduler(arbitrated, ready)
  OBVIOUS
<1>17. Good(q, out, sent)
  BY <1>15, <1>16, ToSchedulerGood
<1>18. mp' = q /\ served' = out /\ schedSize' = schedSize /\ sent' = sent
  BY <1>3, <1>7, <1>10, <1>12, <1>14, <1>16
<1>19. schedSize \in SchedSizes /\ sent \in Nat /\ sent <= MaxRequests
  BY DEF PartInv
<1>20. PartInv'
  BY <1>17, <1>18, <1>19 DEF PartInv, Good, Shape
<1>21. Staged(done, column, ready)
  <2>1. Shape(added) /\ Shape(scheduled) /\ Shape(issued) /\ Shape(arbitrated) /\ Shape(q)
    BY <1>9, <1>11, <1>13, <1>15, <1>17 DEF Good
  <2> QED BY <2>1, <1>1, <1>2, <1>3, <1>10, <1>12, <1>14, <1>16, <1>18 DEF Staged
<1> QED BY <1>20, <1>21

\* The line of every bank is in order.
LEMMA PartInductive == Spec => []PartInv
<1>1. Init => PartInv
  BY InitInv
<1>2. PartInv /\ [Next]_vars => PartInv'
  <2> SUFFICES ASSUME PartInv, [Next]_vars PROVE PartInv'
    OBVIOUS
  <2>1. CASE Send
    BY <2>1, SendInv
  <2>2. CASE \E s \in Subs : Take(s)
    BY <2>2, TakeInv
  <2>3. CASE DramCycle
    BY <2>3, CycleInv DEF DramCycle
  <2>4. CASE UNCHANGED vars
    BY <2>4 DEF vars, PartInv, Good, Shape, Line
  <2> QED BY <2>1, <2>2, <2>3, <2>4 DEF Next
<1> QED BY <1>1, <1>2, PTL DEF Spec

\* The DRAM scheduler, frfcfs_scheduler::schedule(), looks for a row hit before
\* it takes the oldest request, so requests of a bank overtake each other on
\* their way through dram_cycle() and dram_t::cycle(); those for the same row
\* are served in the order in which they were sent.
THEOREM RowsInOrder == Spec => []SameRowInOrder
<1>1. PartInv => SameRowInOrder
  <2> SUFFICES ASSUME PartInv, NEW i \in DOMAIN served, NEW j \in DOMAIN served, i < j,
                      served[i].bank = served[j].bank, served[i].row = served[j].row
               PROVE  served[i].id < served[j].id
    BY DEF SameRowInOrder
  <2>1. Shape(mp) /\ served \in Seq(Requests)
    BY DEF PartInv, Good
  <2>2. i \in 1 .. Len(served) /\ j \in 1 .. Len(served) /\ served[i] \in Requests
    BY <2>1
  <2>3. PICK b \in Banks : b = served[i].bank
    BY <2>2, RequestTypes
  <2>4. PICK c : c = Line(mp, served, b)
    OBVIOUS
  <2>5. c[1] = served /\ Ordered(c, b, sent)
    <3>1. c[1] = served
      BY <2>1, <2>4, LineOf
    <3> QED BY <2>4, <3>1 DEF PartInv, Good
  <2>6. 1 \in 1 .. 7 /\ Before(1, i, 1, j) /\ Same(c[1][i], c[1][j])
    BY <2>5 DEF Before, Same
  <2> QED BY <2>2, <2>3, <2>5, <2>6 DEF Ordered
<1> QED BY <1>1, PartInductive, PTL

-----------------------------------------------------------------------------
(* Credits.                                                                *)

\* The requests of queue q are those of r, and x.
LEMMA DropElements ==
  ASSUME NEW q \in Seq(Requests), NEW r \in Seq(Requests), NEW n \in 1 .. Len(q),
         Drops(q, r, n)
  PROVE  ToSet(q) \subseteq ToSet(r) \cup {q[n]} /\ Len(r) = Len(q) - 1
<1>1. Len(q) \in Nat /\ n \in Nat /\ Len(r) = Len(q) - 1 /\ DOMAIN q = 1 .. Len(q)
      /\ DOMAIN r = 1 .. Len(r)
  BY DEF Drops
<1>2. ASSUME NEW i \in 1 .. Len(q), i # n PROVE \E j \in 1 .. Len(r) : r[j] = q[i]
  <2>1. CASE i < n
    <3>1. i \in 1 .. Len(r)
      BY <2>1, <1>1
    <3> QED BY <2>1, <3>1 DEF Drops
  <2>2. CASE i > n
    <3>1. PICK j : j = i - 1
      OBVIOUS
    <3>2. j \in 1 .. Len(r) /\ ~(j < n) /\ j + 1 = i
      BY <2>2, <3>1, <1>1
    <3> QED BY <3>2 DEF Drops
  <2> QED BY <2>1, <2>2, <1>1, <1>2
<1> QED BY <1>1, <1>2 DEF ToSet

LEMMA AppendElements ==
  ASSUME NEW q \in Seq(Requests), NEW m \in Requests
  PROVE  ToSet(q) \cup {m} \subseteq ToSet(Append(q, m))
<1>1. PICK r : r = Append(q, m)
  OBVIOUS
<1>2. /\ Len(q) \in Nat /\ DOMAIN q = 1 .. Len(q) /\ DOMAIN r = 1 .. Len(q) + 1
      /\ \A i \in 1 .. Len(q) : r[i] = q[i]
      /\ r[Len(q) + 1] = m
  BY <1>1
<1>3. Len(q) + 1 \in DOMAIN r /\ DOMAIN q \subseteq DOMAIN r
  BY <1>2
<1> QED BY <1>1, <1>2, <1>3 DEF ToSet

\* The first k requests of q join a; the others stay.
LEMMA SliceElements ==
  ASSUME NEW a \in Seq(Requests), NEW q \in Seq(Requests), NEW k \in Nat, k <= Len(q)
  PROVE  ToSet(a) \cup ToSet(q)
           \subseteq ToSet(a \o SubSeq(q, 1, k)) \cup ToSet(SubSeq(q, k + 1, Len(q)))
<1>1. PICK x, v : x = SubSeq(q, 1, k) /\ v = SubSeq(q, k + 1, Len(q))
  OBVIOUS
<1>2. /\ x \in Seq(Requests) /\ Len(x) = k /\ \A i \in 1 .. k : x[i] = q[i]
      /\ v \in Seq(Requests) /\ Len(v) = Len(q) - k
      /\ \A i \in 1 .. Len(q) - k : v[i] = q[i + k]
  BY <1>1, Slice
<1>3. PICK u : u = a \o x
  OBVIOUS
<1>4. /\ u \in Seq(Requests) /\ Len(u) = Len(a) + k
      /\ \A i \in 1 .. Len(a) + k : u[i] = IF i <= Len(a) THEN a[i] ELSE x[i - Len(a)]
  BY <1>2, <1>3, Concat
<1>5. /\ Len(a) \in Nat /\ Len(q) \in Nat /\ DOMAIN a = 1 .. Len(a) /\ DOMAIN q = 1 .. Len(q)
  OBVIOUS
<1>6. DOMAIN u = 1 .. Len(a) + k /\ DOMAIN v = 1 .. Len(q) - k
  BY <1>2, <1>4
<1>7. ASSUME NEW i \in DOMAIN a PROVE a[i] \in ToSet(u)
  <2>1. i \in 1 .. Len(a) + k /\ i <= Len(a)
    BY <1>5
  <2> QED BY <2>1, <1>4, <1>6 DEF ToSet
<1>8. ASSUME NEW i \in DOMAIN q PROVE q[i] \in ToSet(u) \cup ToSet(v)
  <2>1. CASE i <= k
    <3>1. PICK j : j = Len(a) + i
      OBVIOUS
    <3>2. j \in 1 .. Len(a) + k /\ ~(j <= Len(a)) /\ j - Len(a) = i /\ i \in 1 .. k
      BY <2>1, <3>1, <1>5
    <3>3. u[j] = x[i]
      BY <3>2, <1>4
    <3>4. u[j] = q[i]
      BY <3>2, <3>3, <1>2
    <3> QED BY <3>2, <3>4, <1>6 DEF ToSet
  <2>2. CASE i > k
    <3>1. PICK j : j = i - k
      OBVIOUS
    <3>2. j \in 1 .. Len(q) - k /\ j + k = i
      BY <2>2, <3>1, <1>5
    <3>3. v[j] = q[i]
      BY <3>2, <1>2
    <3> QED BY <3>2, <3>3, <1>6 DEF ToSet
  <2> QED BY <2>1, <2>2, <1>5
<1>9. ToSet(a) \subseteq ToSet(u)
  <2>1. PICK U : U = ToSet(u)
    OBVIOUS
  <2> QED BY <2>1, <1>7 DEF ToSet
<1>10. ToSet(q) \subseteq ToSet(u) \cup ToSet(v)
  <2>1. PICK U : U = ToSet(u) \cup ToSet(v)
    OBVIOUS
  <2> QED BY <2>1, <1>8 DEF ToSet
<1> QED BY <1>1, <1>3, <1>9, <1>10

\* A request in flight is in one of these.
LEMMA InFlightCases ==
  ASSUME NEW p, NEW m
  PROVE  m \in InFlight(p) <=>
           \/ m \in ToSet(p.latency) \/ m \in ToSet(p.mrqq) \/ m \in ToSet(p.pending)
           \/ m \in ToSet(p.rwq) \/ m \in ToSet(p.returnq)
           \/ \E b \in Banks : m \in ToSet(p.bank[b])
  BY DEF InFlight

-----------------------------------------------------------------------------
Typed(p) ==
  /\ Shape(p)
  /\ p.returnq \in Seq(Requests) /\ p.open \in [Banks -> Rows]
  /\ p.fromDram \in [Subs -> Seq(Requests)]
  /\ p.private \in [Subs -> 0 .. 1] /\ p.shared \in Int

Sized(p) ==
  /\ Len(p.returnq) <= ReturnSize
  /\ \A s \in Subs : Len(p.fromDram[s]) <= QueueSize

Balanced(p) ==
  /\ \A s \in Borrowers(p) : \E m \in InFlight(p) : SubOf(m) = s
  /\ SharedLimit # 0 => p.shared <= SharedLimit
  /\ p.shared + Cardinality(Borrowers(p)) = InFlightCount(p)

\* Between p and q a sub-partition keeps its requests, its turn and its credits.
Calm(p, q) ==
  /\ q.toDram = p.toDram /\ q.last = p.last
  /\ \A s \in Subs : HasCredits(p, s) => HasCredits(q, s)

\* q has the same requests as p in all its queues.
SameQueues(p, q) ==
  Alike(p, q) /\ q.returnq = p.returnq /\ q.fromDram = p.fromDram /\ q.open = p.open

LEMMA SameCount ==
  ASSUME NEW p, NEW q, SameQueues(p, q)
  PROVE  InFlight(q) = InFlight(p) /\ InFlightCount(q) = InFlightCount(p)
<1>1. Busy(q) = Busy(p)
  BY DEF SameQueues, Alike, Busy
<1>2. InFlightCount(q) = InFlightCount(p)
  BY <1>1 DEF SameQueues, Alike, InFlightCount
<1>3. InFlight(q) = InFlight(p)
  BY DEF SameQueues, Alike, InFlight
<1> QED BY <1>2, <1>3

LEMMA Limits ==
  ASSUME schedSize \in Nat
  PROVE  SharedLimit \in Int
  BY PartitionAssumption DEF SharedLimit

\* Requests move on, none starts or ends.
LEMMA MovedOn ==
  ASSUME NEW p, NEW q, Balanced(p), q.private = p.private, q.shared = p.shared,
         InFlight(p) \subseteq InFlight(q), InFlightCount(q) = InFlightCount(p)
  PROVE  Balanced(q)
<1>1. Borrowers(q) = Borrowers(p)
  BY DEF Borrowers
<1> QED BY <1>1 DEF Balanced

\* What return_credit() and borrow_credit() change.
LEMMA CreditFields ==
  ASSUME NEW p, Typed(p), NEW s \in Subs
  PROVE  /\ SameQueues(p, ReturnCredit(p, s)) /\ SameQueues(p, Borrow(p, s))
         /\ ReturnCredit(p, s).last = p.last /\ Borrow(p, s).last = s
         /\ p.private[s] > 0 =>
              /\ ReturnCredit(p, s).private = [p.private EXCEPT ![s] = @ - 1]
              /\ ReturnCredit(p, s).shared = p.shared
         /\ ~(p.private[s] > 0) =>
              /\ ReturnCredit(p, s).private = p.private
              /\ ReturnCredit(p, s).shared = p.shared - 1
         /\ p.private[s] < 1 =>
              /\ Borrow(p, s).private = [p.private EXCEPT ![s] = @ + 1]
              /\ Borrow(p, s).shared = p.shared
         /\ ~(p.private[s] < 1) =>
              /\ Borrow(p, s).private = p.private
              /\ Borrow(p, s).shared = p.shared + 1
<1>1. DOMAIN p = Fields
  BY DEF Typed, Shape
<1>2. PICK x : x = [p.private EXCEPT ![s] = @ - 1]
  OBVIOUS
<1>3. PICK y : y = [p.private EXCEPT ![s] = @ + 1]
  OBVIOUS
<1>4. \A z : /\ [p EXCEPT !.private = z].private = z
             /\ [p EXCEPT !.private = z].shared = p.shared
             /\ [p EXCEPT !.private = z].last = p.last
             /\ SameQueues(p, [p EXCEPT !.private = z])
  BY <1>1 DEF SameQueues, Alike, Fields
<1>5. \A z : /\ [p EXCEPT !.shared = z].private = p.private
             /\ [p EXCEPT !.shared = z].shared = z
             /\ [p EXCEPT !.shared = z].last = p.last
             /\ SameQueues(p, [p EXCEPT !.shared = z])
  BY <1>1 DEF SameQueues, Alike, Fields
<1>6. \A z : /\ [p EXCEPT !.private = z, !.last = s].private = z
             /\ [p EXCEPT !.private = z, !.last = s].shared = p.shared
             /\ [p EXCEPT !.private = z, !.last = s].last = s
             /\ SameQueues(p, [p EXCEPT !.private = z, !.last = s])
  BY <1>1 DEF SameQueues, Alike, Fields
<1>7. \A z : /\ [p EXCEPT !.shared = z, !.last = s].private = p.private
             /\ [p EXCEPT !.shared = z, !.last = s].shared = z
             /\ [p EXCEPT !.shared = z, !.last = s].last = s
             /\ SameQueues(p, [p EXCEPT !.shared = z, !.last = s])
  BY <1>1 DEF SameQueues, Alike, Fields
<1>8. ReturnCredit(p, s) = IF p.private[s] > 0 THEN [p EXCEPT !.private = x]
                                               ELSE [p EXCEPT !.shared = p.shared - 1]
  BY <1>2 DEF ReturnCredit
<1>9. Borrow(p, s) = IF p.private[s] < 1 THEN [p EXCEPT !.private = y, !.last = s]
                                         ELSE [p EXCEPT !.shared = p.shared + 1, !.last = s]
  BY <1>3 DEF Borrow
<1>10. PICK r : r = ReturnCredit(p, s)
  OBVIOUS
<1>11. PICK t : t = Borrow(p, s)
  OBVIOUS
<1>12. /\ SameQueues(p, r) /\ r.last = p.last
       /\ p.private[s] > 0 => r.private = x /\ r.shared = p.shared
       /\ ~(p.private[s] > 0) => r.private = p.private /\ r.shared = p.shared - 1
  <2>1. CASE p.private[s] > 0
    BY <2>1, <1>4, <1>8, <1>10
  <2>2. CASE ~(p.private[s] > 0)
    BY <2>2, <1>5, <1>8, <1>10
  <2> QED BY <2>1, <2>2
<1>13. /\ SameQueues(p, t) /\ t.last = s
       /\ p.private[s] < 1 => t.private = y /\ t.shared = p.shared
       /\ ~(p.private[s] < 1) => t.private = p.private /\ t.shared = p.shared + 1
  <2>1. CASE p.private[s] < 1
    BY <2>1, <1>6, <1>9, <1>11
  <2>2. CASE ~(p.private[s] < 1)
    BY <2>2, <1>7, <1>9, <1>11
  <2> QED BY <2>1, <2>2
<1> QED BY <1>2, <1>3, <1>10, <1>11, <1>12, <1>13

LEMMA BorrowersFinite ==
  ASSUME NEW p
  PROVE  IsFiniteSet(Borrowers(p)) /\ Cardinality(Borrowers(p)) \in Nat
<1>1. SubCount - 1 \in Int /\ 0 \in Int
  BY PartitionAssumption
<1>2. IsFiniteSet(Subs)
  BY <1>1, FS_Interval DEF Subs
<1>3. Borrowers(p) \in SUBSET Subs
  BY DEF Borrowers
<1>4. IsFiniteSet(Borrowers(p))
  BY <1>2, <1>3, FS_Subset
<1> QED BY <1>4, FS_CardinalityType

LEMMA BusyFinite ==
  ASSUME NEW p
  PROVE  IsFiniteSet(Busy(p)) /\ Cardinality(Busy(p)) \in Nat
<1>1. BankCount - 1 \in Int /\ 0 \in Int
  BY PartitionAssumption
<1>2. IsFiniteSet(Banks)
  BY <1>1, FS_Interval DEF Banks
<1>3. Busy(p) \in SUBSET Banks
  BY DEF Busy
<1>4. IsFiniteSet(Busy(p))
  BY <1>2, <1>3, FS_Subset
<1> QED BY <1>4, FS_CardinalityType

LEMMA CountType ==
  ASSUME NEW p, Typed(p)
  PROVE  InFlightCount(p) \in Nat
<1>1. /\ p.latency \in Seq(Requests) /\ p.mrqq \in Seq(Requests) /\ p.pending \in Seq(Requests)
      /\ p.rwq \in Seq(Requests) /\ p.returnq \in Seq(Requests)
  BY DEF Typed, Shape
<1>2. /\ Len(p.latency) \in Nat /\ Len(p.mrqq) \in Nat /\ Len(p.pending) \in Nat
      /\ Len(p.rwq) \in Nat /\ Len(p.returnq) \in Nat
  BY <1>1
<1>3. PICK n \in Nat : n = Cardinality(Busy(p))
  BY BusyFinite
<1>4. InFlightCount(p)
        = Len(p.latency) + Len(p.mrqq) + Len(p.pending) + Len(p.rwq) + Len(p.returnq) + n
  BY <1>3 DEF InFlightCount
<1>5. PICK a \in Nat, b \in Nat, c \in Nat, d \in Nat, e \in Nat :
        /\ a = Len(p.latency) /\ b = Len(p.mrqq) /\ c = Len(p.pending)
        /\ d = Len(p.rwq) /\ e = Len(p.returnq)
  BY <1>2
<1>6. InFlightCount(p) = a + b + c + d + e + n
  BY <1>4, <1>5
<1> QED BY <1>6

LEMMA SameTyped ==
  ASSUME NEW p, NEW q, Typed(p), SameQueues(p, q), q.last \in Subs,
         q.private \in [Subs -> 0 .. 1], q.shared \in Int
  PROVE  Typed(q) /\ (Sized(p) => Sized(q))
<1>1. Shape(q)
  BY DEF Typed, SameQueues, Alike, Shape
<1>2. Typed(q)
  BY <1>1 DEF Typed, SameQueues
<1>3. Sized(p) => Sized(q)
  BY DEF Sized, SameQueues
<1> QED BY <1>2, <1>3

\* A request that leaves gives its credit back.
LEMMA GivesBack ==
  ASSUME NEW p, Typed(p), NEW s \in Subs, schedSize \in Nat,
         \A t \in Borrowers(p) : t # s => \E m \in InFlight(p) : SubOf(m) = t,
         SharedLimit # 0 => p.shared <= SharedLimit,
         p.shared + Cardinality(Borrowers(p)) = InFlightCount(p) + 1,
         NEW q, q = ReturnCredit(p, s)
  PROVE  /\ Typed(q) /\ Balanced(q) /\ SameQueues(p, q) /\ q.last = p.last
         /\ \A t \in Subs : HasCredits(p, t) => HasCredits(q, t)
<1>1. /\ SameQueues(p, q) /\ q.last = p.last
      /\ p.private[s] > 0 => /\ q.private = [p.private EXCEPT ![s] = @ - 1]
                             /\ q.shared = p.shared
      /\ ~(p.private[s] > 0) => q.private = p.private /\ q.shared = p.shared - 1
  BY CreditFields
<1>2. InFlight(q) = InFlight(p) /\ InFlightCount(q) = InFlightCount(p)
  BY <1>1, SameCount
<1>3. p.private \in [Subs -> 0 .. 1] /\ p.shared \in Int /\ p.last \in Subs
  BY DEF Typed, Shape
<1>4. SharedLimit \in Int /\ InFlightCount(p) \in Nat
  BY Limits, CountType
<1>5. IsFiniteSet(Borrowers(p)) /\ Cardinality(Borrowers(p)) \in Nat
  BY BorrowersFinite
<1>6. CASE p.private[s] > 0
  <2>1. p.private[s] = 1 /\ q.private = [p.private EXCEPT ![s] = 0] /\ q.shared = p.shared
    BY <1>1, <1>3, <1>6
  <2>2. /\ q.private \in [Subs -> 0 .. 1] /\ q.private[s] = 0
        /\ \A t \in Subs : t # s => q.private[t] = p.private[t]
    BY <2>1, <1>3
  <2>3. Borrowers(q) = Borrowers(p) \ {s} /\ s \in Borrowers(p)
    BY <2>1, <2>2 DEF Borrowers
  <2>4. Cardinality(Borrowers(q)) = Cardinality(Borrowers(p)) - 1
    BY <2>3, <1>5, FS_RemoveElement
  <2>5. Typed(q)
    BY <2>1, <2>2, <1>1, <1>3, SameTyped
  <2>6. q.shared + Cardinality(Borrowers(q)) = InFlightCount(q)
    BY <2>1, <2>4, <1>2, <1>3, <1>4, <1>5
  <2>7. \A t \in Borrowers(q) : \E m \in InFlight(q) : SubOf(m) = t
    BY <2>3, <1>2
  <2>8. Balanced(q)
    BY <2>1, <2>6, <2>7 DEF Balanced
  <2>9. ASSUME NEW t \in Subs, HasCredits(p, t) PROVE HasCredits(q, t)
    <3>1. CASE t = s
      BY <3>1, <2>2 DEF HasCredits
    <3>2. CASE t # s
      BY <3>2, <2>1, <2>2, <2>9 DEF HasCredits, SharedLeft
    <3> QED BY <3>1, <3>2
  <2> QED BY <2>5, <2>8, <2>9, <1>1
<1>7. CASE ~(p.private[s] > 0)
  <2>1. q.private = p.private /\ q.shared = p.shared - 1 /\ s \notin Borrowers(p)
    BY <1>1, <1>7 DEF Borrowers
  <2>2. Borrowers(q) = Borrowers(p)
    BY <2>1 DEF Borrowers
  <2>3. Typed(q)
    <3>1. q.shared \in Int
      BY <2>1, <1>3
    <3> QED BY <3>1, <2>1, <1>1, <1>3, SameTyped
  <2>4. q.shared + Cardinality(Borrowers(q)) = InFlightCount(q)
    BY <2>1, <2>2, <1>2, <1>3, <1>4, <1>5
  <2>5. \A t \in Borrowers(q) : \E m \in InFlight(q) : SubOf(m) = t
    BY <2>1, <2>2, <1>2
  <2>6. SharedLimit # 0 => q.shared <= SharedLimit
    BY <2>1, <1>3, <1>4
  <2>7. Balanced(q)
    BY <2>4, <2>5, <2>6 DEF Balanced
  <2>8. SharedLeft(p) => SharedLeft(q)
    BY <2>1, <1>3, <1>4 DEF SharedLeft
  <2>9. \A t \in Subs : HasCredits(p, t) => HasCredits(q, t)
    BY <2>1, <2>8 DEF HasCredits
  <2> QED BY <2>3, <2>7, <2>9, <1>1
<1> QED BY <1>6, <1>7

Lent(p, s, q) ==
  /\ SameQueues(p, q) /\ q.last = s
  /\ p.private[s] < 1 => q.private = [p.private EXCEPT ![s] = @ + 1] /\ q.shared = p.shared
  /\ ~(p.private[s] < 1) => q.private = p.private /\ q.shared = p.shared + 1

LEMMA BorrowLends ==
  ASSUME NEW p, Typed(p), NEW s \in Subs
  PROVE  Lent(p, s, Borrow(p, s))
<1>1. PICK q : q = Borrow(p, s)
  OBVIOUS
<1>2. SameQueues(p, q) /\ q.last = s
  <2>1. SameQueues(p, Borrow(p, s)) /\ Borrow(p, s).last = s
    BY CreditFields
  <2> QED BY <1>1, <2>1
<1>3. p.private[s] < 1 => q.private = [p.private EXCEPT ![s] = @ + 1] /\ q.shared = p.shared
  BY <1>1, CreditFields
<1>4. ~(p.private[s] < 1) => q.private = p.private /\ q.shared = p.shared + 1
  BY <1>1, CreditFields
<1> QED BY <1>1, <1>2, <1>3, <1>4 DEF Lent

\* A request that starts takes a credit.
LEMMA TakesCredit ==
  ASSUME NEW p, Typed(p), NEW s \in Subs, schedSize \in Nat, HasCredits(p, s),
         \A t \in Borrowers(p) : \E m \in InFlight(p) : SubOf(m) = t,
         \E m \in InFlight(p) : SubOf(m) = s,
         SharedLimit # 0 => p.shared <= SharedLimit,
         p.shared + Cardinality(Borrowers(p)) + 1 = InFlightCount(p),
         NEW q, q = Borrow(p, s)
  PROVE  Typed(q) /\ Balanced(q) /\ SameQueues(p, q) /\ q.last = s
<1>1. /\ SameQueues(p, q) /\ q.last = s
      /\ p.private[s] < 1 => /\ q.private = [p.private EXCEPT ![s] = @ + 1]
                             /\ q.shared = p.shared
      /\ ~(p.private[s] < 1) => q.private = p.private /\ q.shared = p.shared + 1
  <2>1. Lent(p, s, Borrow(p, s))
    BY BorrowLends
  <2> QED BY <2>1 DEF Lent
<1>2. InFlight(q) = InFlight(p) /\ InFlightCount(q) = InFlightCount(p)
  BY <1>1, SameCount
<1>3. p.private \in [Subs -> 0 .. 1] /\ p.shared \in Int
  BY DEF Typed, Shape
<1>4. SharedLimit \in Int /\ InFlightCount(p) \in Nat
  BY Limits, CountType
<1>5. IsFiniteSet(Borrowers(p)) /\ Cardinality(Borrowers(p)) \in Nat
  BY BorrowersFinite
<1>6. CASE p.private[s] < 1
  <2>1. p.private[s] = 0 /\ q.private = [p.private EXCEPT ![s] = 1] /\ q.shared = p.shared
    BY <1>1, <1>3, <1>6
  <2>2. /\ q.private \in [Subs -> 0 .. 1] /\ q.private[s] = 1
        /\ \A t \in Subs : t # s => q.private[t] = p.private[t]
    BY <2>1, <1>3
  <2>3. Borrowers(q) = Borrowers(p) \cup {s} /\ s \notin Borrowers(p)
    BY <2>1, <2>2 DEF Borrowers
  <2>4. Cardinality(Borrowers(q)) = Cardinality(Borrowers(p)) + 1
    BY <2>3, <1>5, FS_AddElement
  <2>5. Typed(q)
    BY <2>1, <2>2, <1>1, <1>3, SameTyped
  <2>6. q.shared + Cardinality(Borrowers(q)) = InFlightCount(q)
    BY <2>1, <2>4, <1>2, <1>3, <1>4, <1>5
  <2>7. \A t \in Borrowers(q) : \E m \in InFlight(q) : SubOf(m) = t
    BY <2>3, <1>2
  <2>8. Balanced(q)
    BY <2>1, <2>6, <2>7 DEF Balanced
  <2> QED BY <2>5, <2>8, <1>1
<1>7. CASE ~(p.private[s] < 1)
  <2>1. q.private = p.private /\ q.shared = p.shared + 1
    BY <1>1, <1>7
  <2>2. Borrowers(q) = Borrowers(p)
    BY <2>1 DEF Borrowers
  <2>3. Typed(q)
    <3>1. q.shared \in Int
      BY <2>1, <1>3
    <3> QED BY <3>1, <2>1, <1>1, <1>3, SameTyped
  <2>4. q.shared + Cardinality(Borrowers(q)) = InFlightCount(q)
    BY <2>1, <2>2, <1>2, <1>3, <1>4, <1>5
  <2>5. \A t \in Borrowers(q) : \E m \in InFlight(q) : SubOf(m) = t
    BY <2>2, <1>2
  <2>6. SharedLimit # 0 => q.shared <= SharedLimit
    <3>1. SharedLeft(p)
      BY <1>7 DEF HasCredits
    <3> QED BY <3>1, <2>1, <1>3, <1>4 DEF SharedLeft
  <2>7. Balanced(q)
    BY <2>4, <2>5, <2>6 DEF Balanced
  <2> QED BY <2>3, <2>7, <1>1
<1> QED BY <1>6, <1>7

-----------------------------------------------------------------------------
Sound(p) == Typed(p) /\ Sized(p) /\ Balanced(p)

\* The counts of p, one by one.
Parts(p, a, b, c, d, e, n) ==
  /\ a = Len(p.latency) /\ b = Len(p.mrqq) /\ c = Len(p.pending)
  /\ d = Len(p.rwq) /\ e = Len(p.returnq) /\ n = Cardinality(Busy(p))

LEMMA CountParts ==
  ASSUME NEW p, Typed(p)
  PROVE  \E a, b, c, d, e, n \in Nat : Parts(p, a, b, c, d, e, n)
<1>1. /\ p.latency \in Seq(Requests) /\ p.mrqq \in Seq(Requests) /\ p.pending \in Seq(Requests)
      /\ p.rwq \in Seq(Requests) /\ p.returnq \in Seq(Requests)
  BY DEF Typed, Shape
<1>2. /\ Len(p.latency) \in Nat /\ Len(p.mrqq) \in Nat /\ Len(p.pending) \in Nat
      /\ Len(p.rwq) \in Nat /\ Len(p.returnq) \in Nat
  BY <1>1
<1>3. PICK n \in Nat : n = Cardinality(Busy(p))
  BY BusyFinite
<1>4. PICK a \in Nat, b \in Nat, c \in Nat, d \in Nat, e \in Nat :
        /\ a = Len(p.latency) /\ b = Len(p.mrqq) /\ c = Len(p.pending)
        /\ d = Len(p.rwq) /\ e = Len(p.returnq)
  BY <1>2
<1> QED BY <1>3, <1>4 DEF Parts

LEMMA SumOfParts ==
  ASSUME NEW p, NEW a, NEW b, NEW c, NEW d, NEW e, NEW n, Parts(p, a, b, c, d, e, n)
  PROVE  InFlightCount(p) = a + b + c + d + e + n
<1>1. InFlightCount(p)
        = Len(p.latency) + Len(p.mrqq) + Len(p.pending) + Len(p.rwq) + Len(p.returnq)
          + Cardinality(Busy(p))
  BY DEF InFlightCount
<1>2. InFlightCount(p) = a + Len(p.mrqq) + Len(p.pending) + Len(p.rwq) + Len(p.returnq)
          + Cardinality(Busy(p))
  BY <1>1 DEF Parts
<1>3. InFlightCount(p) = a + b + c + Len(p.rwq) + Len(p.returnq) + Cardinality(Busy(p))
  BY <1>2 DEF Parts
<1>4. InFlightCount(p) = a + b + c + d + e + Cardinality(Busy(p))
  BY <1>3 DEF Parts
<1> QED BY <1>4 DEF Parts

LEMMA SubOfRequest == \A m \in Requests : SubOf(m) \in Subs
  BY RequestTypes, SubOfBank DEF SubOf

\* m left p, and its credit is still to be given back.
Owes(p, q, m) ==
  /\ q.private = p.private /\ q.shared = p.shared
  /\ InFlight(p) \subseteq InFlight(q) \cup {m}
  /\ InFlightCount(p) = InFlightCount(q) + 1

LEMMA Repays ==
  ASSUME NEW p, NEW x, NEW m \in Requests, schedSize \in Nat,
         Balanced(p), Typed(x), Owes(p, x, m), NEW q, q = ReturnCredit(x, SubOf(m))
  PROVE  /\ Typed(q) /\ Balanced(q) /\ SameQueues(x, q) /\ q.last = x.last
         /\ \A t \in Subs : HasCredits(p, t) => HasCredits(q, t)
<1>1. PICK s \in Subs : s = SubOf(m)
  BY SubOfRequest
<1>2. Borrowers(x) = Borrowers(p) /\ x.shared = p.shared
  BY DEF Owes, Borrowers
<1>3. ASSUME NEW t \in Borrowers(x), t # s
      PROVE  \E w \in InFlight(x) : SubOf(w) = t
  <2>1. PICK w \in InFlight(p) : SubOf(w) = t
    BY <1>2 DEF Balanced
  <2>2. w # m
    BY <2>1, <1>1, <1>3
  <2> QED BY <2>1, <2>2 DEF Owes
<1>4. SharedLimit # 0 => x.shared <= SharedLimit
  BY <1>2 DEF Balanced
<1>5. x.shared + Cardinality(Borrowers(x)) = InFlightCount(x) + 1
  BY <1>2 DEF Balanced, Owes
<1>6. /\ Typed(q) /\ Balanced(q) /\ SameQueues(x, q) /\ q.last = x.last
      /\ \A t \in Subs : HasCredits(x, t) => HasCredits(q, t)
  <2>1. q = ReturnCredit(x, s)
    BY <1>1
  <2> QED BY <2>1, <1>3, <1>4, <1>5, GivesBack
<1>7. \A t \in Subs : HasCredits(p, t) => HasCredits(x, t)
  BY DEF Owes, HasCredits, SharedLeft
<1> QED BY <1>6, <1>7

LEMMA ReturnSound ==
  ASSUME NEW p, Sound(p), schedSize \in Nat, NEW q, q = Return(p)
  PROVE  Sound(q) /\ Calm(p, q) /\ Alike(p, q)
<1>1. CASE q = p
  BY <1>1 DEF Calm, Sound, Typed, Shape, Alike
<1>2. CASE q # p
  <2>1. p.returnq # <<>> /\ p.returnq \in Seq(Requests) /\ DOMAIN p = Fields
    BY <1>2 DEF Return, Sound, Typed, Shape
  <2>2. PICK m \in Requests : m = Head(p.returnq)
    BY <2>1
  <2>3. PICK s \in Subs : s = SubOf(m)
    BY SubOfRequest
  <2>4. Len(p.fromDram[s]) # QueueSize
    BY <1>2, <2>2, <2>3 DEF Return
  <2>5. PICK u, v : /\ u = [p.fromDram EXCEPT ![s] = Append(@, m)]
                    /\ v = Tail(p.returnq)
    OBVIOUS
  <2>6. PICK x : x = [p EXCEPT !.fromDram = u, !.returnq = v]
    OBVIOUS
  <2>7. q = ReturnCredit(x, SubOf(m))
    BY <2>1, <2>2, <2>3, <2>4, <2>5, <2>6 DEF Return
  <2>8. /\ x.fromDram = u /\ x.returnq = v /\ x.private = p.private /\ x.shared = p.shared
        /\ x.last = p.last /\ Alike(p, x) /\ x.open = p.open
    BY <2>1, <2>6 DEF Alike, Fields
  <2>9. /\ v \in Seq(Requests) /\ ToSet(p.returnq) \subseteq ToSet(v) \cup {m}
        /\ Len(v) = Len(p.returnq) - 1 /\ Len(p.returnq) \in Nat
    <3>1. Drops(p.returnq, v, 1) /\ v \in Seq(Requests)
      BY <2>1, <2>5, TailDrops
    <3>2. 1 \in 1 .. Len(p.returnq) /\ p.returnq[1] = m /\ Len(p.returnq) \in Nat
      BY <2>1, <2>2
    <3> QED BY <3>1, <3>2, <2>1, DropElements
  <2>10. /\ p.fromDram \in [Subs -> Seq(Requests)]
         /\ \A t \in Subs : Len(p.fromDram[t]) <= QueueSize
    BY DEF Sound, Typed, Sized
  <2>11. /\ u \in [Subs -> Seq(Requests)] /\ u[s] = Append(p.fromDram[s], m)
         /\ \A t \in Subs : t # s => u[t] = p.fromDram[t]
    BY <2>5, <2>10
  <2>12. \A t \in Subs : Len(u[t]) <= QueueSize
    <3>1. Len(u[s]) <= QueueSize
      <4>1. p.fromDram[s] \in Seq(Requests) /\ Len(p.fromDram[s]) <= QueueSize
        BY <2>10
      <4>2. Len(u[s]) = Len(p.fromDram[s]) + 1 /\ Len(p.fromDram[s]) \in Nat
        BY <4>1, <2>11
      <4>3. QueueSize \in Nat
        BY PartitionAssumption
      <4> QED BY <4>1, <4>2, <4>3, <2>4
    <3> QED BY <3>1, <2>10, <2>11
  <2>13. Typed(x)
    <3>1. Shape(x)
      BY <2>8 DEF Sound, Typed, Shape, Alike
    <3> QED BY <3>1, <2>8, <2>9, <2>11 DEF Sound, Typed
  <2>14. Owes(p, x, m)
    <3>1. InFlight(p) \subseteq InFlight(x) \cup {m}
      <4> SUFFICES ASSUME NEW w \in InFlight(p), w # m PROVE w \in InFlight(x)
        OBVIOUS
      <4>1. \/ w \in ToSet(p.latency) \/ w \in ToSet(p.mrqq) \/ w \in ToSet(p.pending)
            \/ w \in ToSet(p.rwq) \/ w \in ToSet(p.returnq)
            \/ \E b \in Banks : w \in ToSet(p.bank[b])
        BY InFlightCases
      <4>2. \/ w \in ToSet(x.latency) \/ w \in ToSet(x.mrqq) \/ w \in ToSet(x.pending)
            \/ w \in ToSet(x.rwq) \/ w \in ToSet(x.returnq)
            \/ \E b \in Banks : w \in ToSet(x.bank[b])
        BY <4>1, <2>8, <2>9 DEF Alike
      <4> QED BY <4>2, InFlightCases
    <3>2. InFlightCount(p) = InFlightCount(x) + 1
      <4>1. PICK a \in Nat, b \in Nat, c \in Nat, d \in Nat, e \in Nat, n \in Nat :
              Parts(p, a, b, c, d, e, n)
        BY CountParts DEF Sound
      <4>2. Busy(x) = Busy(p)
        BY <2>8 DEF Alike, Busy
      <4>3. Parts(x, a, b, c, d, e - 1, n)
        BY <4>1, <4>2, <2>8, <2>9 DEF Alike, Parts
      <4>4. InFlightCount(p) = a + b + c + d + e + n
        BY <4>1, SumOfParts
      <4>5. InFlightCount(x) = a + b + c + d + (e - 1) + n
        BY <4>3, SumOfParts
      <4> QED BY <4>4, <4>5
    <3> QED BY <3>1, <3>2, <2>8 DEF Owes
  <2>15. /\ Typed(q) /\ Balanced(q) /\ SameQueues(x, q) /\ q.last = x.last
         /\ \A t \in Subs : HasCredits(p, t) => HasCredits(q, t)
    BY <2>7, <2>13, <2>14, Repays DEF Sound
  <2>16. Sized(q)
    <3>1. q.fromDram = u /\ q.returnq = v
      BY <2>8, <2>15 DEF SameQueues
    <3>2. Len(v) <= ReturnSize
      <4>1. Len(p.returnq) <= ReturnSize /\ ReturnSize \in Nat
        BY PartitionAssumption DEF Sound, Sized
      <4> QED BY <4>1, <2>9
    <3> QED BY <3>1, <3>2, <2>12 DEF Sized
  <2>17. Calm(p, q) /\ Alike(p, q)
    BY <2>8, <2>15 DEF Calm, Alike, SameQueues
  <2> QED BY <2>15, <2>16, <2>17 DEF Sound
<1> QED BY <1>1, <1>2

\* Requests of p are in another queue of q, and nothing else changes.
Moves(p, q) ==
  /\ q.private = p.private /\ q.shared = p.shared /\ q.last = p.last
  /\ q.toDram = p.toDram /\ q.fromDram = p.fromDram

LEMMA Carries ==
  ASSUME NEW p, NEW q, Sound(p), Shape(q), Moves(p, q),
         q.returnq \in Seq(Requests), Len(q.returnq) <= ReturnSize,
         q.open \in [Banks -> Rows],
         InFlight(p) \subseteq InFlight(q), InFlightCount(q) = InFlightCount(p)
  PROVE  Sound(q) /\ Calm(p, q)
<1>1. Typed(q)
  BY DEF Sound, Typed, Moves
<1>2. Sized(q)
  BY DEF Sound, Sized, Moves
<1>3. Balanced(q)
  BY MovedOn DEF Sound, Moves
<1>4. Calm(p, q)
  BY DEF Calm, Moves, HasCredits, SharedLeft
<1> QED BY <1>1, <1>2, <1>3, <1>4 DEF Sound

\* A finished read waits in the return queue; a write-back gives its credit back.
LEMMA FinishSound ==
  ASSUME NEW p, Sound(p), schedSize \in Nat, NEW done, NEW q, q = Finish(p, done)
  PROVE  /\ Sound(q) /\ Calm(p, q) /\ q.fromDram = p.fromDram
         /\ q.mrqq = p.mrqq /\ q.pending = p.pending
<1>1. CASE q = p
  BY <1>1 DEF Calm
<1>2. CASE q # p
  <2>1. p.rwq # <<>> /\ p.rwq \in Seq(Requests) /\ DOMAIN p = Fields
    BY <1>2 DEF Finish, Sound, Typed, Shape
  <2>2. PICK m \in Requests : m = Head(p.rwq)
    BY <2>1
  <2>3. Len(p.returnq) # ReturnSize
    BY <1>2 DEF Finish
  <2>4. PICK v, w : v = Tail(p.rwq) /\ w = Append(p.returnq, m)
    OBVIOUS
  <2>5. PICK x : x = [p EXCEPT !.rwq = v]
    OBVIOUS
  <2>6. q = IF m.kind = "wrbk" THEN ReturnCredit(x, SubOf(m)) ELSE [x EXCEPT !.returnq = Append(@, m)]
    BY <1>2, <2>2, <2>4, <2>5 DEF Finish
  <2>7. /\ DOMAIN x = Fields /\ x.rwq = v /\ x.latency = p.latency /\ x.mrqq = p.mrqq
        /\ x.pending = p.pending /\ x.bank = p.bank /\ x.returnq = p.returnq
        /\ x.open = p.open /\ Moves(p, x)
    BY <2>1, <2>5 DEF Fields, Moves
  <2>8. /\ v \in Seq(Requests) /\ ToSet(p.rwq) \subseteq ToSet(v) \cup {m}
        /\ Len(v) = Len(p.rwq) - 1 /\ Len(p.rwq) \in Nat
    <3>1. Drops(p.rwq, v, 1) /\ v \in Seq(Requests)
      BY <2>1, <2>4, TailDrops
    <3>2. 1 \in 1 .. Len(p.rwq) /\ p.rwq[1] = m /\ Len(p.rwq) \in Nat
      BY <2>1, <2>2
    <3> QED BY <3>1, <3>2, <2>1, DropElements
  <2>9. Shape(x)
    BY <2>7, <2>8 DEF Sound, Typed, Shape, Moves
  <2>10. PICK a \in Nat, b \in Nat, c \in Nat, d \in Nat, e \in Nat, n \in Nat :
           Parts(p, a, b, c, d, e, n)
    BY CountParts DEF Sound
  <2>11. InFlightCount(p) = a + b + c + d + e + n
    BY <2>10, SumOfParts
  <2>12. CASE m.kind = "wrbk"
    <3>1. q = ReturnCredit(x, SubOf(m))
      BY <2>6, <2>12
    <3>2. Typed(x)
      BY <2>7, <2>9 DEF Sound, Typed, Moves
    <3>3. InFlight(p) \subseteq InFlight(x) \cup {m}
      <4> SUFFICES ASSUME NEW z \in InFlight(p), z # m PROVE z \in InFlight(x)
        OBVIOUS
      <4>1. \/ z \in ToSet(p.latency) \/ z \in ToSet(p.mrqq) \/ z \in ToSet(p.pending)
            \/ z \in ToSet(p.rwq) \/ z \in ToSet(p.returnq)
            \/ \E bk \in Banks : z \in ToSet(p.bank[bk])
        BY InFlightCases
      <4>2. \/ z \in ToSet(x.latency) \/ z \in ToSet(x.mrqq) \/ z \in ToSet(x.pending)
            \/ z \in ToSet(x.rwq) \/ z \in ToSet(x.returnq)
            \/ \E bk \in Banks : z \in ToSet(x.bank[bk])
        BY <4>1, <2>7, <2>8
      <4> QED BY <4>2, InFlightCases
    <3>4. Owes(p, x, m)
      <4>1. Busy(x) = Busy(p)
        BY <2>7 DEF Busy
      <4>2. Parts(x, a, b, c, d - 1, e, n)
        BY <4>1, <2>7, <2>8, <2>10 DEF Parts
      <4>3. InFlightCount(x) = a + b + c + (d - 1) + e + n
        BY <4>2, SumOfParts
      <4>4. InFlightCount(p) = InFlightCount(x) + 1
        BY <4>3, <2>11
      <4> QED BY <4>4, <3>3, <2>7 DEF Owes, Moves
    <3>5. /\ Typed(q) /\ Balanced(q) /\ SameQueues(x, q) /\ q.last = x.last
          /\ \A t \in Subs : HasCredits(p, t) => HasCredits(q, t)
      BY <3>1, <3>2, <3>4, Repays DEF Sound
    <3>6. Sized(q)
      BY <3>5, <2>7 DEF Sound, Sized, SameQueues, Moves
    <3>7. Calm(p, q)
      BY <3>5, <2>7 DEF Calm, SameQueues, Alike, Moves
    <3> QED BY <3>5, <3>6, <3>7, <2>7 DEF Sound, SameQueues, Alike, Moves
  <2>13. CASE m.kind # "wrbk"
    <3>1. p.returnq \in Seq(Requests) /\ Len(p.returnq) <= ReturnSize
      BY DEF Sound, Typed, Sized
    <3>2. /\ w \in Seq(Requests) /\ Len(w) = Len(p.returnq) + 1 /\ Len(w) <= ReturnSize
          /\ Len(p.returnq) \in Nat /\ ToSet(p.returnq) \cup {m} \subseteq ToSet(w)
      <4>1. w \in Seq(Requests) /\ Len(w) = Len(p.returnq) + 1 /\ Len(p.returnq) \in Nat
        BY <3>1, <2>4
      <4>2. ReturnSize \in Nat
        BY PartitionAssumption
      <4>3. ToSet(p.returnq) \cup {m} \subseteq ToSet(w)
        BY <3>1, <2>4, AppendElements
      <4> QED BY <4>1, <4>2, <4>3, <3>1, <2>3
    <3>3. q = [x EXCEPT !.returnq = w]
      BY <2>4, <2>6, <2>7, <2>13
    <3>4. /\ DOMAIN q = Fields /\ q.rwq = v /\ q.latency = p.latency /\ q.mrqq = p.mrqq
          /\ q.pending = p.pending /\ q.bank = p.bank /\ q.returnq = w
          /\ q.open = p.open /\ Moves(p, q)
      BY <3>3, <2>7 DEF Fields, Moves
    <3>5. Shape(q)
      BY <3>4, <2>8 DEF Sound, Typed, Shape, Moves
    <3>6. InFlight(p) \subseteq InFlight(q)
      <4> SUFFICES ASSUME NEW z \in InFlight(p) PROVE z \in InFlight(q)
        OBVIOUS
      <4>1. \/ z \in ToSet(p.latency) \/ z \in ToSet(p.mrqq) \/ z \in ToSet(p.pending)
            \/ z \in ToSet(p.rwq) \/ z \in ToSet(p.returnq)
            \/ \E bk \in Banks : z \in ToSet(p.bank[bk])
        BY InFlightCases
      <4>2. \/ z \in ToSet(q.latency) \/ z \in ToSet(q.mrqq) \/ z \in ToSet(q.pending)
            \/ z \in ToSet(q.rwq) \/ z \in ToSet(q.returnq)
            \/ \E bk \in Banks : z \in ToSet(q.bank[bk])
        BY <4>1, <3>2, <3>4, <2>8
      <4> QED BY <4>2, InFlightCases
    <3>7. InFlightCount(q) = InFlightCount(p)
      <4>1. Busy(q) = Busy(p)
        BY <3>4 DEF Busy
      <4>2. PICK f, g : f = d - 1 /\ g = e + 1
        OBVIOUS
      <4>3. Parts(q, a, b, c, f, g, n)
        BY <4>1, <4>2, <3>2, <3>4, <2>8, <2>10 DEF Parts
      <4>4. InFlightCount(q) = a + b + c + f + g + n
        BY <4>3, SumOfParts
      <4> QED BY <4>2, <4>4, <2>11
    <3>8. q.open \in [Banks -> Rows]
      BY <3>4 DEF Sound, Typed
    <3>9. Sound(q) /\ Calm(p, q)
      BY <3>2, <3>4, <3>5, <3>6, <3>7, <3>8, Carries
    <3> QED BY <3>4, <3>9 DEF Moves
  <2> QED BY <2>12, <2>13
<1> QED BY <1>1, <1>2

\* mrqq keeps at most one request, and only while the scheduler is full.
LEMMA AddSound ==
  ASSUME NEW p, Sound(p), schedSize \in Nat, NEW q, q = AddRequests(p), Shape(q)
  PROVE  /\ Sound(q) /\ Calm(p, q) /\ q.fromDram = p.fromDram
         /\ (Len(p.mrqq) <= 1 \/ (Len(p.mrqq) = 2 /\ Len(p.pending) < schedSize))
              => Len(q.mrqq) <= 1
<1>1. PICK k : k = Min({Len(p.mrqq), schedSize - Len(p.pending)})
  OBVIOUS
<1>2. /\ p.pending \in Seq(Requests) /\ p.mrqq \in Seq(Requests) /\ DOMAIN p = Fields
      /\ Len(p.pending) \in Nat /\ Len(p.mrqq) \in Nat /\ Len(p.pending) <= schedSize
  <2>1. p.pending \in Seq(Requests) /\ p.mrqq \in Seq(Requests) /\ Len(p.pending) <= schedSize
    BY DEF Sound, Typed, Shape
  <2>2. DOMAIN p = Fields
    BY DEF Sound, Typed, Shape
  <2> QED BY <2>1, <2>2
<1>3. /\ k \in Nat /\ k <= Len(p.mrqq)
      /\ k = Len(p.mrqq) \/ k = schedSize - Len(p.pending)
  <2>1. {Len(p.mrqq), schedSize - Len(p.pending)} \in SUBSET Nat
    BY <1>2
  <2> QED BY <2>1, <1>1, LeastNatural
<1>4. PICK x, v : x = SubSeq(p.mrqq, 1, k) /\ v = SubSeq(p.mrqq, k + 1, Len(p.mrqq))
  OBVIOUS
<1>5. /\ x \in Seq(Requests) /\ v \in Seq(Requests) /\ Len(x) = k
      /\ Len(v) = Len(p.mrqq) - k
  BY <1>2, <1>3, <1>4, Slice
<1>6. PICK u : u = p.pending \o x
  OBVIOUS
<1>7. Len(u) = Len(p.pending) + k
  BY <1>2, <1>5, <1>6, Concat
<1>8. /\ DOMAIN q = Fields /\ q.rwq = p.rwq /\ q.latency = p.latency /\ q.mrqq = v
      /\ q.pending = u /\ q.bank = p.bank /\ q.returnq = p.returnq
      /\ q.open = p.open /\ Moves(p, q)
  <2>1. q = [p EXCEPT !.pending = u, !.mrqq = v]
    BY <1>1, <1>4, <1>6 DEF AddRequests
  <2> QED BY <2>1, <1>2 DEF Fields, Moves
<1>9. ToSet(p.pending) \cup ToSet(p.mrqq) \subseteq ToSet(u) \cup ToSet(v)
  BY <1>2, <1>3, <1>4, <1>6, SliceElements
<1>10. InFlight(p) \subseteq InFlight(q)
  <2> SUFFICES ASSUME NEW z \in InFlight(p) PROVE z \in InFlight(q)
    OBVIOUS
  <2>1. \/ z \in ToSet(p.latency) \/ z \in ToSet(p.mrqq) \/ z \in ToSet(p.pending)
        \/ z \in ToSet(p.rwq) \/ z \in ToSet(p.returnq)
        \/ \E bk \in Banks : z \in ToSet(p.bank[bk])
    BY InFlightCases
  <2>2. \/ z \in ToSet(q.latency) \/ z \in ToSet(q.mrqq) \/ z \in ToSet(q.pending)
        \/ z \in ToSet(q.rwq) \/ z \in ToSet(q.returnq)
        \/ \E bk \in Banks : z \in ToSet(q.bank[bk])
    BY <2>1, <1>8, <1>9
  <2> QED BY <2>2, InFlightCases
<1>11. InFlightCount(q) = InFlightCount(p)
  <2>1. PICK a \in Nat, b \in Nat, c \in Nat, d \in Nat, e \in Nat, n \in Nat :
          Parts(p, a, b, c, d, e, n)
    BY CountParts DEF Sound
  <2>2. Busy(q) = Busy(p)
    BY <1>8 DEF Busy
  <2>3. Parts(q, a, b - k, c + k, d, e, n)
    BY <2>1, <2>2, <1>5, <1>7, <1>8 DEF Parts
  <2>4. InFlightCount(p) = a + b + c + d + e + n
    BY <2>1, SumOfParts
  <2>5. InFlightCount(q) = a + (b - k) + (c + k) + d + e + n
    BY <2>3, SumOfParts
  <2> QED BY <2>4, <2>5, <1>3
<1>12. Sound(q) /\ Calm(p, q)
  <2>1. q.returnq \in Seq(Requests) /\ Len(q.returnq) <= ReturnSize /\ q.open \in [Banks -> Rows]
    BY <1>8 DEF Sound, Typed, Sized
  <2> QED BY <2>1, <1>8, <1>10, <1>11, Carries
<1>13. ASSUME Len(p.mrqq) <= 1 \/ (Len(p.mrqq) = 2 /\ Len(p.pending) < schedSize)
       PROVE  Len(q.mrqq) <= 1
  BY <1>2, <1>3, <1>5, <1>8, <1>13
<1> QED BY <1>8, <1>12, <1>13 DEF Moves

\* The request chosen becomes that of its bank.
LEMMA ScheduleSound ==
  ASSUME NEW p, Sound(p), NEW b, NEW q, q = Schedule(p, b), Shape(q)
  PROVE  Sound(q) /\ Calm(p, q) /\ q.fromDram = p.fromDram /\ q.mrqq = p.mrqq
<1>1. CASE b \notin Schedulable(p)
  <2>1. q = p
    BY <1>1 DEF Schedule
  <2> QED BY <2>1 DEF Calm
<1>2. CASE b \in Schedulable(p)
  <2>1. /\ p.pending \in Seq(Requests) /\ p.bank \in [Banks -> Seq(Requests)]
        /\ DOMAIN p = Fields /\ p.open \in [Banks -> Rows]
    BY DEF Sound, Typed, Shape
  <2>2. b \in Banks /\ p.bank[b] = <<>> /\ InBank(p, b) # {}
    BY <1>2 DEF Schedulable
  <2>3. PICK r : r = Chosen(p, b)
    OBVIOUS
  <2>4. r \in 1 .. Len(p.pending)
    BY <2>1, <2>2, <2>3, ChosenOldest
  <2>5. PICK m, u, o, v : /\ m = p.pending[r] /\ u = RemoveAt(p.pending, r)
                          /\ o = [p.open EXCEPT ![b] = m.row]
                          /\ v = [p.bank EXCEPT ![b] = <<m>>]
    OBVIOUS
  <2>6. m \in Requests /\ m.row \in Rows
    <3>1. m \in Requests
      BY <2>1, <2>4, <2>5
    <3> QED BY <3>1 DEF Requests
  <2>7. /\ ToSet(p.pending) \subseteq ToSet(u) \cup {m}
        /\ Len(u) = Len(p.pending) - 1 /\ Len(p.pending) \in Nat
    <3>1. Drops(p.pending, u, r) /\ u \in Seq(Requests)
      BY <2>1, <2>4, <2>5, RemoveDrops
    <3>2. Len(p.pending) \in Nat
      BY <2>1
    <3> QED BY <3>1, <3>2, <2>1, <2>4, <2>5, DropElements
  <2>8. v[b] = <<m>> /\ \A a \in Banks : a # b => v[a] = p.bank[a]
    BY <2>1, <2>2, <2>5
  <2>9. o \in [Banks -> Rows]
    BY <2>1, <2>2, <2>5, <2>6
  <2>10. /\ DOMAIN q = Fields /\ q.rwq = p.rwq /\ q.latency = p.latency /\ q.mrqq = p.mrqq
         /\ q.pending = u /\ q.bank = v /\ q.returnq = p.returnq
         /\ q.open = o /\ Moves(p, q)
    <3>1. q = [p EXCEPT !.bank = v, !.open = o, !.pending = u]
      BY <1>2, <2>3, <2>5 DEF Schedule
    <3> QED BY <3>1, <2>1 DEF Fields, Moves
  <2>11. m \in ToSet(v[b])
    <3>1. <<m>>[1] = m /\ 1 \in DOMAIN <<m>>
      OBVIOUS
    <3> QED BY <3>1, <2>8 DEF ToSet
  <2>12. InFlight(p) \subseteq InFlight(q)
    <3> SUFFICES ASSUME NEW z \in InFlight(p) PROVE z \in InFlight(q)
      OBVIOUS
    <3>1. \/ z \in ToSet(p.latency) \/ z \in ToSet(p.mrqq) \/ z \in ToSet(p.pending)
          \/ z \in ToSet(p.rwq) \/ z \in ToSet(p.returnq)
          \/ \E bk \in Banks : z \in ToSet(p.bank[bk])
      BY InFlightCases
    <3>2. ToSet(p.bank[b]) = {}
      <4>1. DOMAIN <<>> = {}
        OBVIOUS
      <4> QED BY <4>1, <2>2 DEF ToSet
    <3>3. ASSUME NEW bk \in Banks, z \in ToSet(p.bank[bk]) PROVE z \in ToSet(q.bank[bk])
      BY <3>2, <3>3, <2>8, <2>10
    <3>4. z \in ToSet(p.pending) => z \in ToSet(q.pending) \/ z \in ToSet(q.bank[b])
      BY <2>7, <2>8, <2>10, <2>11
    <3>5. \/ z \in ToSet(q.latency) \/ z \in ToSet(q.mrqq) \/ z \in ToSet(q.pending)
          \/ z \in ToSet(q.rwq) \/ z \in ToSet(q.returnq)
          \/ \E bk \in Banks : z \in ToSet(q.bank[bk])
      BY <3>1, <3>3, <3>4, <2>2, <2>10
    <3> QED BY <3>5, InFlightCases
  <2>13. Cardinality(Busy(q)) = Cardinality(Busy(p)) + 1
    <3>1. v[b] # <<>>
      BY <2>8
    <3>2. Busy(q) = Busy(p) \cup {b} /\ b \notin Busy(p)
      BY <3>1, <2>2, <2>8, <2>10 DEF Busy
    <3> QED BY <3>2, BusyFinite, FS_AddElement
  <2>14. InFlightCount(q) = InFlightCount(p)
    <3>1. PICK a \in Nat, bb \in Nat, c \in Nat, d \in Nat, e \in Nat, n \in Nat :
            Parts(p, a, bb, c, d, e, n)
      BY CountParts DEF Sound
    <3>2. PICK f, g : f = c - 1 /\ g = n + 1
      OBVIOUS
    <3>3. Parts(q, a, bb, f, d, e, g)
      BY <3>1, <3>2, <2>7, <2>10, <2>13 DEF Parts
    <3>4. InFlightCount(p) = a + bb + c + d + e + n
      BY <3>1, SumOfParts
    <3>5. InFlightCount(q) = a + bb + f + d + e + g
      BY <3>3, SumOfParts
    <3> QED BY <3>2, <3>4, <3>5
  <2>15. q.returnq \in Seq(Requests) /\ Len(q.returnq) <= ReturnSize
    BY <2>10 DEF Sound, Typed, Sized
  <2>16. Sound(q) /\ Calm(p, q)
    BY <2>9, <2>10, <2>12, <2>14, <2>15, Carries
  <2> QED BY <2>10, <2>16 DEF Moves
<1> QED BY <1>1, <1>2

LEMMA ColumnSound ==
  ASSUME NEW p, Sound(p), NEW b, NEW q, q = IssueColumn(p, b), Shape(q)
  PROVE  /\ Sound(q) /\ Calm(p, q) /\ q.fromDram = p.fromDram
         /\ q.mrqq = p.mrqq /\ q.pending = p.pending
<1>1. CASE q = p
  BY <1>1 DEF Calm
<1>2. CASE q # p
  <2>1. b \in Banks /\ p.bank[b] # <<>>
    BY <1>2 DEF IssueColumn
  <2>2. PICK m \in Requests : p.bank[b] = <<m>>
    BY <2>1 DEF Sound, Typed, Shape
  <2>3. p.rwq \in Seq(Requests) /\ p.bank \in [Banks -> Seq(Requests)] /\ DOMAIN p = Fields
    BY DEF Sound, Typed, Shape
  <2>4. PICK u, v : u = Append(p.rwq, m) /\ v = [p.bank EXCEPT ![b] = <<>>]
    OBVIOUS
  <2>5. v[b] = <<>> /\ \A a \in Banks : a # b => v[a] = p.bank[a]
    BY <2>1, <2>3, <2>4
  <2>6. /\ Len(u) = Len(p.rwq) + 1 /\ Len(p.rwq) \in Nat
        /\ ToSet(p.rwq) \cup {m} \subseteq ToSet(u)
    <3>1. Len(u) = Len(p.rwq) + 1 /\ Len(p.rwq) \in Nat
      BY <2>3, <2>4
    <3> QED BY <3>1, <2>3, <2>4, AppendElements
  <2>7. /\ DOMAIN q = Fields /\ q.rwq = u /\ q.latency = p.latency /\ q.mrqq = p.mrqq
        /\ q.pending = p.pending /\ q.bank = v /\ q.returnq = p.returnq
        /\ q.open = p.open /\ Moves(p, q)
    <3>1. Head(p.bank[b]) = m
      BY <2>2
    <3>2. q = [p EXCEPT !.rwq = u, !.bank = v]
      BY <3>1, <1>2, <2>4 DEF IssueColumn
    <3> QED BY <3>2, <2>3 DEF Fields, Moves
  <2>8. ToSet(p.bank[b]) = {m}
    <3>1. \A i \in DOMAIN <<m>> : <<m>>[i] = m
      OBVIOUS
    <3>2. 1 \in DOMAIN <<m>>
      OBVIOUS
    <3> QED BY <3>1, <3>2, <2>2 DEF ToSet
  <2>9. InFlight(p) \subseteq InFlight(q)
    <3> SUFFICES ASSUME NEW z \in InFlight(p) PROVE z \in InFlight(q)
      OBVIOUS
    <3>1. \/ z \in ToSet(p.latency) \/ z \in ToSet(p.mrqq) \/ z \in ToSet(p.pending)
          \/ z \in ToSet(p.rwq) \/ z \in ToSet(p.returnq)
          \/ \E bk \in Banks : z \in ToSet(p.bank[bk])
      BY InFlightCases
    <3>2. ASSUME NEW bk \in Banks, z \in ToSet(p.bank[bk])
          PROVE  z \in ToSet(q.bank[bk]) \/ z \in ToSet(q.rwq)
      <4>1. CASE bk = b
        BY <4>1, <3>2, <2>6, <2>7, <2>8
      <4>2. CASE bk # b
        BY <4>2, <3>2, <2>5, <2>7
      <4> QED BY <4>1, <4>2
    <3>3. z \in ToSet(p.rwq) => z \in ToSet(q.rwq)
      BY <2>6, <2>7
    <3>4. \/ z \in ToSet(q.latency) \/ z \in ToSet(q.mrqq) \/ z \in ToSet(q.pending)
          \/ z \in ToSet(q.rwq) \/ z \in ToSet(q.returnq)
          \/ \E bk \in Banks : z \in ToSet(q.bank[bk])
      BY <3>1, <3>2, <3>3, <2>7
    <3> QED BY <3>4, InFlightCases
  <2>10. Cardinality(Busy(q)) = Cardinality(Busy(p)) - 1
    <3>1. Busy(q) = Busy(p) \ {b} /\ b \in Busy(p)
      BY <2>1, <2>5, <2>7 DEF Busy
    <3> QED BY <3>1, BusyFinite, FS_RemoveElement
  <2>11. InFlightCount(q) = InFlightCount(p)
    <3>1. PICK a \in Nat, bb \in Nat, c \in Nat, d \in Nat, e \in Nat, n \in Nat :
            Parts(p, a, bb, c, d, e, n)
      BY CountParts DEF Sound
    <3>2. PICK f, g : f = d + 1 /\ g = n - 1
      OBVIOUS
    <3>3. Parts(q, a, bb, c, f, e, g)
      BY <3>1, <3>2, <2>6, <2>7, <2>10 DEF Parts
    <3>4. InFlightCount(p) = a + bb + c + d + e + n
      BY <3>1, SumOfParts
    <3>5. InFlightCount(q) = a + bb + c + f + e + g
      BY <3>3, SumOfParts
    <3> QED BY <3>2, <3>4, <3>5
  <2>12. /\ q.returnq \in Seq(Requests) /\ Len(q.returnq) <= ReturnSize
         /\ q.open \in [Banks -> Rows]
    BY <2>7 DEF Sound, Typed, Sized
  <2>13. Sound(q) /\ Calm(p, q)
    BY <2>7, <2>9, <2>11, <2>12, Carries
  <2> QED BY <2>7, <2>13 DEF Moves
<1> QED BY <1>1, <1>2

\* Counted from the last borrower, every other sub-partition comes before it.
LEMMA SuccessorTurns ==
  ASSUME NEW p, p.last \in Subs
  PROVE  /\ \A s \in Subs : s # p.last =>
              \E n \in 1 .. SubCount - 1 : Successor(p, n) = s
         /\ \A n \in 1 .. SubCount - 1 : Successor(p, n) \in Subs /\ Successor(p, n) # p.last
         /\ Successor(p, SubCount) = p.last
<1>1. SubCount \in Nat /\ SubCount > 0
  BY PartitionAssumption
<1>2. PICK last \in Nat : last = p.last /\ last < SubCount
  BY <1>1 DEF Subs
<1>3. \A k \in Nat : k < SubCount => k % SubCount = k
  BY <1>1
<1>4. \A k \in Nat : k < SubCount => (k + SubCount) % SubCount = k
  BY <1>1
<1>5. ASSUME NEW s \in Subs, s # last
      PROVE  \E n \in 1 .. SubCount - 1 : (n + last) % SubCount = s
  <2>1. s \in Nat /\ s < SubCount
    BY <1>1 DEF Subs
  <2>2. CASE s > last
    <3>1. PICK n : n = s - last
      OBVIOUS
    <3>2. n \in 1 .. SubCount - 1 /\ n + last = s
      BY <2>1, <2>2, <3>1, <1>1, <1>2
    <3> QED BY <3>2, <2>1, <1>3
  <2>3. CASE s < last
    <3>1. PICK n : n = s - last + SubCount
      OBVIOUS
    <3>2. n \in 1 .. SubCount - 1 /\ n + last = s + SubCount
      BY <2>1, <2>3, <3>1, <1>1, <1>2
    <3> QED BY <3>2, <2>1, <1>4
  <2> QED BY <2>1, <2>2, <2>3, <1>2, <1>5
<1>6. ASSUME NEW n \in 1 .. SubCount - 1
      PROVE  (n + last) % SubCount \in Subs /\ (n + last) % SubCount # last
  <2>1. CASE n + last < SubCount
    <3>1. (n + last) % SubCount = n + last
      BY <2>1, <1>1, <1>2, <1>3
    <3> QED BY <2>1, <3>1, <1>1, <1>2 DEF Subs
  <2>2. CASE n + last >= SubCount
    <3>1. PICK k : k = n + last - SubCount
      OBVIOUS
    <3>2. k \in Nat /\ k < last /\ k < SubCount /\ k + SubCount = n + last
      BY <2>2, <3>1, <1>1, <1>2
    <3>3. (n + last) % SubCount = k
      BY <3>2, <1>4
    <3> QED BY <3>2, <3>3, <1>1, <1>2 DEF Subs
  <2> QED BY <2>1, <2>2, <1>1, <1>2
<1>7. (SubCount + last) % SubCount = last
  <2>1. SubCount + last = last + SubCount
    BY <1>1, <1>2
  <2> QED BY <2>1, <1>2, <1>4
<1> QED BY <1>2, <1>5, <1>6, <1>7 DEF Successor

\* The turn goes to a sub-partition that can issue, and to the last borrower
\* only if no other can.
LEMMA TurnFound ==
  ASSUME NEW p, p.last \in Subs, Turns(p) # {}, NEW s, s = Successor(p, Min(Turns(p)))
  PROVE  /\ s \in Subs /\ CanIssue(p, s)
         /\ s = p.last => \A t \in Subs : t # s => ~CanIssue(p, t)
<1>1. SubCount \in Nat /\ SubCount > 0
  BY PartitionAssumption
<1>2. Turns(p) \in SUBSET Nat /\ Turns(p) \subseteq 1 .. SubCount
  BY <1>1 DEF Turns
<1>3. PICK n : n = Min(Turns(p))
  OBVIOUS
<1>4. n \in Turns(p) /\ \A k \in Turns(p) : n <= k
  BY <1>2, <1>3, LeastNatural
<1>5. n \in 1 .. SubCount /\ CanIssue(p, s) /\ s = Successor(p, n)
  BY <1>2, <1>3, <1>4 DEF Turns
<1>6. s \in Subs
  <2>1. n \in 1 .. SubCount - 1 \/ n = SubCount
    BY <1>1, <1>5
  <2> QED BY <2>1, <1>5, SuccessorTurns
<1>7. ASSUME s = p.last, NEW t \in Subs, t # s, CanIssue(p, t) PROVE FALSE
  <2>1. PICK k \in 1 .. SubCount - 1 : Successor(p, k) = t
    BY <1>7, SuccessorTurns
  <2>2. k \in Turns(p)
    BY <2>1, <1>1, <1>7 DEF Turns
  <2>3. n <= k
    BY <2>2, <1>4
  <2>4. n \in 1 .. SubCount - 1
    BY <2>1, <2>3, <1>1, <1>5
  <2> QED BY <2>4, <1>5, <1>7, SuccessorTurns
<1> QED BY <1>5, <1>6, <1>7

LEMMA StartShape ==
  ASSUME NEW p, Shape(p), NEW u \in Seq(Requests), NEW v \in [Subs -> Seq(Requests)],
         \A t \in Subs : \A i \in 1 .. Len(v[t]) : SubOf(v[t][i]) = t,
         NEW x, x = [p EXCEPT !.latency = u, !.toDram = v]
  PROVE  Shape(x)
<1>1. DOMAIN p = Fields
  BY DEF Shape
<1>2. /\ DOMAIN x = Fields /\ x.rwq = p.rwq /\ x.last = p.last
      /\ x.pending = p.pending /\ x.mrqq = p.mrqq
      /\ x.latency = u /\ x.toDram = v /\ x.bank = p.bank
  BY <1>1 DEF Fields
<1> QED BY <1>2 DEF Shape

\* One request enters the latency queue, with a credit; the last borrower has
\* its turn only if no other sub-partition can issue.
LEMMA ArbitrateSound ==
  ASSUME NEW p, Sound(p), schedSize \in Nat, NEW q, q = Arbitrate(p), Shape(q)
  PROVE  /\ Sound(q) /\ q.fromDram = p.fromDram /\ q.mrqq = p.mrqq /\ q.pending = p.pending
         /\ \A s \in Subs : s # p.last /\ CanIssue(p, s) => q.toDram[p.last] = p.toDram[p.last]
<1>1. CASE Full(p) \/ Turns(p) = {}
  <2>1. q = p
    BY <1>1 DEF Arbitrate
  <2> QED BY <2>1
<1>2. CASE ~Full(p) /\ Turns(p) # {}
  <2>1. /\ p.last \in Subs /\ p.latency \in Seq(Requests) /\ DOMAIN p = Fields
        /\ p.toDram \in [Subs -> Seq(Requests)]
    BY DEF Sound, Typed, Shape
  <2>2. PICK s : s = Successor(p, Min(Turns(p)))
    OBVIOUS
  <2>3. /\ s \in Subs /\ CanIssue(p, s)
        /\ s = p.last => \A t \in Subs : t # s => ~CanIssue(p, t)
    BY <2>1, <2>2, <1>2, TurnFound
  <2>4. p.toDram[s] # <<>> /\ HasCredits(p, s)
    BY <2>3 DEF CanIssue
  <2>5. PICK m, u, v : /\ m = Head(p.toDram[s]) /\ u = Append(p.latency, m)
                       /\ v = [p.toDram EXCEPT ![s] = Tail(@)]
    OBVIOUS
  <2>6. HeadGone(p, s, m, v)
    BY <2>3, <2>4, <2>5, HeadLeaves DEF Sound, Typed
  <2>7. /\ m \in Requests /\ SubOf(m) = s /\ v \in [Subs -> Seq(Requests)]
        /\ \A t \in Subs : t # s => v[t] = p.toDram[t]
        /\ \A t \in Subs : \A i \in 1 .. Len(v[t]) : SubOf(v[t][i]) = t
    BY <2>6 DEF HeadGone
  <2>8. /\ u \in Seq(Requests) /\ Len(u) = Len(p.latency) + 1 /\ Len(p.latency) \in Nat
        /\ ToSet(p.latency) \cup {m} \subseteq ToSet(u)
    <3>1. u \in Seq(Requests) /\ Len(u) = Len(p.latency) + 1 /\ Len(p.latency) \in Nat
      BY <2>1, <2>5, <2>7
    <3> QED BY <3>1, <2>1, <2>5, <2>7, AppendElements
  <2>9. PICK x : x = [p EXCEPT !.latency = u, !.toDram = v]
    OBVIOUS
  <2>10. q = Borrow(x, s)
    BY <1>2, <2>2, <2>5, <2>9 DEF Arbitrate
  <2>11. /\ DOMAIN x = Fields /\ x.rwq = p.rwq /\ x.latency = u /\ x.mrqq = p.mrqq
         /\ x.pending = p.pending /\ x.bank = p.bank /\ x.returnq = p.returnq
         /\ x.open = p.open /\ x.toDram = v /\ x.fromDram = p.fromDram
         /\ x.private = p.private /\ x.shared = p.shared /\ x.last = p.last
    BY <2>1, <2>9 DEF Fields
  <2>12. Shape(x)
    <3>1. Shape(p) /\ u \in Seq(Requests)
      BY <2>8 DEF Sound, Typed
    <3>2. x = [p EXCEPT !.latency = u, !.toDram = v]
      BY <2>9
    <3> QED BY <3>1, <3>2, <2>7, StartShape
  <2>13. Typed(x)
    BY <2>11, <2>12 DEF Sound, Typed
  <2>14. InFlight(p) \cup {m} \subseteq InFlight(x)
    <3>1. ASSUME NEW z \in InFlight(p) PROVE z \in InFlight(x)
      <4>1. \/ z \in ToSet(p.latency) \/ z \in ToSet(p.mrqq) \/ z \in ToSet(p.pending)
            \/ z \in ToSet(p.rwq) \/ z \in ToSet(p.returnq)
            \/ \E bk \in Banks : z \in ToSet(p.bank[bk])
        BY <3>1, InFlightCases
      <4>2. \/ z \in ToSet(x.latency) \/ z \in ToSet(x.mrqq) \/ z \in ToSet(x.pending)
            \/ z \in ToSet(x.rwq) \/ z \in ToSet(x.returnq)
            \/ \E bk \in Banks : z \in ToSet(x.bank[bk])
        BY <4>1, <2>8, <2>11
      <4> QED BY <4>2, InFlightCases
    <3>2. m \in ToSet(x.latency)
      BY <2>8, <2>11
    <3>3. m \in InFlight(x)
      BY <3>2, InFlightCases
    <3> QED BY <3>1, <3>3
  <2>15. InFlightCount(x) = InFlightCount(p) + 1
    <3>1. PICK a \in Nat, b \in Nat, c \in Nat, d \in Nat, e \in Nat, n \in Nat :
            Parts(p, a, b, c, d, e, n)
      BY CountParts DEF Sound
    <3>2. PICK f : f = a + 1
      OBVIOUS
    <3>3. Busy(x) = Busy(p)
      BY <2>11 DEF Busy
    <3>4. Parts(x, f, b, c, d, e, n)
      BY <3>1, <3>2, <3>3, <2>8, <2>11 DEF Parts
    <3>5. InFlightCount(p) = a + b + c + d + e + n
      BY <3>1, SumOfParts
    <3>6. InFlightCount(x) = f + b + c + d + e + n
      BY <3>4, SumOfParts
    <3> QED BY <3>2, <3>5, <3>6
  <2>16. Typed(q) /\ Balanced(q) /\ SameQueues(x, q) /\ q.last = s
    <3>1. Borrowers(x) = Borrowers(p)
      BY <2>11 DEF Borrowers
    <3>2. Balanced(p) /\ Typed(p)
      BY DEF Sound
    <3>3. \A t \in Borrowers(x) : \E w \in InFlight(x) : SubOf(w) = t
      BY <3>1, <3>2, <2>14 DEF Balanced
    <3>4. \E w \in InFlight(x) : SubOf(w) = s
      BY <2>7, <2>14
    <3>5. SharedLimit # 0 => x.shared <= SharedLimit
      BY <3>2, <2>11 DEF Balanced
    <3>6. x.shared + Cardinality(Borrowers(x)) + 1 = InFlightCount(x)
      BY <3>1, <3>2, <2>11, <2>15 DEF Balanced
    <3>7. HasCredits(x, s)
      BY <2>4, <2>11 DEF HasCredits, SharedLeft
    <3> QED BY <3>3, <3>4, <3>5, <3>6, <3>7, <2>3, <2>10, <2>13, TakesCredit
  <2>17. Sized(q)
    BY <2>11, <2>16 DEF Sound, Sized, SameQueues
  <2>18. /\ q.fromDram = p.fromDram /\ q.mrqq = p.mrqq /\ q.pending = p.pending /\ q.toDram = v
    BY <2>11, <2>16 DEF SameQueues, Alike
  <2>19. ASSUME NEW t \in Subs, t # p.last, CanIssue(p, t)
         PROVE  q.toDram[p.last] = p.toDram[p.last]
    <3>1. s # p.last
      BY <2>3, <2>19
    <3> QED BY <3>1, <2>1, <2>7, <2>18
  <2> QED BY <2>16, <2>17, <2>18, <2>19 DEF Sound
<1> QED BY <1>1, <1>2

LEMMA ToSchedulerSound ==
  ASSUME NEW p, Sound(p), schedSize \in Nat, NEW ready, NEW q, q = ToScheduler(p, ready), Shape(q)
  PROVE  /\ Sound(q) /\ Calm(p, q) /\ q.fromDram = p.fromDram
         /\ Len(p.mrqq) <= 1 =>
              Len(q.mrqq) <= 1 \/ (Len(q.mrqq) = 2 /\ Len(q.pending) < schedSize)
<1>1. CASE q = p
  BY <1>1 DEF Calm
<1>2. CASE q # p
  <2>1. /\ p.latency \in Seq(Requests) /\ p.latency # <<>> /\ p.mrqq \in Seq(Requests)
        /\ DOMAIN p = Fields /\ ~Full(p)
    BY <1>2 DEF Sound, Typed, Shape, ToScheduler
  <2>2. PICK m, u, v : m = Head(p.latency) /\ u = Append(p.mrqq, m) /\ v = Tail(p.latency)
    OBVIOUS
  <2>3. m \in Requests
    BY <2>1, <2>2
  <2>4. /\ ToSet(p.latency) \subseteq ToSet(v) \cup {m}
        /\ Len(v) = Len(p.latency) - 1
    <3>1. Drops(p.latency, v, 1) /\ v \in Seq(Requests)
      BY <2>1, <2>2, TailDrops
    <3>2. 1 \in 1 .. Len(p.latency) /\ p.latency[1] = m
      BY <2>1, <2>2
    <3> QED BY <3>1, <3>2, <2>1, DropElements
  <2>5. /\ Len(u) = Len(p.mrqq) + 1 /\ Len(p.mrqq) \in Nat
        /\ ToSet(p.mrqq) \cup {m} \subseteq ToSet(u)
    <3>1. Len(u) = Len(p.mrqq) + 1 /\ Len(p.mrqq) \in Nat
      BY <2>1, <2>2
    <3> QED BY <3>1, <2>1, <2>2, <2>3, AppendElements
  <2>6. /\ DOMAIN q = Fields /\ q.rwq = p.rwq /\ q.latency = v /\ q.mrqq = u
        /\ q.pending = p.pending /\ q.bank = p.bank /\ q.returnq = p.returnq
        /\ q.open = p.open /\ Moves(p, q)
    <3>1. q = [p EXCEPT !.mrqq = u, !.latency = v]
      BY <1>2, <2>2 DEF ToScheduler
    <3> QED BY <3>1, <2>1 DEF Fields, Moves
  <2>7. InFlight(p) \subseteq InFlight(q)
    <3> SUFFICES ASSUME NEW z \in InFlight(p) PROVE z \in InFlight(q)
      OBVIOUS
    <3>1. \/ z \in ToSet(p.latency) \/ z \in ToSet(p.mrqq) \/ z \in ToSet(p.pending)
          \/ z \in ToSet(p.rwq) \/ z \in ToSet(p.returnq)
          \/ \E bk \in Banks : z \in ToSet(p.bank[bk])
      BY InFlightCases
    <3>2. \/ z \in ToSet(q.latency) \/ z \in ToSet(q.mrqq) \/ z \in ToSet(q.pending)
          \/ z \in ToSet(q.rwq) \/ z \in ToSet(q.returnq)
          \/ \E bk \in Banks : z \in ToSet(q.bank[bk])
      BY <3>1, <2>4, <2>5, <2>6
    <3> QED BY <3>2, InFlightCases
  <2>8. InFlightCount(q) = InFlightCount(p)
    <3>1. PICK a \in Nat, b \in Nat, c \in Nat, d \in Nat, e \in Nat, n \in Nat :
            Parts(p, a, b, c, d, e, n)
      BY CountParts DEF Sound
    <3>2. PICK f, g : f = a - 1 /\ g = b + 1
      OBVIOUS
    <3>3. Busy(q) = Busy(p)
      BY <2>6 DEF Busy
    <3>4. Parts(q, f, g, c, d, e, n)
      BY <3>1, <3>2, <3>3, <2>4, <2>5, <2>6 DEF Parts
    <3>5. InFlightCount(p) = a + b + c + d + e + n
      BY <3>1, SumOfParts
    <3>6. InFlightCount(q) = f + g + c + d + e + n
      BY <3>4, SumOfParts
    <3> QED BY <3>2, <3>5, <3>6
  <2>9. /\ q.returnq \in Seq(Requests) /\ Len(q.returnq) <= ReturnSize
        /\ q.open \in [Banks -> Rows]
    BY <2>6 DEF Sound, Typed, Sized
  <2>10. Sound(q) /\ Calm(p, q)
    BY <2>6, <2>7, <2>8, <2>9, Carries
  <2>11. ASSUME Len(p.mrqq) <= 1
         PROVE  Len(q.mrqq) <= 1 \/ (Len(q.mrqq) = 2 /\ Len(q.pending) < schedSize)
    <3>1. p.pending \in Seq(Requests)
      BY DEF Sound, Typed, Shape
    <3>2. Len(p.pending) \in Nat
      BY <3>1
    <3>3. Len(q.pending) < schedSize
      BY <3>2, <2>1, <2>6 DEF Full
    <3>4. PICK k \in Nat : k = Len(p.mrqq)
      BY <2>5
    <3>5. Len(q.mrqq) = k + 1
      BY <3>4, <2>5, <2>6
    <3> QED BY <3>3, <3>4, <3>5, <2>11
  <2> QED BY <2>6, <2>10, <2>11 DEF Moves
<1> QED BY <1>1, <1>2

\* mrqq holds a second request only if the scheduler has room for the first.
Passing(p) == Len(p.mrqq) <= 1 \/ (Len(p.mrqq) = 2 /\ Len(p.pending) < schedSize)

CreditInv ==
  PartInv /\ Sound(mp) /\ Passing(mp) /\ taken \subseteq Requests

LEMMA StagesSound ==
  ASSUME Sound(mp), Passing(mp), schedSize \in Nat, NEW done, NEW column, NEW ready,
         Staged(done, column, ready), NEW next, next = mp'
  PROVE  /\ Sound(next) /\ Passing(next)
         /\ \A s \in Subs :
              s # mp.last /\ CanIssue(mp, s)
                => \/ Len(next.fromDram[s]) = QueueSize
                   \/ next.toDram[mp.last] = mp.toDram[mp.last]
<1>1. PICK f, a, c, h, i, z :
        /\ f = Finish(Return(mp), done) /\ a = AddRequests(f) /\ h = Schedule(a, c)
        /\ i = IssueColumn(h, column) /\ z = Arbitrate(i) /\ next = ToScheduler(z, ready)
        /\ Shape(a) /\ Shape(h) /\ Shape(i) /\ Shape(z) /\ Shape(next)
  BY DEF Staged
<1>2. PICK r : r = Return(mp)
  OBVIOUS
<1>3. Sound(r) /\ Calm(mp, r) /\ Alike(mp, r)
  BY <1>2, ReturnSound
<1>4. r.mrqq = mp.mrqq /\ r.pending = mp.pending
  BY <1>3 DEF Alike
<1>5. /\ Sound(f) /\ Calm(r, f) /\ f.fromDram = r.fromDram
      /\ f.mrqq = r.mrqq /\ f.pending = r.pending
  BY <1>1, <1>2, <1>3, FinishSound
<1>6. Passing(f)
  BY <1>4, <1>5 DEF Passing
<1>7. Sound(a) /\ Calm(f, a) /\ a.fromDram = f.fromDram /\ Len(a.mrqq) <= 1
  BY <1>1, <1>5, <1>6, AddSound DEF Passing
<1>8. Sound(h) /\ Calm(a, h) /\ h.fromDram = a.fromDram /\ h.mrqq = a.mrqq
  BY <1>1, <1>7, ScheduleSound
<1>9. /\ Sound(i) /\ Calm(h, i) /\ i.fromDram = h.fromDram
      /\ i.mrqq = h.mrqq /\ i.pending = h.pending
  BY <1>1, <1>8, ColumnSound
<1>10. /\ Sound(z) /\ z.fromDram = i.fromDram /\ z.mrqq = i.mrqq /\ z.pending = i.pending
       /\ \A s \in Subs : s # i.last /\ CanIssue(i, s) => z.toDram[i.last] = i.toDram[i.last]
  BY <1>1, <1>9, ArbitrateSound
<1>11. Len(z.mrqq) <= 1
  BY <1>7, <1>8, <1>9, <1>10
<1>12. /\ Sound(next) /\ Calm(z, next) /\ next.fromDram = z.fromDram /\ Passing(next)
  BY <1>1, <1>10, <1>11, ToSchedulerSound DEF Passing
<1>13. Calm(mp, i)
  BY <1>3, <1>5, <1>7, <1>8, <1>9 DEF Calm
<1>14. next.fromDram = i.fromDram
  BY <1>10, <1>12
<1>15. ASSUME NEW s \in Subs, s # mp.last, CanIssue(mp, s), Len(next.fromDram[s]) # QueueSize
       PROVE  next.toDram[mp.last] = mp.toDram[mp.last]
  <2>1. i.last = mp.last /\ i.toDram = mp.toDram /\ HasCredits(i, s)
    BY <1>13, <1>15 DEF Calm, CanIssue
  <2>2. Len(i.fromDram[s]) < QueueSize
    <3>1. i.fromDram \in [Subs -> Seq(Requests)] /\ Len(i.fromDram[s]) <= QueueSize
      BY <1>9 DEF Sound, Typed, Sized
    <3>2. i.fromDram[s] \in Seq(Requests)
      BY <3>1
    <3>3. Len(i.fromDram[s]) \in Nat /\ QueueSize \in Nat
      BY <3>2, PartitionAssumption
    <3> QED BY <3>1, <3>3, <1>14, <1>15
  <2>3. CanIssue(i, s)
    BY <2>1, <2>2, <1>15 DEF CanIssue
  <2>4. z.toDram[i.last] = i.toDram[i.last]
    BY <2>1, <2>3, <1>10, <1>15
  <2>5. next.toDram = z.toDram
    BY <1>12 DEF Calm
  <2> QED BY <2>1, <2>4, <2>5
<1> QED BY <1>12, <1>15

\* A new request is not in flight yet, and one taken no longer.
LEMMA QueueSound ==
  ASSUME NEW p, Sound(p), Passing(p), NEW q, Shape(q),
         q.private = p.private, q.shared = p.shared, q.returnq = p.returnq,
         q.rwq = p.rwq, q.latency = p.latency, q.mrqq = p.mrqq, q.pending = p.pending,
         q.bank = p.bank, q.open = p.open,
         q.fromDram \in [Subs -> Seq(Requests)],
         \A s \in Subs : Len(q.fromDram[s]) <= QueueSize
  PROVE  Sound(q) /\ Passing(q)
<1>1. Typed(q)
  BY DEF Sound, Typed
<1>2. Sized(q)
  BY DEF Sound, Sized
<1>3. Busy(q) = Busy(p)
  BY DEF Busy
<1>4. InFlight(q) = InFlight(p)
  BY DEF InFlight
<1>5. InFlightCount(q) = InFlightCount(p)
  BY <1>3 DEF InFlightCount
<1>6. Balanced(q)
  <2>1. Balanced(p)
    BY DEF Sound
  <2> QED BY <2>1, <1>4, <1>5, MovedOn
<1>7. Passing(q)
  BY DEF Passing
<1> QED BY <1>1, <1>2, <1>6, <1>7 DEF Sound

\* What holds of a partition holds after the step that leaves it.
LEMMA SoundAfter ==
  ASSUME NEW q, q = mp', schedSize' = schedSize, Sound(q), Passing(q)
  PROVE  Sound(mp)' /\ Passing(mp)'
<1>1. Shape(mp)'
  <2>1. Shape(q)
    BY DEF Sound, Typed
  <2> QED BY <2>1 DEF Shape
<1>2. Typed(mp)'
  <2>1. Typed(q)
    BY DEF Sound
  <2> QED BY <2>1, <1>1 DEF Typed
<1>3. Sized(mp)'
  BY DEF Sound, Sized
<1>4. SharedLimit' = SharedLimit
  BY DEF SharedLimit
<1>5. Borrowers(mp)' = Borrowers(q) /\ Busy(mp)' = Busy(q)
  BY DEF Borrowers, Busy
<1>6. InFlight(mp)' = InFlight(q)
  BY DEF InFlight
<1>7. InFlightCount(mp)' = InFlightCount(q)
  BY <1>5 DEF InFlightCount
<1>8. Balanced(mp)'
  <2>1. Balanced(q)
    BY DEF Sound
  <2> QED BY <2>1, <1>4, <1>5, <1>6, <1>7 DEF Balanced
<1>9. Passing(mp)'
  BY DEF Passing
<1> QED BY <1>2, <1>3, <1>8, <1>9 DEF Sound

LEMMA SendCredit ==
  ASSUME CreditInv, Send PROVE CreditInv'
<1>1. PICK u : mp' = [mp EXCEPT !.toDram = u] /\ UNCHANGED <<schedSize, taken>>
  BY DEF Send
<1>2. PartInv'
  BY SendInv DEF CreditInv
<1>3. PICK q : q = mp'
  OBVIOUS
<1>4. Sound(mp) /\ Passing(mp) /\ DOMAIN mp = Fields
  BY DEF CreditInv, Sound, Typed, Shape
<1>5. /\ q.private = mp.private /\ q.shared = mp.shared /\ q.returnq = mp.returnq
      /\ q.rwq = mp.rwq /\ q.latency = mp.latency /\ q.mrqq = mp.mrqq
      /\ q.pending = mp.pending /\ q.bank = mp.bank /\ q.open = mp.open
      /\ q.fromDram = mp.fromDram
  BY <1>1, <1>3, <1>4 DEF Fields
<1>6. Shape(mp)'
  BY <1>2 DEF PartInv, Good
<1>7. Shape(q)
  BY <1>1, <1>3, <1>6 DEF Shape
<1>8. /\ q.fromDram \in [Subs -> Seq(Requests)]
      /\ \A s \in Subs : Len(q.fromDram[s]) <= QueueSize
  BY <1>4, <1>5 DEF Sound, Typed, Sized
<1>9. Sound(q) /\ Passing(q)
  BY <1>4, <1>5, <1>7, <1>8, QueueSound
<1>10. Sound(mp)' /\ Passing(mp)'
  BY <1>1, <1>3, <1>9, SoundAfter
<1> QED BY <1>1, <1>2, <1>10 DEF CreditInv

LEMMA TakeCredit ==
  ASSUME CreditInv, NEW s \in Subs, Take(s) PROVE CreditInv'
<1>1. PICK u : /\ u = [mp.fromDram EXCEPT ![s] = Tail(@)]
               /\ mp' = [mp EXCEPT !.fromDram = u] /\ UNCHANGED schedSize
  BY DEF Take
<1>2. PartInv'
  BY TakeInv DEF CreditInv
<1>3. PICK q : q = mp'
  OBVIOUS
<1>4. Sound(mp) /\ Passing(mp) /\ DOMAIN mp = Fields
  BY DEF CreditInv, Sound, Typed, Shape
<1>5. /\ q.private = mp.private /\ q.shared = mp.shared /\ q.returnq = mp.returnq
      /\ q.rwq = mp.rwq /\ q.latency = mp.latency /\ q.mrqq = mp.mrqq
      /\ q.pending = mp.pending /\ q.bank = mp.bank /\ q.open = mp.open
      /\ q.fromDram = u
  BY <1>1, <1>3, <1>4 DEF Fields
<1>6. Shape(mp)'
  BY <1>2 DEF PartInv, Good
<1>7. Shape(q)
  BY <1>1, <1>3, <1>6 DEF Shape
<1>8. /\ mp.fromDram \in [Subs -> Seq(Requests)] /\ mp.fromDram[s] # <<>>
      /\ \A t \in Subs : Len(mp.fromDram[t]) <= QueueSize
  BY <1>4 DEF Sound, Typed, Sized, Take
<1>9. mp.fromDram[s] \in Seq(Requests) /\ QueueSize \in Nat
  BY <1>8, PartitionAssumption
<1>10. /\ Tail(mp.fromDram[s]) \in Seq(Requests) /\ Head(mp.fromDram[s]) \in Requests
       /\ Len(Tail(mp.fromDram[s])) = Len(mp.fromDram[s]) - 1 /\ Len(mp.fromDram[s]) \in Nat
  BY <1>8, <1>9
<1>11. u \in [Subs -> Seq(Requests)] /\ \A t \in Subs : Len(u[t]) <= QueueSize
  <2>1. /\ u \in [Subs -> Seq(Requests)] /\ u[s] = Tail(mp.fromDram[s])
        /\ \A t \in Subs : t # s => u[t] = mp.fromDram[t]
    BY <1>1, <1>8, <1>10
  <2>2. Len(u[s]) <= QueueSize
    <3>1. Len(mp.fromDram[s]) <= QueueSize
      BY <1>8
    <3> QED BY <3>1, <2>1, <1>9, <1>10
  <2> QED BY <2>1, <2>2, <1>8
<1>12. Sound(q) /\ Passing(q)
  BY <1>4, <1>5, <1>7, <1>11, QueueSound
<1>13. Sound(mp)' /\ Passing(mp)'
  BY <1>1, <1>3, <1>12, SoundAfter
<1>14. taken' \subseteq Requests
  BY <1>10 DEF CreditInv, Take
<1> QED BY <1>2, <1>13, <1>14 DEF CreditInv

LEMMA ImageBound ==
  ASSUME NEW S, IsFiniteSet(S), NEW f, DOMAIN f = S, f = [x \in S |-> f[x]],
         NEW T, T = {f[x] : x \in S}
  PROVE  IsFiniteSet(T) /\ Cardinality(T) <= Cardinality(S) /\ Cardinality(T) \in Nat
<1>1. f \in Surjection(S, T)
  BY DEF Surjection
<1>2. IsFiniteSet(T) /\ Cardinality(T) <= Cardinality(S)
  BY <1>1, FS_Surjection
<1> QED BY <1>2, FS_CardinalityType

LEMMA UnionBound ==
  ASSUME NEW S, NEW T, IsFiniteSet(S), IsFiniteSet(T), NEW m \in Nat, NEW n \in Nat,
         Cardinality(S) <= m, Cardinality(T) <= n
  PROVE  IsFiniteSet(S \cup T) /\ Cardinality(S \cup T) <= m + n
<1>1. IsFiniteSet(S \cap T)
  BY FS_Intersection
<1>2. Cardinality(S) \in Nat /\ Cardinality(T) \in Nat /\ Cardinality(S \cap T) \in Nat
  BY <1>1, FS_CardinalityType
<1>3. Cardinality(S \cup T) = Cardinality(S) + Cardinality(T) - Cardinality(S \cap T)
  BY FS_Union
<1>4. IsFiniteSet(S \cup T)
  BY FS_Union
<1> QED BY <1>2, <1>3, <1>4

\* The sub-partitions of the requests of a queue are at most as many as these.
LEMMA QueueBound ==
  ASSUME NEW q \in Seq(Requests), NEW n, n = Len(q), NEW T, T = {SubOf(m) : m \in ToSet(q)}
  PROVE  IsFiniteSet(T) /\ Cardinality(T) <= n
<1>1. n \in Nat /\ DOMAIN q = 1 .. n
  OBVIOUS
<1>2. PICK f : f = [i \in 1 .. n |-> SubOf(q[i])]
  OBVIOUS
<1>3. T = {f[i] : i \in 1 .. n}
  BY <1>1, <1>2 DEF ToSet
<1>4. IsFiniteSet(1 .. n) /\ Cardinality(1 .. n) = n
  <2>1. 1 \in Int /\ n \in Int
    BY <1>1
  <2>2. Cardinality(1 .. n) = IF 1 > n THEN 0 ELSE n - 1 + 1
    BY <2>1, FS_Interval
  <2>3. IsFiniteSet(1 .. n)
    BY <2>1, FS_Interval
  <2> QED BY <2>2, <2>3, <1>1
<1>5. DOMAIN f = 1 .. n /\ f = [i \in 1 .. n |-> f[i]]
  BY <1>2
<1>6. f \in Surjection(1 .. n, T)
  BY <1>3, <1>5 DEF Surjection
<1>7. IsFiniteSet(T) /\ Cardinality(T) <= Cardinality(1 .. n)
  BY <1>4, <1>6, FS_Surjection
<1> QED BY <1>4, <1>7

LEMMA BankBound ==
  ASSUME NEW p, Shape(p), NEW T, T = {SubOf(p.bank[b][1]) : b \in Busy(p)}
  PROVE  IsFiniteSet(T) /\ Cardinality(T) <= Cardinality(Busy(p))
<1>1. PICK S : S = Busy(p)
  OBVIOUS
<1>2. PICK f : f = [b \in S |-> SubOf(p.bank[b][1])]
  OBVIOUS
<1>3. DOMAIN f = S /\ f = [b \in S |-> f[b]] /\ T = {f[b] : b \in S}
  BY <1>1, <1>2
<1>4. IsFiniteSet(S)
  BY <1>1, BusyFinite
<1> QED BY <1>1, <1>3, <1>4, ImageBound

\* No more private credits are borrowed than requests are in flight.
LEMMA BorrowersBound ==
  ASSUME NEW p, Sound(p)
  PROVE  Cardinality(Borrowers(p)) <= InFlightCount(p)
<1>1. /\ p.latency \in Seq(Requests) /\ p.mrqq \in Seq(Requests) /\ p.pending \in Seq(Requests)
      /\ p.rwq \in Seq(Requests) /\ p.returnq \in Seq(Requests) /\ Shape(p)
  BY DEF Sound, Typed, Shape
<1>2. PICK a \in Nat, b \in Nat, c \in Nat, d \in Nat, e \in Nat, n \in Nat :
        Parts(p, a, b, c, d, e, n)
  BY CountParts DEF Sound
<1>3. /\ a = Len(p.latency) /\ b = Len(p.mrqq) /\ c = Len(p.pending)
      /\ d = Len(p.rwq) /\ e = Len(p.returnq) /\ n = Cardinality(Busy(p))
  BY <1>2 DEF Parts
<1>4. PICK A, B, C, D, E, N :
        /\ A = {SubOf(m) : m \in ToSet(p.latency)} /\ B = {SubOf(m) : m \in ToSet(p.mrqq)}
        /\ C = {SubOf(m) : m \in ToSet(p.pending)} /\ D = {SubOf(m) : m \in ToSet(p.rwq)}
        /\ E = {SubOf(m) : m \in ToSet(p.returnq)}
        /\ N = {SubOf(p.bank[k][1]) : k \in Busy(p)}
  OBVIOUS
<1>5. IsFiniteSet(A) /\ Cardinality(A) <= a
  BY <1>1, <1>3, <1>4, QueueBound
<1>6. IsFiniteSet(B) /\ Cardinality(B) <= b
  BY <1>1, <1>3, <1>4, QueueBound
<1>7. IsFiniteSet(C) /\ Cardinality(C) <= c
  BY <1>1, <1>3, <1>4, QueueBound
<1>8. IsFiniteSet(D) /\ Cardinality(D) <= d
  BY <1>1, <1>3, <1>4, QueueBound
<1>9. IsFiniteSet(E) /\ Cardinality(E) <= e
  BY <1>1, <1>3, <1>4, QueueBound
<1>10. IsFiniteSet(N) /\ Cardinality(N) <= n
  BY <1>1, <1>3, <1>4, BankBound
<1>11. IsFiniteSet(A \cup B) /\ Cardinality(A \cup B) <= a + b
  BY <1>5, <1>6, UnionBound
<1>12. IsFiniteSet(C \cup D) /\ Cardinality(C \cup D) <= c + d
  BY <1>7, <1>8, UnionBound
<1>13. IsFiniteSet(E \cup N) /\ Cardinality(E \cup N) <= e + n
  BY <1>9, <1>10, UnionBound
<1>14. PICK f \in Nat, g \in Nat, h \in Nat : f = a + b /\ g = c + d /\ h = e + n
  OBVIOUS
<1>15. PICK X, Y, Z : X = A \cup B /\ Y = C \cup D /\ Z = E \cup N
  OBVIOUS
<1>16. IsFiniteSet(X \cup Y) /\ Cardinality(X \cup Y) <= f + g
  BY <1>11, <1>12, <1>14, <1>15, UnionBound
<1>17. PICK W : W = X \cup Y
  OBVIOUS
<1>18. PICK k \in Nat : k = f + g
  OBVIOUS
<1>19. IsFiniteSet(W \cup Z) /\ Cardinality(W \cup Z) <= k + h
  BY <1>13, <1>14, <1>15, <1>16, <1>17, <1>18, UnionBound
<1>20. Borrowers(p) \in SUBSET (W \cup Z)
  <2> SUFFICES ASSUME NEW s \in Borrowers(p) PROVE s \in W \cup Z
    OBVIOUS
  <2>1. PICK m \in InFlight(p) : SubOf(m) = s
    BY DEF Sound, Balanced
  <2>2. \/ m \in ToSet(p.latency) \/ m \in ToSet(p.mrqq) \/ m \in ToSet(p.pending)
        \/ m \in ToSet(p.rwq) \/ m \in ToSet(p.returnq)
        \/ \E bk \in Banks : m \in ToSet(p.bank[bk])
    BY <2>1, InFlightCases
  <2>3. ASSUME NEW bk \in Banks, m \in ToSet(p.bank[bk]) PROVE s \in N
    <3>1. p.bank[bk] # <<>>
      <4>1. ToSet(<<>>) = {}
        BY DEF ToSet
      <4> QED BY <4>1, <2>3
    <3>2. PICK w \in Requests : p.bank[bk] = <<w>>
      BY <3>1, <1>1 DEF Shape
    <3>3. m = p.bank[bk][1]
      BY <3>2, <2>3 DEF ToSet
    <3>4. bk \in Busy(p)
      BY <3>1 DEF Busy
    <3> QED BY <3>3, <3>4, <2>1, <1>4
  <2>4. s \in A \/ s \in B \/ s \in C \/ s \in D \/ s \in E \/ s \in N
    BY <2>1, <2>2, <2>3, <1>4
  <2> QED BY <2>4, <1>15, <1>17
<1>21. Cardinality(Borrowers(p)) <= Cardinality(W \cup Z)
  BY <1>19, <1>20, FS_Subset
<1>22. InFlightCount(p) = a + b + c + d + e + n
  BY <1>2, SumOfParts
<1>23. Cardinality(Borrowers(p)) \in Nat /\ Cardinality(W \cup Z) \in Nat
  BY <1>19, BorrowersFinite, FS_CardinalityType
<1> QED BY <1>14, <1>17, <1>18, <1>19, <1>21, <1>22, <1>23

LEMMA InitCredit ==
  ASSUME Init PROVE CreditInv
<1>1. PartInv
  BY InitInv
<1>2. Shape(mp)
  BY <1>1 DEF PartInv, Good
<1>3. /\ mp.latency = <<>> /\ mp.mrqq = <<>> /\ mp.pending = <<>> /\ mp.rwq = <<>>
      /\ mp.returnq = <<>> /\ mp.bank = [b \in Banks |-> <<>>]
      /\ mp.fromDram = [s \in Subs |-> <<>>] /\ mp.private = [s \in Subs |-> 0]
      /\ mp.shared = 0
  BY DEF Init
<1>4. <<>> \in Seq(Requests) /\ Len(<<>>) = 0 /\ {ReturnSize, QueueSize} \subseteq Nat
  BY PartitionAssumption
<1>5. mp.open \in [Banks -> Rows]
  BY DEF Init
<1>6. Typed(mp)
  BY <1>2, <1>3, <1>4, <1>5 DEF Typed
<1>7. Sized(mp)
  BY <1>3, <1>4 DEF Sized
<1>8. Borrowers(mp) = {} /\ Busy(mp) = {}
  BY <1>3 DEF Borrowers, Busy
<1>9. Cardinality({}) = 0
  BY FS_EmptySet
<1>10. InFlightCount(mp) = 0
  <2>1. InFlightCount(mp) = 0 + 0 + 0 + 0 + 0 + 0
    BY <1>3, <1>4, <1>8, <1>9 DEF InFlightCount
  <2> QED BY <2>1
<1>11. SharedLimit \in Int /\ 0 <= SharedLimit
  <2>1. schedSize \in SchedSizes
    BY DEF Init
  <2>2. schedSize \in Nat /\ schedSize + ReturnSize >= SubCount - 1
    BY <2>1, PartitionAssumption
  <2>3. SubCount \in Nat
    BY PartitionAssumption
  <2> QED BY <2>2, <2>3, <1>4 DEF SharedLimit
<1>12. Balanced(mp)
  <2>1. SharedLimit # 0 => mp.shared <= SharedLimit
    BY <1>3, <1>11
  <2>2. mp.shared + Cardinality(Borrowers(mp)) = InFlightCount(mp)
    BY <1>3, <1>8, <1>9, <1>10
  <2> QED BY <2>1, <2>2, <1>8 DEF Balanced
<1>13. Passing(mp)
  BY <1>3, <1>4 DEF Passing
<1>14. taken \subseteq Requests
  BY DEF Init
<1> QED BY <1>1, <1>6, <1>7, <1>12, <1>13, <1>14 DEF CreditInv, Sound

LEMMA CreditFacts ==
  ASSUME CreditInv PROVE Sound(mp) /\ Passing(mp) /\ PartInv /\ schedSize \in Nat
<1>1. schedSize \in SchedSizes
  BY DEF CreditInv, PartInv
<1>2. SchedSizes \subseteq Nat
  BY PartitionAssumption
<1> QED BY <1>1, <1>2 DEF CreditInv

\* The turns of a cycle.
LEMMA CycleTurns ==
  ASSUME CreditInv, NEW done \in BOOLEAN, NEW column, NEW ready \in BOOLEAN,
         Cycle(done, column, ready)
  PROVE  /\ CreditInv'
         /\ \A s \in Subs :
              s # mp.last /\ CanIssue(mp, s)
                => \/ Len(mp'.fromDram[s]) = QueueSize
                   \/ mp'.toDram[mp.last] = mp.toDram[mp.last]
<1>1. Sound(mp) /\ Passing(mp) /\ PartInv /\ schedSize \in Nat
  BY CreditFacts
<1>2. PartInv' /\ Staged(done, column, ready)
  BY <1>1, CycleInv
<1>3. PICK next : next = mp'
  OBVIOUS
<1>4. /\ Sound(next) /\ Passing(next)
      /\ \A s \in Subs :
           s # mp.last /\ CanIssue(mp, s)
             => \/ Len(next.fromDram[s]) = QueueSize
                \/ next.toDram[mp.last] = mp.toDram[mp.last]
  BY <1>1, <1>2, <1>3, StagesSound
<1>5. schedSize' = schedSize /\ taken' = taken
  BY <1>2 DEF Staged
<1>6. Sound(mp)' /\ Passing(mp)'
  BY <1>3, <1>4, <1>5, SoundAfter
<1>7. CreditInv'
  BY <1>2, <1>5, <1>6 DEF CreditInv
<1> QED BY <1>3, <1>4, <1>7

\* Every step keeps the credits.
LEMMA CreditStep ==
  ASSUME CreditInv, [Next]_vars PROVE CreditInv'
<1>1. CASE Send
  BY <1>1, SendCredit
<1>2. CASE \E s \in Subs : Take(s)
  BY <1>2, TakeCredit
<1>3. CASE DramCycle
  BY <1>3, CycleTurns DEF DramCycle
<1>4. CASE UNCHANGED vars
  <2>1. PartInv'
    BY <1>4 DEF vars, CreditInv, PartInv, Good, Shape, Line
  <2>2. PICK q : q = mp
    OBVIOUS
  <2>3. Sound(mp)' /\ Passing(mp)'
    BY <2>2, <1>4, CreditFacts, SoundAfter DEF vars
  <2> QED BY <2>1, <2>3, <1>4 DEF CreditInv, vars
<1> QED BY <1>1, <1>2, <1>3, <1>4 DEF Next

\* The credits, queues and requests agree between any two calls of dram_cycle().
THEOREM CreditInductive == Spec => []CreditInv
<1>1. Init => CreditInv
  BY InitCredit
<1>2. CreditInv /\ [Next]_vars => CreditInv'
  BY CreditStep
<1> QED BY <1>1, <1>2, PTL DEF Spec

\* return_credit() never finds a credit missing ("Returning more than available
\* credits!", l2cache.cc:142), no credit is lost, the shared limit holds, and
\* the queues that dram_t::push() and dram_t::cycle() fill unasked stay within
\* their sizes.
THEOREM CreditsCorrect == Spec => []CreditsMatchInFlight
<1>1. CreditInv => CreditsMatchInFlight
  <2> SUFFICES ASSUME CreditInv PROVE CreditsMatchInFlight
    OBVIOUS
  <2>1. Sound(mp) /\ Passing(mp) /\ PartInv /\ schedSize \in Nat /\ taken \subseteq Requests
    BY CreditFacts DEF CreditInv
  <2>2. Shape(mp) /\ Typed(mp) /\ Sized(mp) /\ Balanced(mp)
    BY <2>1 DEF Sound, Typed
  <2>3. mp.shared \in Nat
    <3>1. mp.shared + Cardinality(Borrowers(mp)) = InFlightCount(mp) /\ mp.shared \in Int
      BY <2>2 DEF Balanced, Typed
    <3>2. Cardinality(Borrowers(mp)) <= InFlightCount(mp)
      BY <2>1, BorrowersBound
    <3>3. Cardinality(Borrowers(mp)) \in Nat /\ InFlightCount(mp) \in Nat
      BY <2>2, BorrowersFinite, CountType
    <3> QED BY <3>1, <3>2, <3>3
  <2>4. \A b \in Banks : mp.bank[b] \in Seq(Requests) /\ Len(mp.bank[b]) <= 1
    <3> SUFFICES ASSUME NEW b \in Banks
                 PROVE  mp.bank[b] \in Seq(Requests) /\ Len(mp.bank[b]) <= 1
      OBVIOUS
    <3>1. mp.bank[b] = <<>> \/ \E m \in Requests : mp.bank[b] = <<m>>
      BY <2>2 DEF Shape
    <3>2. CASE mp.bank[b] = <<>>
      BY <3>2
    <3>3. ASSUME NEW m \in Requests, mp.bank[b] = <<m>>
          PROVE  mp.bank[b] \in Seq(Requests) /\ Len(mp.bank[b]) <= 1
      <4>1. <<m>> \in Seq(Requests) /\ Len(<<m>>) = 1
        OBVIOUS
      <4> QED BY <4>1, <3>3
    <3> QED BY <3>1, <3>2, <3>3
  <2>5. TypeOK
    <3>1. \A s \in Subs : mp.toDram[s] \in Seq(Requests) /\ mp.fromDram[s] \in Seq(Requests)
      BY <2>2 DEF Typed, Shape
    <3>2. {mp.latency, mp.mrqq, mp.pending, mp.rwq, mp.returnq} \subseteq Seq(Requests)
      BY <2>2 DEF Typed, Shape
    <3>3. \A b \in Banks : mp.bank[b] \in Seq(Requests) /\ mp.open[b] \in Rows
      BY <2>2, <2>4 DEF Typed
    <3>4. mp.private \in [Subs -> 0 .. 1] /\ mp.last \in Subs
      BY <2>2 DEF Typed, Shape
    <3>5. schedSize \in SchedSizes /\ served \in Seq(Requests)
      BY <2>1 DEF PartInv, Good
    <3>6. sent \in 0 .. MaxRequests
      <4>1. sent \in Nat /\ sent <= MaxRequests
        BY <2>1 DEF PartInv
      <4>2. MaxRequests \in Nat
        BY PartitionAssumption
      <4> QED BY <4>1, <4>2
    <3> QED BY <3>1, <3>2, <3>3, <3>4, <3>5, <3>6, <2>1, <2>3 DEF TypeOK
  <2>6. Len(mp.pending) <= schedSize /\ Len(mp.mrqq) <= 2
    <3>1. mp.mrqq \in Seq(Requests) /\ Len(mp.pending) <= schedSize
      BY <2>2 DEF Shape
    <3>2. PICK k \in Nat : k = Len(mp.mrqq)
      BY <3>1
    <3>3. k <= 1 \/ k = 2
      BY <3>2, <2>1 DEF Passing
    <3>4. k <= 2
      BY <3>3
    <3> QED BY <3>1, <3>2, <3>4
  <2>7. QueuesBounded
    BY <2>2, <2>4, <2>5, <2>6 DEF QueuesBounded, Sized
  <2> QED BY <2>2, <2>7 DEF CreditsMatchInFlight, Balanced
<1> QED BY <1>1, CreditInductive, PTL

\* dram_cycle() searches from the sub-partition after m_last_borrower: one that
\* can issue is not passed over for the last borrower.
THEOREM TurnsFair == Spec => TurnsTaken
<1> DEFINE Passed ==
      \A s, other \in Subs :
        /\ s # other /\ mp.last = other
        /\ \E n \in 1 .. Len(mp.toDram[other]) :
             mp'.toDram[other] = Tail(mp.toDram[other])
        => ~CanIssue(mp, s) \/ Len(mp'.fromDram[s]) = QueueSize
<1>1. CreditInv /\ [Next]_vars => [Passed]_vars
  <2> SUFFICES ASSUME CreditInv, [Next]_vars, NEW s \in Subs, NEW other \in Subs,
                      s # other, mp.last = other,
                      NEW n \in 1 .. Len(mp.toDram[other]),
                      mp'.toDram[other] = Tail(mp.toDram[other]),
                      CanIssue(mp, s)
               PROVE  Len(mp'.fromDram[s]) = QueueSize \/ UNCHANGED vars
    OBVIOUS
  <2>1. mp.toDram \in [Subs -> Seq(Requests)] /\ DOMAIN mp = Fields
    BY DEF CreditInv, PartInv, Good, Shape
  <2>2. mp'.toDram[other] # mp.toDram[other]
    <3>1. PICK q \in Seq(Requests) : q = mp.toDram[other]
      BY <2>1
    <3>2. Len(q) \in Nat /\ 1 <= Len(q) /\ Len(Tail(q)) = Len(q) - 1
      BY <3>1
    <3>3. Tail(q) # q
      <4>1. Len(Tail(q)) # Len(q)
        BY <3>2
      <4> QED BY <4>1
    <3> QED BY <3>1, <3>3
  <2>3. CASE Send
    <3>1. PICK m \in [bank : Banks, row : Rows, kind : {"reply", "wrbk"}, id : {sent + 1}] :
            mp' = [mp EXCEPT !.toDram[SubOf(m)] = Append(@, m)]
      BY <2>3 DEF Send
    <3>2. PICK u : u = [mp.toDram EXCEPT ![SubOf(m)] = Append(@, m)]
      OBVIOUS
    <3>3. mp'.toDram = u
      BY <3>1, <3>2, <2>1 DEF Fields
    <3>4. u[other] = mp.toDram[other] \/ u[other] = Append(mp.toDram[other], m)
      BY <3>2, <2>1
    <3>5. CASE u[other] = Append(mp.toDram[other], m)
      <4>1. PICK q \in Seq(Requests) : q = mp.toDram[other]
        BY <2>1
      <4>2. Len(q) \in Nat /\ 1 <= Len(q) /\ Len(Tail(q)) = Len(q) - 1
            /\ Len(Append(q, m)) = Len(q) + 1
        BY <4>1
      <4>3. Tail(q) # Append(q, m)
        <5>1. Len(Tail(q)) # Len(Append(q, m))
          BY <4>2
        <5> QED BY <5>1
      <4> QED BY <4>1, <4>3, <3>3, <3>5
    <3> QED BY <3>3, <3>4, <3>5, <2>2
  <2>4. CASE \E t \in Subs : Take(t)
    <3>1. PICK u : mp' = [mp EXCEPT !.fromDram = u]
      BY <2>4 DEF Take
    <3>2. mp'.toDram = mp.toDram
      BY <3>1, <2>1 DEF Fields
    <3> QED BY <3>2, <2>2
  <2>5. CASE DramCycle
    <3>1. PICK done \in BOOLEAN, ready \in BOOLEAN, column \in Banks \cup {-1} :
            Cycle(done, column, ready)
      BY <2>5 DEF DramCycle
    <3> QED BY <3>1, <2>2, CycleTurns
  <2> QED BY <2>3, <2>4, <2>5 DEF Next
<1>2. Spec => [][Passed]_vars
  BY <1>1, CreditInductive, PTL DEF Spec
<1> QED BY <1>2 DEF TurnsTaken
=============================================================================
