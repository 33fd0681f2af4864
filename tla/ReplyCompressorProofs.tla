------------------------- MODULE ReplyCompressorProofs -------------------------
(***************************************************************************)
(* The reply path of a sub-partition, for any number of clusters and       *)
(* replies, any pipeline depth and buffer sizes and all algorithms.  Every *)
(* action is a sequence of moves of one reply each; a move keeps every     *)
(* reply at one place, packets separable, and replies in order.            *)
(***************************************************************************)
EXTENDS ReplyCompressor, FiniteSetTheorems, WellFoundedInduction, TLAPS

Entry == Reply \cup {Control}

-----------------------------------------------------------------------------
(* Sequences.                                                              *)

LEMMA TailOf ==
  ASSUME NEW S, NEW q \in Seq(S), q # <<>>
  PROVE  /\ Tail(q) \in Seq(S) /\ Len(Tail(q)) = Len(q) - 1 /\ Len(q) >= 1
         /\ Head(q) = q[1] /\ q[1] \in S /\ DOMAIN Tail(q) = 1 .. (Len(q) - 1)
         /\ \A i \in 1 .. (Len(q) - 1) : Tail(q)[i] = q[i + 1]
         /\ Len(q) \in Nat /\ DOMAIN q = 1 .. Len(q)
OBVIOUS

LEMMA AppendOf ==
  ASSUME NEW S, NEW q \in Seq(S), NEW x \in S
  PROVE  /\ Append(q, x) \in Seq(S) /\ Len(Append(q, x)) = Len(q) + 1
         /\ Append(q, x)[Len(q) + 1] = x /\ Len(q) \in Nat
         /\ DOMAIN Append(q, x) = 1 .. (Len(q) + 1) /\ DOMAIN q = 1 .. Len(q)
         /\ \A i \in 1 .. Len(q) : Append(q, x)[i] = q[i]
OBVIOUS

-----------------------------------------------------------------------------
(* Containers: functions from places to what is there.                     *)

Has(q, r) == \E p \in DOMAIN q : q[p] = r

Single(q, r) == \A p, u \in DOMAIN q : q[p] = r /\ q[u] = r => p = u

\* Container v holds the replies of q but for x, which is no reply if nothing
\* is lost.
Loses(q, v, x) == \A r \in Reply :
  /\ Has(q, r) <=> r = x \/ Has(v, r)
  /\ Single(q, r) => Single(v, r) /\ (r = x => ~Has(v, r))

\* Container v holds x as well.
Gains(q, v, x) == \A r \in Reply :
  /\ Has(v, r) <=> r = x \/ Has(q, r)
  /\ Single(q, r) /\ (r = x => ~Has(q, r)) => Single(v, r)

\* Places are renamed by f, but for one that is new or left out.
LEMMA OneMore ==
  ASSUME NEW q, NEW v, NEW p, NEW x, p \notin DOMAIN q,
         DOMAIN v = DOMAIN q \cup {p}, v[p] = x, \A i \in DOMAIN q : v[i] = q[i]
  PROVE  Gains(q, v, x)
<1> SUFFICES ASSUME NEW r \in Reply
             PROVE  /\ Has(v, r) <=> r = x \/ Has(q, r)
                    /\ Single(q, r) /\ (r = x => ~Has(q, r)) => Single(v, r)
  BY DEF Gains
<1>1. Has(v, r) <=> r = x \/ Has(q, r)
  BY DEF Has
<1>2. ASSUME Single(q, r), r = x => ~Has(q, r) PROVE Single(v, r)
  <2> SUFFICES ASSUME NEW i \in DOMAIN v, NEW j \in DOMAIN v, v[i] = r, v[j] = r
               PROVE  i = j
    BY DEF Single
  <2>1. CASE i \in DOMAIN q /\ j \in DOMAIN q
    BY <1>2, <2>1 DEF Single
  <2>2. CASE i = p \/ j = p
    BY <1>2, <2>2 DEF Has
  <2> QED BY <2>1, <2>2
<1> QED BY <1>1, <1>2

\* The first place goes, and the others move up.
LEMMA FirstLess ==
  ASSUME NEW q, NEW v, NEW n \in Nat, n >= 1, DOMAIN q = 1 .. n,
         DOMAIN v = 1 .. (n - 1), \A i \in 1 .. (n - 1) : v[i] = q[i + 1],
         NEW x, x = q[1]
  PROVE  Loses(q, v, x)
<1> SUFFICES ASSUME NEW r \in Reply
             PROVE  /\ Has(q, r) <=> r = x \/ Has(v, r)
                    /\ Single(q, r) => Single(v, r) /\ (r = x => ~Has(v, r))
  BY DEF Loses
<1>1. ASSUME Has(q, r) PROVE r = x \/ Has(v, r)
  <2>1. PICK i \in 1 .. n : q[i] = r
    BY <1>1 DEF Has
  <2>2. CASE i # 1
    <3>1. i - 1 \in 1 .. (n - 1) /\ (i - 1) + 1 = i
      BY <2>2
    <3>2. v[i - 1] = r
      BY <2>1, <3>1
    <3> QED BY <3>1, <3>2 DEF Has
  <2> QED BY <2>1, <2>2
<1>2. ASSUME Has(v, r) PROVE \E i \in 1 .. n : i # 1 /\ q[i] = r
  <2>1. PICK i \in 1 .. (n - 1) : v[i] = r
    BY <1>2 DEF Has
  <2>2. i + 1 \in 1 .. n /\ i + 1 # 1 /\ q[i + 1] = r
    BY <2>1
  <2> QED BY <2>2
<1>3. 1 \in 1 .. n
  OBVIOUS
<1>4. r = x \/ Has(v, r) => Has(q, r)
  BY <1>2, <1>3 DEF Has
<1>5. ASSUME Single(q, r) PROVE Single(v, r) /\ (r = x => ~Has(v, r))
  <2>1. ASSUME NEW i \in 1 .. (n - 1), NEW j \in 1 .. (n - 1), v[i] = r, v[j] = r
        PROVE  i = j
    <3>1. i + 1 \in 1 .. n /\ j + 1 \in 1 .. n /\ q[i + 1] = r /\ q[j + 1] = r
      BY <2>1
    <3>2. i + 1 = j + 1
      BY <1>5, <3>1 DEF Single
    <3> QED BY <3>2
  <2>2. r = x => ~Has(v, r)
    BY <1>2, <1>3, <1>5 DEF Single
  <2> QED BY <2>1, <2>2 DEF Single
<1> QED BY <1>1, <1>4, <1>5

LEMMA TailLoses ==
  ASSUME NEW S, NEW q \in Seq(S), q # <<>>
  PROVE  Loses(q, Tail(q), Head(q))
<1>1. PICK v : v = Tail(q)
  OBVIOUS
<1>2. PICK n \in Nat : n = Len(q)
  OBVIOUS
<1>3. /\ n >= 1 /\ DOMAIN q = 1 .. n /\ DOMAIN v = 1 .. (n - 1) /\ Head(q) = q[1]
      /\ \A i \in 1 .. (n - 1) : v[i] = q[i + 1]
  BY <1>1, <1>2, TailOf
<1>4. Loses(q, v, Head(q))
  BY <1>3, FirstLess
<1> QED BY <1>1, <1>4

LEMMA AppendGains ==
  ASSUME NEW S, NEW q \in Seq(S), NEW x \in S
  PROVE  Gains(q, Append(q, x), x)
<1>1. PICK v : v = Append(q, x)
  OBVIOUS
<1>2. PICK n \in Nat : n = Len(q)
  OBVIOUS
<1>3. /\ v[n + 1] = x /\ DOMAIN v = 1 .. (n + 1) /\ DOMAIN q = 1 .. n
      /\ \A i \in 1 .. n : v[i] = q[i]
  BY <1>1, <1>2, AppendOf
<1>4. n + 1 \notin DOMAIN q /\ DOMAIN v = DOMAIN q \cup {n + 1}
  BY <1>3
<1>5. Gains(q, v, x)
  BY <1>3, <1>4, OneMore
<1> QED BY <1>1, <1>5

-----------------------------------------------------------------------------
(* Lists of merged replies as one container.                               *)

Lists == [Reply -> Seq(Reply)]

ListPlaces(f) == UNION {{h} \X DOMAIN f[h] : h \in Reply}

Merged(f) == [p \in ListPlaces(f) |-> f[p[1]][p[2]]]

LEMMA MergedAt ==
  ASSUME NEW f
  PROVE  /\ DOMAIN Merged(f) = ListPlaces(f)
         /\ \A h \in Reply : \A i \in DOMAIN f[h] :
              <<h, i>> \in ListPlaces(f) /\ Merged(f)[<<h, i>>] = f[h][i]
         /\ \A p \in ListPlaces(f) : \E h \in Reply : \E i \in DOMAIN f[h] :
              p = <<h, i>> /\ Merged(f)[p] = f[h][i]
BY DEF Merged, ListPlaces

LEMMA MergedHas ==
  ASSUME NEW f, NEW r
  PROVE  Has(Merged(f), r) <=> \E h \in Reply : Has(f[h], r)
<1>1. /\ DOMAIN Merged(f) = ListPlaces(f)
      /\ \A h \in Reply : \A i \in DOMAIN f[h] :
           <<h, i>> \in ListPlaces(f) /\ Merged(f)[<<h, i>>] = f[h][i]
      /\ \A p \in ListPlaces(f) : \E h \in Reply : \E i \in DOMAIN f[h] :
           p = <<h, i>> /\ Merged(f)[p] = f[h][i]
  BY MergedAt
<1>2. ASSUME Has(Merged(f), r) PROVE \E h \in Reply : Has(f[h], r)
  <2>1. PICK p \in ListPlaces(f) : Merged(f)[p] = r
    BY <1>1, <1>2 DEF Has
  <2> QED BY <1>1, <2>1 DEF Has
<1>3. ASSUME NEW h \in Reply, Has(f[h], r) PROVE Has(Merged(f), r)
  <2>1. PICK i \in DOMAIN f[h] : f[h][i] = r
    BY <1>3 DEF Has
  <2> QED BY <1>1, <2>1 DEF Has
<1> QED BY <1>2, <1>3

\* One reply is at one place in one list.
LEMMA MergedOnce ==
  ASSUME NEW f, NEW r, Single(Merged(f), r),
         NEW h \in Reply, NEW i \in DOMAIN f[h], f[h][i] = r,
         NEW g \in Reply, NEW j \in DOMAIN f[g], f[g][j] = r
  PROVE  h = g /\ i = j
<1>1. /\ <<h, i>> \in DOMAIN Merged(f) /\ Merged(f)[<<h, i>>] = r
      /\ <<g, j>> \in DOMAIN Merged(f) /\ Merged(f)[<<g, j>>] = r
  BY MergedAt
<1>2. <<h, i>> = <<g, j>>
  BY <1>1 DEF Single
<1> QED BY <1>2

\* One list gets x at its end.
Extends(f, g, h, x) ==
  /\ f \in Lists /\ g \in Lists /\ h \in Reply /\ x \in Reply
  /\ g[h] = Append(f[h], x)
  /\ \A k \in Reply : k # h => g[k] = f[k]

LEMMA ExtendsIs ==
  ASSUME NEW f \in Lists, NEW h \in Reply, NEW x \in Reply, NEW g,
         g = [f EXCEPT ![h] = Append(@, x)]
  PROVE  Extends(f, g, h, x)
<1>1. f[h] \in Seq(Reply)
  BY DEF Lists
<1>2. Append(f[h], x) \in Seq(Reply)
  BY <1>1, AppendOf
<1>3. g = [k \in Reply |-> IF k = h THEN Append(f[h], x) ELSE f[k]]
  BY DEF Lists
<1> QED BY <1>2, <1>3 DEF Extends, Lists

LEMMA MergedGains ==
  ASSUME NEW f, NEW g, NEW h, NEW x, Extends(f, g, h, x)
  PROVE  Gains(Merged(f), Merged(g), x)
<1>1. h \in Reply /\ x \in Reply /\ f[h] \in Seq(Reply)
  BY DEF Extends, Lists
<1>2. PICK n \in Nat : n = Len(f[h])
  BY <1>1
<1>3. PICK a : a = g[h]
  OBVIOUS
<1>4. /\ a[n + 1] = x /\ DOMAIN a = 1 .. (n + 1) /\ DOMAIN f[h] = 1 .. n
      /\ \A i \in 1 .. n : a[i] = f[h][i]
  BY <1>1, <1>2, <1>3, AppendOf DEF Extends
<1>5. PICK q : q = Merged(f)
  OBVIOUS
<1>6. PICK v : v = Merged(g)
  OBVIOUS
<1>7. /\ DOMAIN q = ListPlaces(f)
      /\ \A k \in Reply : \A i \in DOMAIN f[k] :
           <<k, i>> \in ListPlaces(f) /\ q[<<k, i>>] = f[k][i]
      /\ \A p \in ListPlaces(f) : \E k \in Reply : \E i \in DOMAIN f[k] :
           p = <<k, i>> /\ q[p] = f[k][i]
  BY <1>5, MergedAt
<1>8. /\ DOMAIN v = ListPlaces(g)
      /\ \A k \in Reply : \A i \in DOMAIN g[k] :
           <<k, i>> \in ListPlaces(g) /\ v[<<k, i>>] = g[k][i]
      /\ \A p \in ListPlaces(g) : \E k \in Reply : \E i \in DOMAIN g[k] :
           p = <<k, i>> /\ v[p] = g[k][i]
  BY <1>6, MergedAt
<1>9. <<h, n + 1>> \notin DOMAIN q
  <2> SUFFICES ASSUME <<h, n + 1>> \in DOMAIN q PROVE FALSE
    OBVIOUS
  <2>1. PICK k \in Reply : \E i \in DOMAIN f[k] : <<h, n + 1>> = <<k, i>>
    BY <1>7
  <2>2. n + 1 \in DOMAIN f[h]
    BY <2>1
  <2> QED BY <1>4, <2>2
<1>10. \A k \in Reply : k # h => g[k] = f[k]
  BY DEF Extends
<1>11. \A p \in DOMAIN q : p \in DOMAIN v /\ v[p] = q[p]
  <2> SUFFICES ASSUME NEW p \in DOMAIN q PROVE p \in DOMAIN v /\ v[p] = q[p]
    OBVIOUS
  <2>1. PICK k \in Reply : \E i \in DOMAIN f[k] : p = <<k, i>> /\ q[p] = f[k][i]
    BY <1>7
  <2>2. PICK i \in DOMAIN f[k] : p = <<k, i>> /\ q[p] = f[k][i]
    BY <2>1
  <2>3. i \in DOMAIN g[k] /\ g[k][i] = f[k][i]
    <3>1. CASE k = h
      BY <1>3, <1>4, <2>2, <3>1
    <3> QED BY <1>10, <3>1
  <2> QED BY <1>8, <2>2, <2>3
<1>12. \A p \in DOMAIN v : p \in DOMAIN q \/ p = <<h, n + 1>>
  <2> SUFFICES ASSUME NEW p \in DOMAIN v PROVE p \in DOMAIN q \/ p = <<h, n + 1>>
    OBVIOUS
  <2>1. PICK k \in Reply : \E i \in DOMAIN g[k] : p = <<k, i>>
    BY <1>8
  <2>2. PICK i \in DOMAIN g[k] : p = <<k, i>>
    BY <2>1
  <2>3. CASE k = h
    <3>1. i \in 1 .. (n + 1)
      BY <1>3, <1>4, <2>3
    <3>2. i \in 1 .. n \/ i = n + 1
      BY <3>1
    <3> QED BY <1>4, <1>7, <2>2, <2>3, <3>2
  <2>4. CASE k # h
    BY <1>7, <1>10, <2>2, <2>4
  <2> QED BY <2>3, <2>4
<1>13. <<h, n + 1>> \in DOMAIN v /\ v[<<h, n + 1>>] = x
  <2>1. n + 1 \in DOMAIN g[h] /\ g[h][n + 1] = x
    BY <1>3, <1>4
  <2> QED BY <1>1, <1>8, <2>1
<1>14. DOMAIN v = DOMAIN q \cup {<<h, n + 1>>}
  BY <1>11, <1>12, <1>13
<1>15. Gains(q, v, x)
  BY <1>9, <1>11, <1>13, <1>14, OneMore
<1> QED BY <1>5, <1>6, <1>15

-----------------------------------------------------------------------------
(* States of the path, and where a reply is.                               *)

Packets == [sm : SMs, data : BOOLEAN]

Now ==
  [announced |-> announced, merging |-> merging, arrived |-> arrived,
   queue |-> queue, stage |-> stage, buf |-> buf, rec |-> rec, same |-> same,
   others |-> others, net |-> net]

Typed(s) ==
  /\ s.announced \in BOOLEAN /\ s.merging \in Mergings
  /\ s.arrived \in Seq(Packets) /\ Len(s.arrived) <= MaxReplies
  /\ s.queue \in Seq(Reply)
  /\ s.stage \in [1 .. Stages - 1 -> Reply \cup {None}]
  /\ s.buf \in Seq(Entry) /\ s.rec \in Seq(Entry) /\ s.net \in Seq(Entry)
  /\ s.same \in Lists /\ s.others \in Lists

Containers(s) ==
  <<s.queue, s.stage, s.buf, s.rec, s.net, Merged(s.same), Merged(s.others)>>

Once(c, r) ==
  /\ \A h \in 1 .. 7 : Single(c[h], r)
  /\ \E h \in 1 .. 7 : Has(c[h], r)
  /\ \A g, h \in 1 .. 7 : Has(c[g], r) /\ Has(c[h], r) => g = h

Never(c, r) == \A h \in 1 .. 7 : ~Has(c[h], r)

\* The replies that have arrived, a of them, are at one place each, the others
\* nowhere.
Placed(c, a) ==
  /\ \A r \in Reply : r <= a => Once(c, r)
  /\ \A r \in Reply : ~(r <= a) => Never(c, r)

Located(s) == Placed(Containers(s), Len(s.arrived))

\* The other containers are left alone.
Others(c, k, g, h) == \A i \in 1 .. 7 : i # g /\ i # h => k[i] = c[i]

\* x goes from container g to container h.
Moves(c, k, g, h, x) ==
  /\ g \in 1 .. 7 /\ h \in 1 .. 7 /\ g # h /\ Others(c, k, g, h)
  /\ Loses(c[g], k[g], x) /\ Gains(c[h], k[h], x)

LEMMA MovesOnce ==
  ASSUME NEW c, NEW k, NEW g, NEW h, NEW x, Moves(c, k, g, h, x),
         NEW r \in Reply
  PROVE  (Once(c, r) => Once(k, r)) /\ (Never(c, r) => Never(k, r))
<1>1. /\ g \in 1 .. 7 /\ h \in 1 .. 7 /\ g # h
      /\ \A i \in 1 .. 7 : i # g /\ i # h => k[i] = c[i]
  BY DEF Moves, Others
<1>2. Has(c[g], r) <=> r = x \/ Has(k[g], r)
  BY DEF Moves, Loses
<1>3. Single(c[g], r) => Single(k[g], r) /\ (r = x => ~Has(k[g], r))
  BY DEF Moves, Loses
<1>4. Has(k[h], r) <=> r = x \/ Has(c[h], r)
  BY DEF Moves, Gains
<1>5. Single(c[h], r) /\ (r = x => ~Has(c[h], r)) => Single(k[h], r)
  BY DEF Moves, Gains
<1>6. ASSUME Once(c, r) PROVE Once(k, r)
  <2>1. \A i \in 1 .. 7 : Single(c[i], r)
    BY <1>6 DEF Once
  <2>2. PICK n \in 1 .. 7 : Has(c[n], r)
    BY <1>6 DEF Once
  <2>3. \A i \in 1 .. 7 : Has(c[i], r) => i = n
    BY <1>6, <2>2 DEF Once
  <2>4. CASE r = x
    <3>1. n = g
      BY <1>1, <1>2, <2>3, <2>4
    <3>2. Has(k[h], r) /\ Single(k[h], r)
      BY <1>1, <1>4, <1>5, <2>1, <2>3, <2>4, <3>1
    <3>3. ~Has(k[g], r) /\ Single(k[g], r)
      BY <1>1, <1>3, <2>1, <2>4
    <3>4. \A i \in 1 .. 7 : Has(k[i], r) => i = h
      BY <1>1, <2>3, <3>1, <3>3
    <3>5. \A i \in 1 .. 7 : Single(k[i], r)
      BY <1>1, <2>1, <3>2, <3>3
    <3> QED BY <1>1, <3>2, <3>4, <3>5 DEF Once
  <2>5. CASE r # x
    <3>1. \A i \in 1 .. 7 : Has(k[i], r) <=> Has(c[i], r)
      BY <1>1, <1>2, <1>4, <2>5
    <3>2. \A i \in 1 .. 7 : Single(k[i], r)
      BY <1>1, <1>3, <1>5, <2>1, <2>5
    <3> QED BY <3>1, <3>2, <2>2, <2>3 DEF Once
  <2> QED BY <2>4, <2>5
<1>7. ASSUME Never(c, r) PROVE Never(k, r)
  <2>1. \A i \in 1 .. 7 : ~Has(c[i], r)
    BY <1>7 DEF Never
  <2>2. r # x /\ ~Has(k[g], r) /\ ~Has(k[h], r)
    BY <1>1, <1>2, <1>4, <2>1
  <2>3. \A i \in 1 .. 7 : ~Has(k[i], r)
    BY <1>1, <2>1, <2>2
  <2> QED BY <2>3 DEF Never
<1> QED BY <1>6, <1>7

LEMMA PlacedMoves ==
  ASSUME NEW c, NEW k, NEW g, NEW h, NEW x, Moves(c, k, g, h, x),
         NEW a, Placed(c, a)
  PROVE  Placed(k, a)
<1>1. \A r \in Reply : (Once(c, r) => Once(k, r)) /\ (Never(c, r) => Never(k, r))
  BY MovesOnce
<1> QED BY <1>1 DEF Placed

\* The containers of a state that differs in two fields.
LEMMA ContainersAre ==
  ASSUME NEW s
  PROVE  /\ Containers(s)[1] = s.queue /\ Containers(s)[2] = s.stage
         /\ Containers(s)[3] = s.buf /\ Containers(s)[4] = s.rec
         /\ Containers(s)[5] = s.net /\ Containers(s)[6] = Merged(s.same)
         /\ Containers(s)[7] = Merged(s.others)
BY DEF Containers

LEMMA SevenAre ==
  \A i \in 1 .. 7 : i \in {1, 2, 3, 4, 5, 6, 7}
OBVIOUS

\* A reply that is in one place is in no other.
LEMMA PlacedOnce ==
  ASSUME NEW s, Located(s), NEW r \in Reply, NEW g \in 1 .. 7, NEW h \in 1 .. 7,
         Has(Containers(s)[g], r), Has(Containers(s)[h], r)
  PROVE  g = h /\ Single(Containers(s)[g], r) /\ r <= Len(s.arrived)
<1>1. PICK c : c = Containers(s)
  OBVIOUS
<1>2. ~Never(c, r)
  BY <1>1 DEF Never
<1>3. r <= Len(s.arrived) /\ Once(c, r)
  BY <1>1, <1>2 DEF Located, Placed
<1> QED BY <1>1, <1>3 DEF Once

-----------------------------------------------------------------------------
(* The moves: what IcntCycle and Arrive are made of.                       *)

DataIn(s, m) == m # Control /\ s.arrived[m].data
SMOf(s, m) == s.arrived[m].sm

BelowIn(s, m) == IF m = Control THEN 0 ELSE Len(s.same[m]) + Len(s.others[m])
HeldSet(s) == UNION {{i} \X (0 .. BelowIn(s, s.rec[i])) : i \in DOMAIN s.rec}
HeldIn(s) == Cardinality(HeldSet(s))

Config(s, t) ==
  t.announced = s.announced /\ t.merging = s.merging

Pipeline(s, t) == t.arrived = s.arrived /\ t.queue = s.queue /\ t.stage = s.stage

ListsKept(s, t) == t.same = s.same /\ t.others = s.others

\* Injection without recursive compression, and with it.
Sends(s, t) ==
  /\ Config(s, t) /\ Pipeline(s, t) /\ ListsKept(s, t)
  /\ s.merging = "off" /\ s.buf # <<>>
  /\ t.buf = Tail(s.buf) /\ t.net = Append(s.net, Head(s.buf)) /\ t.rec = s.rec

SendsPacket(s, t) ==
  /\ Config(s, t) /\ Pipeline(s, t) /\ ListsKept(s, t)
  /\ s.merging # "off" /\ s.rec # <<>>
  /\ t.rec = Tail(s.rec) /\ t.net = Append(s.net, Head(s.rec)) /\ t.buf = s.buf

\* What recursive compression does with the oldest entry of the compression buffer.
Compresses(s, t) ==
  /\ Config(s, t) /\ Pipeline(s, t) /\ t.net = s.net
  /\ s.merging # "off" /\ s.buf # <<>> /\ HeldIn(s) < RecSize
  /\ t.buf = Tail(s.buf)

Keeps(s, t) ==
  /\ Compresses(s, t) /\ ListsKept(s, t)
  /\ t.rec = Append(s.rec, Head(s.buf))

\* The entry that m is merged into, for its own cluster and for others.
HostsSame(s, m, i) ==
  /\ i \in DOMAIN s.rec /\ DataIn(s, s.rec[i])
  /\ SMOf(s, s.rec[i]) = SMOf(s, m) /\ s.others[s.rec[i]] = <<>>

HostsDiff(s, m, i) ==
  /\ i \in DOMAIN s.rec /\ DataIn(s, s.rec[i])
  /\ SMOf(s, s.rec[i]) # SMOf(s, m) /\ s.same[s.rec[i]] = <<>>

Joins(s, t, i) ==
  /\ Compresses(s, t) /\ t.rec = s.rec /\ DataIn(s, Head(s.buf))
  /\ HostsSame(s, Head(s.buf), i)
  /\ \A j \in DOMAIN s.rec : HostsSame(s, Head(s.buf), j) => j <= i
  /\ t.same = [s.same EXCEPT ![s.rec[i]] = Append(@, Head(s.buf))]
  /\ t.others = s.others

JoinsBelow(s, t, i, k) ==
  /\ Compresses(s, t) /\ t.rec = s.rec /\ DataIn(s, Head(s.buf))
  /\ s.merging \notin {"off", "same"}
  /\ HostsDiff(s, Head(s.buf), i)
  /\ Has(s.others[s.rec[i]], k) /\ SMOf(s, k) = SMOf(s, Head(s.buf))
  /\ t.same = [s.same EXCEPT ![k] = Append(@, Head(s.buf))]
  /\ t.others = s.others

JoinsBeside(s, t, i) ==
  /\ Compresses(s, t) /\ t.rec = s.rec /\ DataIn(s, Head(s.buf))
  /\ s.merging \notin {"off", "same"}
  /\ HostsDiff(s, Head(s.buf), i)
  /\ \A k : Has(s.others[s.rec[i]], k) => SMOf(s, k) # SMOf(s, Head(s.buf))
  /\ t.others = [s.others EXCEPT ![s.rec[i]] = Append(@, Head(s.buf))]
  /\ t.same = s.same

\* The compressor: a reply goes round the pipeline, or the pipeline runs.
Feeds(s, t) ==
  /\ Config(s, t) /\ ListsKept(s, t) /\ t.arrived = s.arrived
  /\ t.rec = s.rec /\ t.net = s.net
  /\ Len(s.buf) < BufferSize

GoesRound(s, t) ==
  /\ Feeds(s, t)
  /\ s.queue # <<>> /\ ~DataIn(s, Head(s.queue))
  /\ t.buf = Append(s.buf, Head(s.queue))
  /\ t.queue = Tail(s.queue) /\ t.stage = s.stage

InputOf(s) == IF s.queue = <<>> THEN None ELSE Head(s.queue)
OutputOf(s) == IF Stages = 1 THEN InputOf(s) ELSE s.stage[Stages - 1]

Runs(s, t) ==
  /\ Feeds(s, t)
  /\ s.queue # <<>> => DataIn(s, Head(s.queue))
  /\ t.buf = IF OutputOf(s) = None THEN s.buf
             ELSE s.buf \o (IF s.announced THEN <<Control, OutputOf(s)>> ELSE <<OutputOf(s)>>)
  /\ t.stage = [i \in 1 .. Stages - 1 |-> IF i = 1 THEN InputOf(s) ELSE s.stage[i - 1]]
  /\ t.queue = IF s.queue = <<>> THEN s.queue ELSE Tail(s.queue)

Arrives(s, t) == \E p \in Packets :
  /\ Config(s, t) /\ ListsKept(s, t)
  /\ t.stage = s.stage /\ t.buf = s.buf /\ t.rec = s.rec /\ t.net = s.net
  /\ Len(s.arrived) < MaxReplies
  /\ t.arrived = Append(s.arrived, p)
  /\ t.queue = Append(s.queue, Len(s.arrived) + 1)

Move(s, t) ==
  \/ Sends(s, t) \/ SendsPacket(s, t) \/ Keeps(s, t)
  \/ \E i : Joins(s, t, i)
  \/ \E i, k : JoinsBelow(s, t, i, k)
  \/ \E i : JoinsBeside(s, t, i)
  \/ GoesRound(s, t) \/ Runs(s, t) \/ Arrives(s, t)

-----------------------------------------------------------------------------
(* Types.                                                                  *)

LEMMA NamesDiffer ==
  /\ None \notin Reply /\ Control \notin Reply /\ None # Control
  /\ None \notin Entry
BY CompressorAssumption DEF Reply, Entry

LEMMA StagesIs == Stages \in Nat \ {0} /\ BufferSize \in Nat \ {0} /\ RecSize \in Nat \ {0}
BY CompressorAssumption

LEMMA HeadIn ==
  ASSUME NEW S, NEW q \in Seq(S), q # <<>>
  PROVE  Head(q) \in S /\ Tail(q) \in Seq(S)
BY TailOf

\* What has data is a reply, not a control message.
LEMMA DataReply ==
  ASSUME NEW s, NEW m \in Entry, DataIn(s, m)
  PROVE  m \in Reply
BY DEF DataIn, Entry

LEMMA HostIs ==
  ASSUME NEW s, Typed(s), NEW i, i \in DOMAIN s.rec, DataIn(s, s.rec[i])
  PROVE  s.rec[i] \in Reply /\ Has(s.rec, s.rec[i])
<1>1. s.rec \in Seq(Entry)
  BY DEF Typed
<1>2. s.rec[i] \in Entry
  BY <1>1
<1> QED BY <1>2, DataReply DEF Has

LEMMA BufHead ==
  ASSUME NEW s, Typed(s), s.buf # <<>>
  PROVE  /\ Head(s.buf) \in Entry /\ Tail(s.buf) \in Seq(Entry)
         /\ DataIn(s, Head(s.buf)) => Head(s.buf) \in Reply
         /\ Has(s.buf, Head(s.buf))
<1>1. s.buf \in Seq(Entry)
  BY DEF Typed
<1>2. Head(s.buf) \in Entry /\ Tail(s.buf) \in Seq(Entry)
  BY <1>1, HeadIn
<1>3. 1 \in DOMAIN s.buf /\ s.buf[1] = Head(s.buf)
  BY <1>1, TailOf
<1> QED BY <1>2, <1>3, DataReply DEF Has

LEMMA AppendType ==
  ASSUME NEW S, NEW q \in Seq(S), NEW x \in S
  PROVE  Append(q, x) \in Seq(S)
OBVIOUS

\* The lists before and after a reply is merged.
LEMMA JoinsLists ==
  ASSUME NEW s, Typed(s), NEW t, NEW i, Joins(s, t, i)
  PROVE  /\ Extends(s.same, t.same, s.rec[i], Head(s.buf))
         /\ s.rec[i] \in Reply /\ Head(s.buf) \in Reply /\ Has(s.rec, s.rec[i])
<1>1. s.buf # <<>> /\ DataIn(s, Head(s.buf)) /\ HostsSame(s, Head(s.buf), i)
  BY DEF Joins, Compresses
<1>2. Head(s.buf) \in Reply
  BY <1>1, BufHead
<1>3. s.rec[i] \in Reply /\ Has(s.rec, s.rec[i])
  BY <1>1, HostIs DEF HostsSame
<1>4. s.same \in Lists /\ t.same = [s.same EXCEPT ![s.rec[i]] = Append(@, Head(s.buf))]
  BY DEF Typed, Joins
<1>5. Extends(s.same, t.same, s.rec[i], Head(s.buf))
  BY <1>2, <1>3, <1>4, ExtendsIs
<1> QED BY <1>2, <1>3, <1>5

LEMMA InList ==
  ASSUME NEW f \in Lists, NEW h \in Reply, NEW k, Has(f[h], k)
  PROVE  k \in Reply
<1>1. f[h] \in Seq(Reply)
  BY DEF Lists
<1> QED BY <1>1 DEF Has

LEMMA BelowLists ==
  ASSUME NEW s, Typed(s), NEW t, NEW i, NEW k, JoinsBelow(s, t, i, k)
  PROVE  /\ Extends(s.same, t.same, k, Head(s.buf))
         /\ s.rec[i] \in Reply /\ Head(s.buf) \in Reply /\ k \in Reply
         /\ Has(s.rec, s.rec[i])
<1>1. s.buf # <<>> /\ DataIn(s, Head(s.buf)) /\ HostsDiff(s, Head(s.buf), i)
  BY DEF JoinsBelow, Compresses
<1>2. Head(s.buf) \in Reply
  BY <1>1, BufHead
<1>3. s.rec[i] \in Reply /\ Has(s.rec, s.rec[i])
  BY <1>1, HostIs DEF HostsDiff
<1>4. s.same \in Lists /\ t.same = [s.same EXCEPT ![k] = Append(@, Head(s.buf))]
  BY DEF Typed, JoinsBelow
<1>5. s.others \in Lists /\ Has(s.others[s.rec[i]], k)
  BY DEF Typed, JoinsBelow
<1>6. k \in Reply
  BY <1>3, <1>5, InList
<1>7. Extends(s.same, t.same, k, Head(s.buf))
  BY <1>2, <1>6, <1>4, ExtendsIs
<1> QED BY <1>2, <1>3, <1>6, <1>7

LEMMA BesideLists ==
  ASSUME NEW s, Typed(s), NEW t, NEW i, JoinsBeside(s, t, i)
  PROVE  /\ Extends(s.others, t.others, s.rec[i], Head(s.buf))
         /\ s.rec[i] \in Reply /\ Head(s.buf) \in Reply /\ Has(s.rec, s.rec[i])
<1>1. s.buf # <<>> /\ DataIn(s, Head(s.buf)) /\ HostsDiff(s, Head(s.buf), i)
  BY DEF JoinsBeside, Compresses
<1>2. Head(s.buf) \in Reply
  BY <1>1, BufHead
<1>3. s.rec[i] \in Reply /\ Has(s.rec, s.rec[i])
  BY <1>1, HostIs DEF HostsDiff
<1>4. s.others \in Lists /\ t.others = [s.others EXCEPT ![s.rec[i]] = Append(@, Head(s.buf))]
  BY DEF Typed, JoinsBeside
<1>5. Extends(s.others, t.others, s.rec[i], Head(s.buf))
  BY <1>2, <1>3, <1>4, ExtendsIs
<1> QED BY <1>2, <1>3, <1>5

LEMMA InputIs ==
  ASSUME NEW s, Typed(s)
  PROVE  InputOf(s) \in Reply \cup {None} /\ OutputOf(s) \in Reply \cup {None}
<1>1. InputOf(s) \in Reply \cup {None}
  BY HeadIn DEF Typed, InputOf
<1>2. Stages # 1 => s.stage[Stages - 1] \in Reply \cup {None}
  BY StagesIs DEF Typed
<1> QED BY <1>1, <1>2 DEF OutputOf

\* What leaves the pipeline is pushed, announced or not.
LEMMA RunsPush ==
  ASSUME NEW s, Typed(s), NEW t, Runs(s, t), NEW x, x = OutputOf(s)
  PROVE  /\ x = None => t.buf = s.buf
         /\ x # None /\ ~s.announced => t.buf = Append(s.buf, x)
         /\ x # None /\ s.announced => t.buf = Append(Append(s.buf, Control), x)
         /\ x # None => x \in Reply
<1>1. x \in Reply \cup {None}
  BY InputIs
<1>2. s.buf \in Seq(Entry) /\ Reply \subseteq Entry /\ Control \in Entry
  BY DEF Typed, Entry
<1>3. t.buf = IF x = None THEN s.buf
              ELSE s.buf \o (IF s.announced THEN <<Control, x>> ELSE <<x>>)
  BY DEF Runs
<1>4. ASSUME x # None, ~s.announced PROVE t.buf = Append(s.buf, x)
  <2>1. t.buf = s.buf \o <<x>> /\ x \in Entry
    BY <1>1, <1>2, <1>3, <1>4
  <2> QED BY <1>2, <2>1
<1>5. ASSUME x # None, s.announced PROVE t.buf = Append(Append(s.buf, Control), x)
  <2>1. t.buf = s.buf \o <<Control, x>> /\ x \in Entry
    BY <1>1, <1>2, <1>3, <1>5
  <2> QED BY <1>2, <2>1
<1> QED BY <1>1, <1>3, <1>4, <1>5

LEMMA MovesTyped ==
  ASSUME NEW s, Typed(s), NEW t, Move(s, t)
  PROVE  Typed(t)
<1>1. /\ s.queue \in Seq(Reply) /\ s.buf \in Seq(Entry) /\ s.rec \in Seq(Entry)
      /\ s.net \in Seq(Entry) /\ s.same \in Lists /\ s.others \in Lists
      /\ s.stage \in [1 .. Stages - 1 -> Reply \cup {None}]
      /\ s.arrived \in Seq(Packets) /\ Len(s.arrived) <= MaxReplies
      /\ s.announced \in BOOLEAN /\ s.merging \in Mergings
  BY DEF Typed
<1>2. Reply \subseteq Entry /\ Control \in Entry
  BY DEF Entry
<1>3. s.buf # <<>> => Head(s.buf) \in Entry /\ Tail(s.buf) \in Seq(Entry)
  BY BufHead
<1>4. CASE Sends(s, t)
  <2>1. t.buf \in Seq(Entry) /\ t.net \in Seq(Entry)
    BY <1>1, <1>3, <1>4, AppendType DEF Sends
  <2> QED BY <1>1, <1>4, <2>1 DEF Sends, Config, Pipeline, ListsKept, Typed
<1>5. CASE SendsPacket(s, t)
  <2>1. t.rec \in Seq(Entry) /\ t.net \in Seq(Entry)
    BY <1>1, <1>5, AppendType, HeadIn DEF SendsPacket
  <2> QED BY <1>1, <1>5, <2>1 DEF SendsPacket, Config, Pipeline, ListsKept, Typed
<1>6. CASE Keeps(s, t)
  <2>1. t.buf \in Seq(Entry) /\ t.rec \in Seq(Entry)
    BY <1>1, <1>3, <1>6, AppendType DEF Keeps, Compresses
  <2> QED BY <1>1, <1>6, <2>1 DEF Keeps, Compresses, Config, Pipeline, ListsKept, Typed
<1>7. ASSUME NEW i, Joins(s, t, i) PROVE Typed(t)
  <2>1. t.buf \in Seq(Entry)
    BY <1>3, <1>7 DEF Joins, Compresses
  <2>2. t.same \in Lists
    BY <1>7, JoinsLists DEF Extends
  <2> QED BY <1>1, <1>7, <2>1, <2>2 DEF Joins, Compresses, Config, Pipeline, Typed
<1>8. ASSUME NEW i, NEW k, JoinsBelow(s, t, i, k) PROVE Typed(t)
  <2>1. t.buf \in Seq(Entry)
    BY <1>3, <1>8 DEF JoinsBelow, Compresses
  <2>2. t.same \in Lists
    BY <1>8, BelowLists DEF Extends
  <2> QED BY <1>1, <1>8, <2>1, <2>2 DEF JoinsBelow, Compresses, Config, Pipeline, Typed
<1>9. ASSUME NEW i, JoinsBeside(s, t, i) PROVE Typed(t)
  <2>1. t.buf \in Seq(Entry)
    BY <1>3, <1>9 DEF JoinsBeside, Compresses
  <2>2. t.others \in Lists
    BY <1>9, BesideLists DEF Extends
  <2> QED BY <1>1, <1>9, <2>1, <2>2 DEF JoinsBeside, Compresses, Config, Pipeline, Typed
<1>10. CASE GoesRound(s, t)
  <2>1. Head(s.queue) \in Reply /\ t.queue \in Seq(Reply)
    BY <1>1, <1>10, HeadIn DEF GoesRound
  <2>2. t.buf \in Seq(Entry)
    BY <1>1, <1>2, <1>10, <2>1, AppendType DEF GoesRound
  <2> QED BY <1>1, <1>10, <2>1, <2>2 DEF GoesRound, Feeds, Config, ListsKept, Typed
<1>11. CASE Runs(s, t)
  <2>1. t.queue \in Seq(Reply)
    BY <1>1, <1>11, HeadIn DEF Runs
  <2>2. t.stage \in [1 .. Stages - 1 -> Reply \cup {None}]
    <3>1. InputOf(s) \in Reply \cup {None}
      BY InputIs
    <3>2. \A i \in 1 .. Stages - 1 : i # 1 => s.stage[i - 1] \in Reply \cup {None}
      BY <1>1, StagesIs
    <3> QED BY <1>11, <3>1, <3>2 DEF Runs
  <2>3. t.buf \in Seq(Entry)
    <3>1. PICK x : x = OutputOf(s)
      OBVIOUS
    <3>2. /\ x = None => t.buf = s.buf
          /\ x # None /\ ~s.announced => t.buf = Append(s.buf, x)
          /\ x # None /\ s.announced => t.buf = Append(Append(s.buf, Control), x)
          /\ x # None => x \in Reply
      BY <1>11, <3>1, RunsPush
    <3>3. x # None => x \in Entry
      BY <1>2, <3>2
    <3>4. Append(s.buf, Control) \in Seq(Entry)
      BY <1>1, <1>2, AppendType
    <3> QED BY <1>1, <3>2, <3>3, <3>4, AppendType
  <2> QED BY <1>1, <1>11, <2>1, <2>2, <2>3 DEF Runs, Feeds, Config, ListsKept, Typed
<1>12. CASE Arrives(s, t)
  <2>1. PICK p \in Packets : t.arrived = Append(s.arrived, p)
    BY <1>12 DEF Arrives
  <2>2. t.arrived \in Seq(Packets) /\ Len(t.arrived) = Len(s.arrived) + 1
    BY <1>1, <2>1, AppendOf
  <2>3. Len(s.arrived) + 1 \in Reply /\ Len(s.arrived) + 1 <= MaxReplies
    BY <1>1, <1>12, CompressorAssumption DEF Arrives, Reply
  <2>4. t.queue \in Seq(Reply)
    BY <1>1, <1>12, <2>3, AppendType DEF Arrives
  <2> QED BY <1>1, <1>12, <2>2, <2>3, <2>4 DEF Arrives, Config, ListsKept, Typed
<1> QED BY <1>4, <1>5, <1>6, <1>7, <1>8, <1>9, <1>10, <1>11, <1>12 DEF Move

-----------------------------------------------------------------------------
(* Every move keeps every reply at one place.                              *)

LEMMA NothingMoves ==
  ASSUME NEW q, NEW x, x \notin Reply
  PROVE  Loses(q, q, x) /\ Gains(q, q, x)
BY DEF Loses, Gains

\* What is no reply may be put in first.
LEMMA GainsAfter ==
  ASSUME NEW q, NEW u, NEW v, NEW x, NEW y, x \notin Reply, Gains(q, u, x), Gains(u, v, y)
  PROVE  Gains(q, v, y)
<1> SUFFICES ASSUME NEW r \in Reply
             PROVE  /\ Has(v, r) <=> r = y \/ Has(q, r)
                    /\ Single(q, r) /\ (r = y => ~Has(q, r)) => Single(v, r)
  BY DEF Gains
<1>1. Has(u, r) <=> r = x \/ Has(q, r)
  BY DEF Gains
<1>2. Single(q, r) /\ (r = x => ~Has(q, r)) => Single(u, r)
  BY DEF Gains
<1>3. Has(v, r) <=> r = y \/ Has(u, r)
  BY DEF Gains
<1>4. Single(u, r) /\ (r = y => ~Has(u, r)) => Single(v, r)
  BY DEF Gains
<1>5. r # x
  OBVIOUS
<1> QED BY <1>1, <1>2, <1>3, <1>4, <1>5

\* The last stage gives its reply away.
LEMMA LastLeaves ==
  ASSUME NEW n \in Nat, n >= 1, NEW f \in [1 .. n -> Reply \cup {None}],
         NEW v, v = [f EXCEPT ![n] = None], NEW x, x = f[n]
  PROVE  Loses(f, v, x)
<1> SUFFICES ASSUME NEW r \in Reply
             PROVE  /\ Has(f, r) <=> r = x \/ Has(v, r)
                    /\ Single(f, r) => Single(v, r) /\ (r = x => ~Has(v, r))
  BY DEF Loses
<1>1. DOMAIN f = 1 .. n /\ DOMAIN v = 1 .. n /\ n \in 1 .. n
  OBVIOUS
<1>2. \A i \in 1 .. n : v[i] = IF i = n THEN None ELSE f[i]
  OBVIOUS
<1>3. r # None
  BY NamesDiffer
<1>4. \A i \in 1 .. n : v[i] = r <=> i # n /\ f[i] = r
  BY <1>2, <1>3
<1>5. Has(f, r) <=> r = x \/ Has(v, r)
  <2>1. ASSUME Has(f, r) PROVE r = x \/ Has(v, r)
    <3>1. PICK i \in 1 .. n : f[i] = r
      BY <1>1, <2>1 DEF Has
    <3>2. CASE i # n
      BY <1>1, <1>4, <3>1, <3>2 DEF Has
    <3> QED BY <3>1, <3>2
  <2>2. ASSUME Has(v, r) PROVE Has(f, r)
    BY <1>1, <1>4, <2>2 DEF Has
  <2>3. r = x => Has(f, r)
    BY <1>1 DEF Has
  <2> QED BY <2>1, <2>2, <2>3
<1>6. ASSUME Single(f, r) PROVE Single(v, r) /\ (r = x => ~Has(v, r))
  BY <1>1, <1>4, <1>6 DEF Single, Has
<1> QED BY <1>5, <1>6

\* The other stages shift, and the first takes what enters.
LEMMA FirstTakes ==
  ASSUME NEW n \in Nat, n >= 1, NEW f, DOMAIN f = 1 .. n,
         NEW v, v = [f EXCEPT ![n] = None], NEW x,
         NEW w, w = [i \in 1 .. n |-> IF i = 1 THEN x ELSE f[i - 1]]
  PROVE  Gains(v, w, x)
<1> SUFFICES ASSUME NEW r \in Reply
             PROVE  /\ Has(w, r) <=> r = x \/ Has(v, r)
                    /\ Single(v, r) /\ (r = x => ~Has(v, r)) => Single(w, r)
  BY DEF Gains
<1>1. DOMAIN v = 1 .. n /\ DOMAIN w = 1 .. n /\ n \in 1 .. n /\ 1 \in 1 .. n
  OBVIOUS
<1>2. r # None
  BY NamesDiffer
<1>3. \A i \in 1 .. n : v[i] = r <=> i # n /\ f[i] = r
  BY <1>2
<1>4. \A i \in 1 .. n : w[i] = r <=> IF i = 1 THEN x = r ELSE f[i - 1] = r
  OBVIOUS
<1>5. \A i \in 1 .. n : i # 1 => i - 1 \in 1 .. n /\ i - 1 # n
  OBVIOUS
<1>6. \A i \in 1 .. n : i # 1 => (w[i] = r <=> v[i - 1] = r)
  BY <1>3, <1>4, <1>5
<1>7. \A i \in 1 .. n : i # n => i + 1 \in 1 .. n /\ i + 1 # 1 /\ (i + 1) - 1 = i
  OBVIOUS
<1>8. \A i \in 1 .. n : v[i] = r => i # n /\ w[i + 1] = r
  BY <1>3, <1>6, <1>7
<1>9. Has(w, r) <=> r = x \/ Has(v, r)
  <2>1. ASSUME Has(w, r) PROVE r = x \/ Has(v, r)
    <3>1. PICK i \in 1 .. n : w[i] = r
      BY <1>1, <2>1 DEF Has
    <3>2. CASE i # 1
      BY <1>1, <1>5, <1>6, <3>1, <3>2 DEF Has
    <3>3. CASE i = 1
      BY <1>1, <1>4, <3>1, <3>3
    <3> QED BY <3>2, <3>3
  <2>2. ASSUME Has(v, r) PROVE Has(w, r)
    <3>1. PICK i \in 1 .. n : v[i] = r
      BY <1>1, <2>2 DEF Has
    <3>2. i + 1 \in 1 .. n /\ w[i + 1] = r
      BY <1>7, <1>8, <3>1
    <3> QED BY <1>1, <3>2 DEF Has
  <2>3. r = x => Has(w, r)
    BY <1>1, <1>4 DEF Has
  <2> QED BY <2>1, <2>2, <2>3
<1>10. ASSUME Single(v, r), r = x => ~Has(v, r) PROVE Single(w, r)
  <2> SUFFICES ASSUME NEW i \in 1 .. n, NEW j \in 1 .. n, w[i] = r, w[j] = r
               PROVE  i = j
    BY <1>1 DEF Single
  <2>1. CASE i # 1 /\ j # 1
    <3>1. i - 1 \in 1 .. n /\ j - 1 \in 1 .. n /\ v[i - 1] = r /\ v[j - 1] = r
      BY <1>5, <1>6, <2>1
    <3>2. i - 1 = j - 1
      BY <1>1, <1>10, <3>1 DEF Single
    <3> QED BY <3>2
  <2>2. ASSUME NEW a \in 1 .. n, NEW b \in 1 .. n, a = 1, w[a] = r, w[b] = r, b # 1
        PROVE  FALSE
    <3>1. r = x
      BY <1>4, <2>2
    <3>2. b - 1 \in 1 .. n /\ v[b - 1] = r
      BY <1>5, <1>6, <2>2
    <3> QED BY <1>1, <1>10, <3>1, <3>2 DEF Has
  <2> QED BY <2>1, <2>2
<1> QED BY <1>9, <1>10

LEMMA QueueLoses ==
  ASSUME NEW s, Typed(s), NEW t, Runs(s, t)
  PROVE  Loses(s.queue, t.queue, InputOf(s))
<1>1. s.queue \in Seq(Reply)
  BY DEF Typed
<1>2. CASE s.queue = <<>>
  <2>1. t.queue = s.queue /\ InputOf(s) \notin Reply
    BY <1>2, NamesDiffer DEF Runs, InputOf
  <2> QED BY <2>1, NothingMoves
<1>3. CASE s.queue # <<>>
  <2>1. t.queue = Tail(s.queue) /\ InputOf(s) = Head(s.queue)
    BY <1>3 DEF Runs, InputOf
  <2> QED BY <1>1, <1>3, <2>1, TailLoses
<1> QED BY <1>2, <1>3

LEMMA BufGains ==
  ASSUME NEW s, Typed(s), NEW t, Runs(s, t)
  PROVE  Gains(s.buf, t.buf, OutputOf(s))
<1>1. PICK x : x = OutputOf(s)
  OBVIOUS
<1>2. /\ x = None => t.buf = s.buf
      /\ x # None /\ ~s.announced => t.buf = Append(s.buf, x)
      /\ x # None /\ s.announced => t.buf = Append(Append(s.buf, Control), x)
      /\ x # None => x \in Reply
  BY <1>1, RunsPush
<1>3. s.buf \in Seq(Entry) /\ Reply \subseteq Entry /\ Control \in Entry
  BY DEF Typed, Entry
<1>4. CASE x = None
  <2>1. x \notin Reply
    BY <1>4, NamesDiffer
  <2> QED BY <1>1, <1>2, <1>4, <2>1, NothingMoves
<1>5. CASE x # None /\ ~s.announced
  <2>1. x \in Entry
    BY <1>2, <1>3, <1>5
  <2>2. Gains(s.buf, Append(s.buf, x), x)
    BY <1>3, <2>1, AppendGains
  <2> QED BY <1>1, <1>2, <1>5, <2>2
<1>6. CASE x # None /\ s.announced
  <2>1. x \in Entry
    BY <1>2, <1>3, <1>6
  <2>2. PICK u : u = Append(s.buf, Control)
    OBVIOUS
  <2>3. u \in Seq(Entry) /\ Gains(s.buf, u, Control)
    BY <1>3, <2>2, AppendGains, AppendType
  <2>4. Gains(u, Append(u, x), x)
    BY <2>1, <2>3, AppendGains
  <2>5. Control \notin Reply
    BY NamesDiffer
  <2>6. Gains(s.buf, Append(u, x), x)
    BY <2>3, <2>4, <2>5, GainsAfter
  <2>7. t.buf = Append(u, x)
    BY <1>2, <1>6, <2>2
  <2> QED BY <1>1, <2>6, <2>7
<1> QED BY <1>4, <1>5, <1>6

\* From the queue to the buffer there are the stages, if any.
LEMMA RunsLocated ==
  ASSUME NEW s, Typed(s), Located(s), NEW t, Runs(s, t)
  PROVE  Located(t)
<1>1. PICK c : c = Containers(s)
  OBVIOUS
<1>2. PICK k : k = Containers(t)
  OBVIOUS
<1>3. /\ c[1] = s.queue /\ c[2] = s.stage /\ c[3] = s.buf
      /\ k[1] = t.queue /\ k[2] = t.stage /\ k[3] = t.buf
  BY <1>1, <1>2, ContainersAre
<1>4. k[4] = c[4] /\ k[5] = c[5] /\ k[6] = c[6] /\ k[7] = c[7]
  BY <1>1, <1>2, ContainersAre DEF Runs, Feeds, ListsKept
<1>5. Placed(c, Len(s.arrived)) /\ t.arrived = s.arrived
  BY <1>1 DEF Located, Runs, Feeds
<1>6. Loses(c[1], k[1], InputOf(s)) /\ Gains(c[3], k[3], OutputOf(s))
  BY <1>3, QueueLoses, BufGains
<1>7. CASE Stages = 1
  <2>1. t.stage = s.stage
    BY <1>7 DEF Runs, Typed
  <2>2. \A i \in 1 .. 7 : i # 1 /\ i # 3 => k[i] = c[i]
    BY <1>3, <1>4, <2>1, SevenAre
  <2>3. Moves(c, k, 1, 3, InputOf(s))
    BY <1>6, <1>7, <2>2 DEF Moves, Others, OutputOf
  <2>4. Placed(k, Len(s.arrived))
    BY <1>5, <2>3, PlacedMoves
  <2> QED BY <1>2, <1>5, <2>4 DEF Located
<1>8. CASE Stages # 1
  <2>1. PICK n : n = Stages - 1
    OBVIOUS
  <2>2. n \in Nat /\ n >= 1
    BY <1>8, <2>1, StagesIs
  <2>3. /\ s.stage \in [1 .. n -> Reply \cup {None}] /\ OutputOf(s) = s.stage[n]
        /\ t.stage = [i \in 1 .. n |-> IF i = 1 THEN InputOf(s) ELSE s.stage[i - 1]]
    BY <1>8, <2>1 DEF Runs, Typed, OutputOf
  <2>4. PICK v : v = [s.stage EXCEPT ![n] = None]
    OBVIOUS
  <2>5. Loses(s.stage, v, OutputOf(s))
    BY <2>2, <2>3, <2>4, LastLeaves
  <2>6. Gains(v, t.stage, InputOf(s))
    <3>1. PICK f : f = s.stage
      OBVIOUS
    <3>2. PICK w : w = t.stage
      OBVIOUS
    <3>3. PICK x : x = InputOf(s)
      OBVIOUS
    <3>4. DOMAIN f = 1 .. n /\ v = [f EXCEPT ![n] = None]
      BY <2>3, <2>4, <3>1
    <3>5. w = [i \in 1 .. n |-> IF i = 1 THEN x ELSE f[i - 1]]
      BY <2>3, <3>1, <3>2, <3>3
    <3>6. Gains(v, w, x)
      BY <2>2, <3>4, <3>5, FirstTakes
    <3> QED BY <3>2, <3>3, <3>6
  <2>7. PICK m : m = <<c[1], v, k[3], c[4], c[5], c[6], c[7]>>
    OBVIOUS
  <2>8. /\ m[1] = c[1] /\ m[2] = v /\ m[3] = k[3] /\ m[4] = c[4]
        /\ m[5] = c[5] /\ m[6] = c[6] /\ m[7] = c[7]
    BY <2>7
  <2>9. Moves(c, m, 2, 3, OutputOf(s))
    <3>1. Others(c, m, 2, 3)
      BY <2>8, SevenAre DEF Others
    <3>2. Loses(c[2], m[2], OutputOf(s)) /\ Gains(c[3], m[3], OutputOf(s))
      BY <1>3, <1>6, <2>5, <2>8
    <3> QED BY <3>1, <3>2 DEF Moves
  <2>10. Moves(m, k, 1, 2, InputOf(s))
    <3>1. Others(m, k, 1, 2)
      BY <1>4, <2>8, SevenAre DEF Others
    <3>2. Loses(m[1], k[1], InputOf(s)) /\ Gains(m[2], k[2], InputOf(s))
      BY <1>3, <1>6, <2>6, <2>8
    <3> QED BY <3>1, <3>2 DEF Moves
  <2>11. Placed(m, Len(s.arrived))
    BY <1>5, <2>9, PlacedMoves
  <2>12. Placed(k, Len(s.arrived))
    BY <2>10, <2>11, PlacedMoves
  <2> QED BY <1>2, <1>5, <2>12 DEF Located
<1> QED BY <1>7, <1>8

\* One reply goes from one container to another.
LEMMA MoveLocated ==
  ASSUME NEW s, Located(s), NEW t, t.arrived = s.arrived,
         NEW g, NEW h, NEW x, Moves(Containers(s), Containers(t), g, h, x)
  PROVE  Located(t)
<1>1. Placed(Containers(s), Len(s.arrived))
  BY DEF Located
<1>2. Placed(Containers(t), Len(s.arrived))
  BY <1>1, PlacedMoves
<1> QED BY <1>2 DEF Located

LEMMA ArrivesLocated ==
  ASSUME NEW s, Typed(s), Located(s), NEW t, Arrives(s, t)
  PROVE  Located(t)
<1>1. PICK c : c = Containers(s)
  OBVIOUS
<1>2. PICK k : k = Containers(t)
  OBVIOUS
<1>3. PICK a \in Nat : a = Len(s.arrived)
  BY DEF Typed
<1>4. c[1] = s.queue /\ k[1] = Append(s.queue, a + 1)
  BY <1>1, <1>2, <1>3, ContainersAre DEF Arrives
<1>5. Len(t.arrived) = a + 1 /\ a + 1 \in Reply
  <2>1. PICK p \in Packets : t.arrived = Append(s.arrived, p)
    BY DEF Arrives
  <2>2. Len(t.arrived) = a + 1
    BY <1>3, <2>1, AppendOf DEF Typed
  <2>3. a + 1 \in Reply
    BY <1>3, CompressorAssumption DEF Arrives, Reply
  <2> QED BY <2>2, <2>3
<1>6. Gains(c[1], k[1], a + 1)
  <2>1. s.queue \in Seq(Reply)
    BY DEF Typed
  <2> QED BY <1>4, <1>5, <2>1, AppendGains
<1>7. \A i \in 1 .. 7 : i # 1 => k[i] = c[i]
  <2>1. k[2] = c[2] /\ k[3] = c[3] /\ k[4] = c[4] /\ k[5] = c[5] /\ k[6] = c[6] /\ k[7] = c[7]
    BY <1>1, <1>2, ContainersAre DEF Arrives, ListsKept
  <2> QED BY <2>1, SevenAre
<1>8. /\ \A r \in Reply : r <= a => Once(c, r)
      /\ \A r \in Reply : ~(r <= a) => Never(c, r)
  BY <1>1, <1>3 DEF Located, Placed
<1>9. ASSUME NEW r \in Reply, r # a + 1
      PROVE  (Once(c, r) => Once(k, r)) /\ (Never(c, r) => Never(k, r))
  <2>1. Has(k[1], r) <=> Has(c[1], r)
    BY <1>6, <1>9 DEF Gains
  <2>2. Single(c[1], r) => Single(k[1], r)
    BY <1>6, <1>9 DEF Gains
  <2>3. \A i \in 1 .. 7 : Has(k[i], r) <=> Has(c[i], r)
    BY <1>7, <2>1
  <2>4. \A i \in 1 .. 7 : Single(c[i], r) => Single(k[i], r)
    BY <1>7, <2>2
  <2> QED BY <2>3, <2>4 DEF Once, Never
<1>10. Once(k, a + 1)
  <2>1. Never(c, a + 1)
    BY <1>5, <1>8
  <2>2. \A i \in 1 .. 7 : ~Has(c[i], a + 1)
    BY <2>1 DEF Never
  <2>3. Has(k[1], a + 1)
    BY <1>5, <1>6 DEF Gains
  <2>4. \A i \in 1 .. 7 : Single(c[i], a + 1)
    BY <2>2 DEF Single, Has
  <2>5. Single(k[1], a + 1)
    BY <1>5, <1>6, <2>2, <2>4 DEF Gains
  <2>6. \A i \in 1 .. 7 : Single(k[i], a + 1)
    BY <1>7, <2>4, <2>5
  <2>7. \A i \in 1 .. 7 : Has(k[i], a + 1) => i = 1
    BY <1>7, <2>2
  <2> QED BY <2>3, <2>6, <2>7 DEF Once
<1>11. \A r \in Reply : r \in Int
  BY DEF Reply
<1>12. \A r \in Reply : r <= a + 1 => Once(k, r)
  BY <1>8, <1>9, <1>10, <1>11
<1>13. \A r \in Reply : ~(r <= a + 1) => Never(k, r)
  BY <1>8, <1>9, <1>11
<1> QED BY <1>2, <1>5, <1>12, <1>13 DEF Located, Placed

LEMMA MovesLocated ==
  ASSUME NEW s, Typed(s), Located(s), NEW t, Move(s, t)
  PROVE  Located(t)
<1>1. PICK c : c = Containers(s)
  OBVIOUS
<1>2. PICK k : k = Containers(t)
  OBVIOUS
<1>3. /\ c[1] = s.queue /\ c[2] = s.stage /\ c[3] = s.buf /\ c[4] = s.rec
      /\ c[5] = s.net /\ c[6] = Merged(s.same) /\ c[7] = Merged(s.others)
  BY <1>1, ContainersAre
<1>4. /\ k[1] = t.queue /\ k[2] = t.stage /\ k[3] = t.buf /\ k[4] = t.rec
      /\ k[5] = t.net /\ k[6] = Merged(t.same) /\ k[7] = Merged(t.others)
  BY <1>2, ContainersAre
<1>5. /\ s.queue \in Seq(Reply) /\ s.buf \in Seq(Entry) /\ s.rec \in Seq(Entry)
      /\ s.net \in Seq(Entry) /\ Reply \subseteq Entry
  BY DEF Typed, Entry
<1>6. s.buf # <<>> => Head(s.buf) \in Entry /\ Loses(s.buf, Tail(s.buf), Head(s.buf))
  BY <1>5, HeadIn, TailLoses
<1>7. CASE Sends(s, t)
  <2>1. Others(c, k, 3, 5)
    BY <1>3, <1>4, <1>7, SevenAre DEF Others, Sends, Pipeline, ListsKept
  <2>2. Loses(c[3], k[3], Head(s.buf)) /\ Gains(c[5], k[5], Head(s.buf))
    BY <1>3, <1>4, <1>5, <1>6, <1>7, AppendGains DEF Sends
  <2>3. Moves(c, k, 3, 5, Head(s.buf))
    BY <2>1, <2>2 DEF Moves
  <2> QED BY <1>1, <1>2, <1>7, <2>3, MoveLocated DEF Sends, Pipeline
<1>8. CASE SendsPacket(s, t)
  <2>1. Others(c, k, 4, 5)
    BY <1>3, <1>4, <1>8, SevenAre DEF Others, SendsPacket, Pipeline, ListsKept
  <2>2. Loses(c[4], k[4], Head(s.rec)) /\ Gains(c[5], k[5], Head(s.rec))
    BY <1>3, <1>4, <1>5, <1>8, HeadIn, TailLoses, AppendGains DEF SendsPacket
  <2>3. Moves(c, k, 4, 5, Head(s.rec))
    BY <2>1, <2>2 DEF Moves
  <2> QED BY <1>1, <1>2, <1>8, <2>3, MoveLocated DEF SendsPacket, Pipeline
<1>9. CASE Keeps(s, t)
  <2>1. Others(c, k, 3, 4)
    BY <1>3, <1>4, <1>9, SevenAre DEF Others, Keeps, Compresses, Pipeline, ListsKept
  <2>2. Loses(c[3], k[3], Head(s.buf)) /\ Gains(c[4], k[4], Head(s.buf))
    BY <1>3, <1>4, <1>5, <1>6, <1>9, AppendGains DEF Keeps, Compresses
  <2>3. Moves(c, k, 3, 4, Head(s.buf))
    BY <2>1, <2>2 DEF Moves
  <2> QED BY <1>1, <1>2, <1>9, <2>3, MoveLocated DEF Keeps, Compresses, Pipeline
<1>10. ASSUME NEW i, Joins(s, t, i) PROVE Located(t)
  <2>1. Others(c, k, 3, 6)
    BY <1>3, <1>4, <1>10, SevenAre DEF Others, Joins, Compresses, Pipeline
  <2>2. Gains(c[6], k[6], Head(s.buf))
    BY <1>3, <1>4, <1>10, JoinsLists, MergedGains
  <2>3. Loses(c[3], k[3], Head(s.buf))
    BY <1>3, <1>4, <1>6, <1>10 DEF Joins, Compresses
  <2>4. Moves(c, k, 3, 6, Head(s.buf))
    BY <2>1, <2>2, <2>3 DEF Moves
  <2> QED BY <1>1, <1>2, <1>10, <2>4, MoveLocated DEF Joins, Compresses, Pipeline
<1>11. ASSUME NEW i, NEW n, JoinsBelow(s, t, i, n) PROVE Located(t)
  <2>1. Others(c, k, 3, 6)
    BY <1>3, <1>4, <1>11, SevenAre DEF Others, JoinsBelow, Compresses, Pipeline
  <2>2. Gains(c[6], k[6], Head(s.buf))
    BY <1>3, <1>4, <1>11, BelowLists, MergedGains
  <2>3. Loses(c[3], k[3], Head(s.buf))
    BY <1>3, <1>4, <1>6, <1>11 DEF JoinsBelow, Compresses
  <2>4. Moves(c, k, 3, 6, Head(s.buf))
    BY <2>1, <2>2, <2>3 DEF Moves
  <2> QED BY <1>1, <1>2, <1>11, <2>4, MoveLocated DEF JoinsBelow, Compresses, Pipeline
<1>12. ASSUME NEW i, JoinsBeside(s, t, i) PROVE Located(t)
  <2>1. Others(c, k, 3, 7)
    BY <1>3, <1>4, <1>12, SevenAre DEF Others, JoinsBeside, Compresses, Pipeline
  <2>2. Gains(c[7], k[7], Head(s.buf))
    BY <1>3, <1>4, <1>12, BesideLists, MergedGains
  <2>3. Loses(c[3], k[3], Head(s.buf))
    BY <1>3, <1>4, <1>6, <1>12 DEF JoinsBeside, Compresses
  <2>4. Moves(c, k, 3, 7, Head(s.buf))
    BY <2>1, <2>2, <2>3 DEF Moves
  <2> QED BY <1>1, <1>2, <1>12, <2>4, MoveLocated DEF JoinsBeside, Compresses, Pipeline
<1>13. CASE GoesRound(s, t)
  <2>1. Others(c, k, 1, 3)
    BY <1>3, <1>4, <1>13, SevenAre DEF Others, GoesRound, Feeds, ListsKept
  <2>2. Head(s.queue) \in Entry
    BY <1>5, <1>13, HeadIn DEF GoesRound
  <2>3. Loses(c[1], k[1], Head(s.queue))
    BY <1>3, <1>4, <1>5, <1>13, TailLoses DEF GoesRound
  <2>4. Gains(c[3], k[3], Head(s.queue))
    BY <1>3, <1>4, <1>5, <1>13, <2>2, AppendGains DEF GoesRound
  <2>5. Moves(c, k, 1, 3, Head(s.queue))
    BY <2>1, <2>3, <2>4 DEF Moves
  <2> QED BY <1>1, <1>2, <1>13, <2>5, MoveLocated DEF GoesRound, Feeds
<1>14. CASE Runs(s, t)
  BY <1>14, RunsLocated
<1>15. CASE Arrives(s, t)
  BY <1>15, ArrivesLocated
<1> QED BY <1>7, <1>8, <1>9, <1>10, <1>11, <1>12, <1>13, <1>14, <1>15 DEF Move

-----------------------------------------------------------------------------
(* Packets: what is merged into what.                                      *)

\* Replies of one container are in no other.
LEMMA Apart ==
  ASSUME NEW s, Located(s), NEW r \in Reply
  PROVE  /\ Has(s.buf, r) => ~Has(s.rec, r) /\ ~Has(s.net, r)
         /\ \A h \in Reply : Has(s.same[h], r) =>
              /\ ~Has(s.buf, r) /\ ~Has(s.rec, r) /\ ~Has(s.net, r)
              /\ \A g \in Reply : ~Has(s.others[g], r)
         /\ \A h \in Reply : Has(s.others[h], r) =>
              ~Has(s.buf, r) /\ ~Has(s.rec, r) /\ ~Has(s.net, r)
<1>1. PICK c : c = Containers(s)
  OBVIOUS
<1>2. /\ c[3] = s.buf /\ c[4] = s.rec /\ c[5] = s.net
      /\ c[6] = Merged(s.same) /\ c[7] = Merged(s.others)
  BY <1>1, ContainersAre
<1>3. \A g, h \in 1 .. 7 : Has(c[g], r) /\ Has(c[h], r) => g = h
  BY <1>1, PlacedOnce
<1>4. Has(s.buf, r) => ~Has(s.rec, r) /\ ~Has(s.net, r)
  BY <1>2, <1>3
<1>5. ASSUME NEW h \in Reply, Has(s.same[h], r)
      PROVE  /\ ~Has(s.buf, r) /\ ~Has(s.rec, r) /\ ~Has(s.net, r)
             /\ \A g \in Reply : ~Has(s.others[g], r)
  <2>1. Has(c[6], r)
    BY <1>2, <1>5, MergedHas
  <2>2. ~Has(c[3], r) /\ ~Has(c[4], r) /\ ~Has(c[5], r) /\ ~Has(c[7], r)
    BY <1>3, <2>1
  <2> QED BY <1>2, <2>2, MergedHas
<1>6. ASSUME NEW h \in Reply, Has(s.others[h], r)
      PROVE  ~Has(s.buf, r) /\ ~Has(s.rec, r) /\ ~Has(s.net, r)
  <2>1. Has(c[7], r)
    BY <1>2, <1>6, MergedHas
  <2>2. ~Has(c[3], r) /\ ~Has(c[4], r) /\ ~Has(c[5], r)
    BY <1>3, <2>1
  <2> QED BY <1>2, <2>2
<1> QED BY <1>4, <1>5, <1>6

\* What is somewhere has arrived.
LEMMA ArrivedIs ==
  ASSUME NEW s, Located(s), NEW r \in Reply,
         \/ Has(s.rec, r) \/ Has(s.net, r) \/ Has(s.buf, r)
         \/ \E h \in Reply : Has(s.same[h], r) \/ Has(s.others[h], r)
  PROVE  r <= Len(s.arrived)
<1>1. PICK c : c = Containers(s)
  OBVIOUS
<1>2. /\ c[3] = s.buf /\ c[4] = s.rec /\ c[5] = s.net
      /\ c[6] = Merged(s.same) /\ c[7] = Merged(s.others)
  BY <1>1, ContainersAre
<1>3. \E g \in 1 .. 7 : Has(c[g], r)
  BY <1>2, MergedHas
<1> QED BY <1>1, <1>3, PlacedOnce

LEMMA ExtendsHas ==
  ASSUME NEW f, NEW g, NEW h, NEW x, Extends(f, g, h, x)
  PROVE  /\ h \in Reply /\ x \in Reply /\ g[h] # <<>>
         /\ \A k \in Reply : k # h => g[k] = f[k]
         /\ \A k, r \in Reply : Has(g[k], r) <=> Has(f[k], r) \/ (k = h /\ r = x)
<1>1. /\ h \in Reply /\ x \in Reply /\ f[h] \in Seq(Reply) /\ g[h] = Append(f[h], x)
      /\ \A k \in Reply : k # h => g[k] = f[k]
  BY DEF Extends, Lists
<1>2. Gains(f[h], g[h], x)
  BY <1>1, AppendGains
<1>3. g[h] # <<>>
  BY <1>1
<1>4. \A r \in Reply : Has(g[h], r) <=> r = x \/ Has(f[h], r)
  BY <1>2 DEF Gains
<1> QED BY <1>1, <1>3, <1>4

\* The head of a packet in the recursive compression buffer or the interconnect.
Headed(s, h) == Has(s.rec, h) \/ Has(s.net, h)

\* Only heads have replies merged into them, and those merged into a head.
Opened(s) == \A h \in Reply :
  /\ s.others[h] # <<>> => Headed(s, h)
  /\ s.same[h] # <<>> =>
       Headed(s, h) \/ \E g \in Reply : Headed(s, g) /\ Has(s.others[g], h)

\* A reply in the compression buffer has nothing merged into it.
LEMMA FreshIs ==
  ASSUME NEW s, Located(s), Opened(s), NEW m \in Reply, Has(s.buf, m)
  PROVE  s.same[m] = <<>> /\ s.others[m] = <<>>
<1>1. ~Has(s.rec, m) /\ ~Has(s.net, m)
  BY Apart
<1>2. ~Headed(s, m)
  BY <1>1 DEF Headed
<1>3. \A h \in Reply : ~Has(s.others[h], m)
  BY Apart
<1> QED BY <1>2, <1>3 DEF Opened

LEMMA HeadedStays ==
  ASSUME NEW s, Typed(s), NEW t, Move(s, t), NEW h \in Reply, Headed(s, h)
  PROVE  Headed(t, h)
<1>1. s.net \in Seq(Entry) /\ s.rec \in Seq(Entry)
  BY DEF Typed
<1>2. s.buf # <<>> => Head(s.buf) \in Entry
  BY BufHead
<1>3. CASE Sends(s, t)
  <2>1. Gains(s.net, t.net, Head(s.buf)) /\ t.rec = s.rec
    BY <1>1, <1>2, <1>3, AppendGains DEF Sends
  <2> QED BY <2>1 DEF Gains, Headed
<1>4. CASE SendsPacket(s, t)
  <2>1. Head(s.rec) \in Entry
    BY <1>1, <1>4, HeadIn DEF SendsPacket
  <2>2. Gains(s.net, t.net, Head(s.rec)) /\ Loses(s.rec, t.rec, Head(s.rec))
    BY <1>1, <1>4, <2>1, TailLoses, AppendGains DEF SendsPacket
  <2> QED BY <2>2 DEF Gains, Loses, Headed
<1>5. CASE Keeps(s, t)
  <2>1. Gains(s.rec, t.rec, Head(s.buf)) /\ t.net = s.net
    BY <1>1, <1>2, <1>5, AppendGains DEF Keeps, Compresses
  <2> QED BY <2>1 DEF Gains, Headed
<1>6. CASE t.rec = s.rec /\ t.net = s.net
  BY <1>6 DEF Headed
<1>7. ASSUME NEW i, Joins(s, t, i) PROVE t.rec = s.rec /\ t.net = s.net
  BY <1>7 DEF Joins, Compresses
<1>8. ASSUME NEW i, NEW k, JoinsBelow(s, t, i, k) PROVE t.rec = s.rec /\ t.net = s.net
  BY <1>8 DEF JoinsBelow, Compresses
<1>9. ASSUME NEW i, JoinsBeside(s, t, i) PROVE t.rec = s.rec /\ t.net = s.net
  BY <1>9 DEF JoinsBeside, Compresses
<1>10. GoesRound(s, t) \/ Runs(s, t) => t.rec = s.rec /\ t.net = s.net
  BY DEF GoesRound, Runs, Feeds
<1>11. Arrives(s, t) => t.rec = s.rec /\ t.net = s.net
  BY DEF Arrives
<1> QED BY <1>3, <1>4, <1>5, <1>6, <1>7, <1>8, <1>9, <1>10, <1>11 DEF Move

\* Moves that merge nothing.
LEMMA ListsStay ==
  ASSUME NEW s, NEW t,
         \/ Sends(s, t) \/ SendsPacket(s, t) \/ Keeps(s, t)
         \/ GoesRound(s, t) \/ Runs(s, t) \/ Arrives(s, t)
  PROVE  ListsKept(s, t)
BY DEF Sends, SendsPacket, Keeps, GoesRound, Runs, Arrives, Feeds

LEMMA MovesOpened ==
  ASSUME NEW s, Typed(s), Opened(s), NEW t, Move(s, t)
  PROVE  Opened(t)
<1>1. \A h \in Reply : Headed(s, h) => Headed(t, h)
  BY HeadedStays
<1>2. CASE ListsKept(s, t)
  BY <1>1, <1>2 DEF Opened, ListsKept
<1>3. ASSUME NEW i, Joins(s, t, i) PROVE Opened(t)
  <2>1. Extends(s.same, t.same, s.rec[i], Head(s.buf)) /\ Has(s.rec, s.rec[i])
    BY <1>3, JoinsLists
  <2>2. t.others = s.others /\ t.rec = s.rec
    BY <1>3 DEF Joins
  <2>3. s.rec[i] \in Reply /\ \A k \in Reply : k # s.rec[i] => t.same[k] = s.same[k]
    BY <2>1, ExtendsHas
  <2>4. Headed(t, s.rec[i])
    BY <2>1, <2>2 DEF Headed
  <2> QED BY <1>1, <2>2, <2>3, <2>4 DEF Opened
<1>4. ASSUME NEW i, NEW k, JoinsBelow(s, t, i, k) PROVE Opened(t)
  <2>1. /\ Extends(s.same, t.same, k, Head(s.buf)) /\ Has(s.rec, s.rec[i])
        /\ s.rec[i] \in Reply
    BY <1>4, BelowLists
  <2>2. t.others = s.others /\ t.rec = s.rec /\ Has(s.others[s.rec[i]], k)
    BY <1>4 DEF JoinsBelow
  <2>3. \A g \in Reply : g # k => t.same[g] = s.same[g]
    BY <2>1, ExtendsHas
  <2>4. Headed(t, s.rec[i])
    BY <2>1, <2>2 DEF Headed
  <2> QED BY <1>1, <2>1, <2>2, <2>3, <2>4 DEF Opened
<1>5. ASSUME NEW i, JoinsBeside(s, t, i) PROVE Opened(t)
  <2>1. Extends(s.others, t.others, s.rec[i], Head(s.buf)) /\ Has(s.rec, s.rec[i])
    BY <1>5, BesideLists
  <2>2. t.same = s.same /\ t.rec = s.rec
    BY <1>5 DEF JoinsBeside
  <2>3. s.rec[i] \in Reply /\ \A k \in Reply : k # s.rec[i] => t.others[k] = s.others[k]
    BY <2>1, ExtendsHas
  <2>4. \A k, r \in Reply : Has(s.others[k], r) => Has(t.others[k], r)
    BY <2>1, ExtendsHas
  <2>5. Headed(t, s.rec[i])
    BY <2>1, <2>2 DEF Headed
  <2> QED BY <1>1, <2>2, <2>3, <2>4, <2>5 DEF Opened
<1>6. \/ ListsKept(s, t)
      \/ \E i : Joins(s, t, i)
      \/ \E i, k : JoinsBelow(s, t, i, k)
      \/ \E i : JoinsBeside(s, t, i)
  BY ListsStay DEF Move
<1> QED BY <1>2, <1>3, <1>4, <1>5, <1>6

-----------------------------------------------------------------------------
(* Packets are separable.                                                  *)

\* r is merged into h, of its own cluster, or of another.
GoesBelow(s, h, r) ==
  /\ SMOf(s, r) = SMOf(s, h) /\ DataIn(s, h)
  /\ s.same[r] = <<>> /\ s.others[r] = <<>>

GoesBeside(s, h, r) ==
  SMOf(s, r) # SMOf(s, h) /\ DataIn(s, r) /\ s.others[r] = <<>>

Separable(s) == \A h \in Reply :
  /\ \A r \in Reply : Has(s.same[h], r) => GoesBelow(s, h, r)
  /\ \A r \in Reply : Has(s.others[h], r) => GoesBeside(s, h, r)
  /\ \A q, r \in Reply :
       Has(s.others[h], q) /\ Has(s.others[h], r) /\ SMOf(s, q) = SMOf(s, r) => q = r
  /\ s.others[h] # <<>> => s.same[h] = <<>>

LEMMA HasSome ==
  ASSUME NEW q, NEW r, Has(q, r)
  PROVE  q # <<>>
BY DEF Has

\* Heads and what is merged into them have arrived.
LEMMA MergedArrived ==
  ASSUME NEW s, Located(s), Opened(s), NEW h \in Reply, NEW r \in Reply,
         Has(s.same[h], r) \/ Has(s.others[h], r)
  PROVE  h <= Len(s.arrived) /\ r <= Len(s.arrived)
<1>1. s.same[h] # <<>> \/ s.others[h] # <<>>
  BY HasSome
<1>2. \/ Has(s.rec, h) \/ Has(s.net, h)
      \/ \E g \in Reply : Has(s.others[g], h)
  BY <1>1 DEF Opened, Headed
<1>3. h <= Len(s.arrived)
  BY <1>2, ArrivedIs
<1>4. r <= Len(s.arrived)
  BY ArrivedIs
<1> QED BY <1>3, <1>4

\* What has arrived keeps its cluster and its data.
LEMMA KeepsData ==
  ASSUME NEW s, Typed(s), NEW t, Move(s, t), NEW r \in Reply, r <= Len(s.arrived)
  PROVE  SMOf(t, r) = SMOf(s, r) /\ (DataIn(t, r) <=> DataIn(s, r))
<1>1. CASE t.arrived = s.arrived
  BY <1>1 DEF SMOf, DataIn
<1>2. CASE Arrives(s, t)
  <2>1. PICK p \in Packets : t.arrived = Append(s.arrived, p)
    BY <1>2 DEF Arrives
  <2>2. r \in 1 .. Len(s.arrived)
    BY DEF Reply, Typed
  <2>3. t.arrived[r] = s.arrived[r]
    BY <2>1, <2>2, AppendOf DEF Typed
  <2> QED BY <2>3 DEF SMOf, DataIn
<1>3. t.arrived = s.arrived \/ Arrives(s, t)
  BY DEF Move, Sends, SendsPacket, Keeps, Joins, JoinsBelow, JoinsBeside, Compresses,
         Pipeline, GoesRound, Runs, Feeds
<1> QED BY <1>1, <1>2, <1>3

LEMMA StaysSeparable ==
  ASSUME NEW s, Typed(s), Located(s), Opened(s), Separable(s), NEW t, Move(s, t),
         ListsKept(s, t)
  PROVE  Separable(t)
<1>1. t.same = s.same /\ t.others = s.others
  BY DEF ListsKept
<1> SUFFICES ASSUME NEW h \in Reply
             PROVE  /\ \A r \in Reply : Has(t.same[h], r) => GoesBelow(t, h, r)
                    /\ \A r \in Reply : Has(t.others[h], r) => GoesBeside(t, h, r)
                    /\ \A q, r \in Reply :
                         Has(t.others[h], q) /\ Has(t.others[h], r) /\ SMOf(t, q) = SMOf(t, r)
                         => q = r
                    /\ t.others[h] # <<>> => t.same[h] = <<>>
  BY DEF Separable
<1>2. ASSUME NEW r \in Reply, Has(s.same[h], r) \/ Has(s.others[h], r)
      PROVE  /\ SMOf(t, h) = SMOf(s, h) /\ (DataIn(t, h) <=> DataIn(s, h))
             /\ SMOf(t, r) = SMOf(s, r) /\ (DataIn(t, r) <=> DataIn(s, r))
  <2>1. h <= Len(s.arrived) /\ r <= Len(s.arrived)
    BY <1>2, MergedArrived
  <2> QED BY <2>1, KeepsData
<1>3. ASSUME NEW r \in Reply, Has(s.same[h], r) PROVE GoesBelow(t, h, r)
  <2>1. GoesBelow(s, h, r)
    BY <1>3 DEF Separable
  <2> QED BY <1>1, <1>2, <1>3, <2>1 DEF GoesBelow
<1>4. ASSUME NEW r \in Reply, Has(s.others[h], r) PROVE GoesBeside(t, h, r)
  <2>1. GoesBeside(s, h, r)
    BY <1>4 DEF Separable
  <2> QED BY <1>1, <1>2, <1>4, <2>1 DEF GoesBeside
<1>5. ASSUME NEW q \in Reply, NEW r \in Reply, Has(s.others[h], q), Has(s.others[h], r),
             SMOf(t, q) = SMOf(t, r)
      PROVE  q = r
  <2>1. SMOf(s, q) = SMOf(s, r)
    BY <1>2, <1>5
  <2> QED BY <1>5, <2>1 DEF Separable
<1>6. s.others[h] # <<>> => s.same[h] = <<>>
  BY DEF Separable
<1> QED BY <1>1, <1>3, <1>4, <1>5, <1>6

LEMMA JoinsSeparable ==
  ASSUME NEW s, Typed(s), Located(s), Opened(s), Separable(s), NEW t, NEW i,
         Joins(s, t, i)
  PROVE  Separable(t)
<1>1. PICK m : m = Head(s.buf)
  OBVIOUS
<1>2. PICK e : e = s.rec[i]
  OBVIOUS
<1>3. Extends(s.same, t.same, e, m) /\ e \in Reply /\ m \in Reply /\ Has(s.rec, e)
  BY <1>1, <1>2, JoinsLists
<1>4. /\ t.others = s.others /\ t.arrived = s.arrived
      /\ SMOf(s, e) = SMOf(s, m) /\ DataIn(s, e) /\ s.others[e] = <<>> /\ s.buf # <<>>
  BY <1>1, <1>2 DEF Joins, Compresses, Pipeline, HostsSame
<1>5. Has(s.buf, m)
  BY <1>1, <1>4, BufHead
<1>6. s.same[m] = <<>> /\ s.others[m] = <<>>
  BY <1>3, <1>5, FreshIs
<1>7. m # e /\ \A h \in Reply : ~Has(s.same[h], e)
  BY <1>3, <1>5, Apart
<1>8. /\ \A k \in Reply : k # e => t.same[k] = s.same[k]
      /\ \A k, r \in Reply : Has(t.same[k], r) <=> Has(s.same[k], r) \/ (k = e /\ r = m)
  BY <1>3, ExtendsHas
<1>9. \A r : SMOf(t, r) = SMOf(s, r) /\ (DataIn(t, r) <=> DataIn(s, r))
  BY <1>4 DEF SMOf, DataIn
<1> SUFFICES ASSUME NEW h \in Reply
             PROVE  /\ \A r \in Reply : Has(t.same[h], r) => GoesBelow(t, h, r)
                    /\ \A r \in Reply : Has(t.others[h], r) => GoesBeside(t, h, r)
                    /\ \A q, r \in Reply :
                         Has(t.others[h], q) /\ Has(t.others[h], r) /\ SMOf(t, q) = SMOf(t, r)
                         => q = r
                    /\ t.others[h] # <<>> => t.same[h] = <<>>
  BY DEF Separable
<1>10. ASSUME NEW r \in Reply, Has(t.same[h], r) PROVE GoesBelow(t, h, r)
  <2>1. CASE Has(s.same[h], r)
    <3>1. GoesBelow(s, h, r)
      BY <2>1 DEF Separable
    <3>2. t.same[r] = s.same[r]
      BY <1>7, <1>8, <2>1
    <3> QED BY <1>4, <1>9, <3>1, <3>2 DEF GoesBelow
  <2>2. CASE h = e /\ r = m
    <3>1. t.same[m] = <<>>
      BY <1>3, <1>6, <1>7, <1>8
    <3> QED BY <1>4, <1>6, <1>9, <2>2, <3>1 DEF GoesBelow
  <2> QED BY <1>8, <1>10, <2>1, <2>2
<1>11. ASSUME NEW r \in Reply, Has(t.others[h], r) PROVE GoesBeside(t, h, r)
  <2>1. GoesBeside(s, h, r)
    BY <1>4, <1>11 DEF Separable
  <2> QED BY <1>4, <1>9, <2>1 DEF GoesBeside
<1>12. ASSUME NEW q \in Reply, NEW r \in Reply, Has(t.others[h], q), Has(t.others[h], r),
              SMOf(t, q) = SMOf(t, r)
       PROVE  q = r
  BY <1>4, <1>9, <1>12 DEF Separable
<1>13. ASSUME t.others[h] # <<>> PROVE t.same[h] = <<>>
  <2>1. s.same[h] = <<>> /\ h # e
    BY <1>4, <1>13 DEF Separable
  <2> QED BY <1>8, <2>1
<1> QED BY <1>10, <1>11, <1>12, <1>13

LEMMA BelowSeparable ==
  ASSUME NEW s, Typed(s), Located(s), Opened(s), Separable(s), NEW t, NEW i, NEW n,
         JoinsBelow(s, t, i, n)
  PROVE  Separable(t)
<1>1. PICK m : m = Head(s.buf)
  OBVIOUS
<1>2. PICK e : e = s.rec[i]
  OBVIOUS
<1>3. /\ Extends(s.same, t.same, n, m) /\ e \in Reply /\ m \in Reply /\ n \in Reply
      /\ Has(s.rec, e)
  BY <1>1, <1>2, BelowLists
<1>4. /\ t.others = s.others /\ t.arrived = s.arrived
      /\ SMOf(s, n) = SMOf(s, m) /\ Has(s.others[e], n) /\ s.buf # <<>>
  BY <1>1, <1>2 DEF JoinsBelow, Compresses, Pipeline
<1>5. Has(s.buf, m)
  BY <1>1, <1>4, BufHead
<1>6. s.same[m] = <<>> /\ s.others[m] = <<>>
  BY <1>3, <1>5, FreshIs
<1>7. m # n /\ \A h \in Reply : ~Has(s.same[h], n)
  BY <1>3, <1>4, <1>5, Apart
<1>8. GoesBeside(s, e, n)
  BY <1>3, <1>4 DEF Separable
<1>9. DataIn(s, n) /\ s.others[n] = <<>>
  BY <1>8 DEF GoesBeside
<1>10. /\ \A k \in Reply : k # n => t.same[k] = s.same[k]
       /\ \A k, r \in Reply : Has(t.same[k], r) <=> Has(s.same[k], r) \/ (k = n /\ r = m)
  BY <1>3, ExtendsHas
<1>11. \A r : SMOf(t, r) = SMOf(s, r) /\ (DataIn(t, r) <=> DataIn(s, r))
  BY <1>4 DEF SMOf, DataIn
<1> SUFFICES ASSUME NEW h \in Reply
             PROVE  /\ \A r \in Reply : Has(t.same[h], r) => GoesBelow(t, h, r)
                    /\ \A r \in Reply : Has(t.others[h], r) => GoesBeside(t, h, r)
                    /\ \A q, r \in Reply :
                         Has(t.others[h], q) /\ Has(t.others[h], r) /\ SMOf(t, q) = SMOf(t, r)
                         => q = r
                    /\ t.others[h] # <<>> => t.same[h] = <<>>
  BY DEF Separable
<1>12. ASSUME NEW r \in Reply, Has(t.same[h], r) PROVE GoesBelow(t, h, r)
  <2>1. CASE Has(s.same[h], r)
    <3>1. GoesBelow(s, h, r)
      BY <2>1 DEF Separable
    <3>2. t.same[r] = s.same[r]
      BY <1>7, <1>10, <2>1
    <3> QED BY <1>4, <1>11, <3>1, <3>2 DEF GoesBelow
  <2>2. CASE h = n /\ r = m
    <3>1. t.same[m] = <<>>
      BY <1>3, <1>6, <1>7, <1>10
    <3> QED BY <1>4, <1>6, <1>9, <1>11, <2>2, <3>1 DEF GoesBelow
  <2> QED BY <1>10, <1>12, <2>1, <2>2
<1>13. ASSUME NEW r \in Reply, Has(t.others[h], r) PROVE GoesBeside(t, h, r)
  <2>1. GoesBeside(s, h, r)
    BY <1>4, <1>13 DEF Separable
  <2> QED BY <1>4, <1>11, <2>1 DEF GoesBeside
<1>14. ASSUME NEW q \in Reply, NEW r \in Reply, Has(t.others[h], q), Has(t.others[h], r),
              SMOf(t, q) = SMOf(t, r)
       PROVE  q = r
  BY <1>4, <1>11, <1>14 DEF Separable
<1>15. ASSUME t.others[h] # <<>> PROVE t.same[h] = <<>>
  <2>1. s.same[h] = <<>> /\ h # n
    BY <1>4, <1>9, <1>15 DEF Separable
  <2> QED BY <1>10, <2>1
<1> QED BY <1>12, <1>13, <1>14, <1>15

LEMMA BesideSeparable ==
  ASSUME NEW s, Typed(s), Located(s), Opened(s), Separable(s), NEW t, NEW i,
         JoinsBeside(s, t, i)
  PROVE  Separable(t)
<1>1. PICK m : m = Head(s.buf)
  OBVIOUS
<1>2. PICK e : e = s.rec[i]
  OBVIOUS
<1>3. Extends(s.others, t.others, e, m) /\ e \in Reply /\ m \in Reply /\ Has(s.rec, e)
  BY <1>1, <1>2, BesideLists
<1>4. /\ t.same = s.same /\ t.arrived = s.arrived /\ DataIn(s, m) /\ s.buf # <<>>
      /\ SMOf(s, e) # SMOf(s, m) /\ s.same[e] = <<>>
      /\ \A k : Has(s.others[e], k) => SMOf(s, k) # SMOf(s, m)
  BY <1>1, <1>2 DEF JoinsBeside, Compresses, Pipeline, HostsDiff
<1>5. Has(s.buf, m)
  BY <1>1, <1>4, BufHead
<1>6. s.same[m] = <<>> /\ s.others[m] = <<>>
  BY <1>3, <1>5, FreshIs
<1>7. /\ m # e
      /\ \A h \in Reply : ~Has(s.same[h], e) /\ ~Has(s.others[h], e)
      /\ \A h \in Reply : ~Has(s.same[h], m) /\ ~Has(s.others[h], m)
  BY <1>3, <1>5, Apart
<1>8. /\ \A k \in Reply : k # e => t.others[k] = s.others[k]
      /\ \A k, r \in Reply : Has(t.others[k], r) <=> Has(s.others[k], r) \/ (k = e /\ r = m)
  BY <1>3, ExtendsHas
<1>9. \A r : SMOf(t, r) = SMOf(s, r) /\ (DataIn(t, r) <=> DataIn(s, r))
  BY <1>4 DEF SMOf, DataIn
<1> SUFFICES ASSUME NEW h \in Reply
             PROVE  /\ \A r \in Reply : Has(t.same[h], r) => GoesBelow(t, h, r)
                    /\ \A r \in Reply : Has(t.others[h], r) => GoesBeside(t, h, r)
                    /\ \A q, r \in Reply :
                         Has(t.others[h], q) /\ Has(t.others[h], r) /\ SMOf(t, q) = SMOf(t, r)
                         => q = r
                    /\ t.others[h] # <<>> => t.same[h] = <<>>
  BY DEF Separable
<1>10. ASSUME NEW r \in Reply, Has(t.same[h], r) PROVE GoesBelow(t, h, r)
  <2>1. GoesBelow(s, h, r) /\ r # e
    BY <1>4, <1>7, <1>10 DEF Separable
  <2>2. t.others[r] = s.others[r]
    BY <1>8, <2>1
  <2> QED BY <1>4, <1>9, <2>1, <2>2 DEF GoesBelow
<1>11. ASSUME NEW r \in Reply, Has(t.others[h], r) PROVE GoesBeside(t, h, r)
  <2>1. CASE Has(s.others[h], r)
    <3>1. GoesBeside(s, h, r) /\ r # e
      BY <1>7, <2>1 DEF Separable
    <3>2. t.others[r] = s.others[r]
      BY <1>8, <3>1
    <3> QED BY <1>9, <3>1, <3>2 DEF GoesBeside
  <2>2. CASE h = e /\ r = m
    <3>1. t.others[m] = <<>>
      BY <1>3, <1>6, <1>7, <1>8
    <3> QED BY <1>4, <1>9, <2>2, <3>1 DEF GoesBeside
  <2> QED BY <1>8, <1>11, <2>1, <2>2
<1>12. ASSUME NEW q \in Reply, NEW r \in Reply, Has(t.others[h], q), Has(t.others[h], r),
              SMOf(t, q) = SMOf(t, r)
       PROVE  q = r
  <2>1. SMOf(s, q) = SMOf(s, r)
    BY <1>9, <1>12
  <2>2. \/ Has(s.others[h], q) /\ Has(s.others[h], r)
        \/ h = e /\ q = m /\ Has(s.others[e], r)
        \/ h = e /\ r = m /\ Has(s.others[e], q)
        \/ q = m /\ r = m
    BY <1>8, <1>12
  <2>3. CASE Has(s.others[h], q) /\ Has(s.others[h], r)
    BY <2>1, <2>3 DEF Separable
  <2> QED BY <1>4, <2>1, <2>2, <2>3
<1>13. ASSUME t.others[h] # <<>> PROVE t.same[h] = <<>>
  <2>1. CASE h = e
    BY <1>4, <2>1
  <2>2. CASE h # e
    <3>1. s.others[h] # <<>>
      BY <1>8, <1>13, <2>2
    <3> QED BY <1>4, <3>1 DEF Separable
  <2> QED BY <2>1, <2>2
<1> QED BY <1>10, <1>11, <1>12, <1>13

LEMMA MovesSeparable ==
  ASSUME NEW s, Typed(s), Located(s), Opened(s), Separable(s), NEW t, Move(s, t)
  PROVE  Separable(t)
<1>1. \/ ListsKept(s, t)
      \/ \E i : Joins(s, t, i)
      \/ \E i, k : JoinsBelow(s, t, i, k)
      \/ \E i : JoinsBeside(s, t, i)
  BY ListsStay DEF Move
<1>2. CASE ListsKept(s, t)
  BY <1>2, StaysSeparable
<1>3. ASSUME NEW i, Joins(s, t, i) PROVE Separable(t)
  BY <1>3, JoinsSeparable
<1>4. ASSUME NEW i, NEW k, JoinsBelow(s, t, i, k) PROVE Separable(t)
  BY <1>4, BelowSeparable
<1>5. ASSUME NEW i, JoinsBeside(s, t, i) PROVE Separable(t)
  BY <1>5, BesideSeparable
<1> QED BY <1>1, <1>2, <1>3, <1>4, <1>5

-----------------------------------------------------------------------------
(* Buffers keep their sizes.                                               *)

LEMMA HeldAt ==
  ASSUME NEW s
  PROVE  /\ \A i, d : <<i, d>> \in HeldSet(s) <=>
               i \in DOMAIN s.rec /\ d \in 0 .. BelowIn(s, s.rec[i])
         /\ \A p \in HeldSet(s) : p = <<p[1], p[2]>>
BY DEF HeldSet

Room(s) == IsFiniteSet(HeldSet(s)) /\ HeldIn(s) <= RecSize

\* One more of the replies counted.
LEMMA HeldGrows ==
  ASSUME NEW s, Room(s), HeldIn(s) < RecSize, NEW t, NEW p,
         HeldSet(t) \subseteq HeldSet(s) \cup {p}
  PROVE  Room(t)
<1>1. PICK S : S = HeldSet(s)
  OBVIOUS
<1>2. IsFiniteSet(S) /\ Cardinality(S) < RecSize
  BY <1>1 DEF Room, HeldIn
<1>3. Cardinality(S) \in Nat
  BY <1>2, FS_CardinalityType
<1>4. /\ IsFiniteSet(S \cup {p})
      /\ Cardinality(S \cup {p}) = IF p \in S THEN Cardinality(S) ELSE Cardinality(S) + 1
  BY <1>2, FS_AddElement
<1>5. PICK T : T = HeldSet(t)
  OBVIOUS
<1>6. T \in SUBSET (S \cup {p})
  BY <1>1, <1>5
<1>7. IsFiniteSet(T) /\ Cardinality(T) <= Cardinality(S \cup {p})
  BY <1>4, <1>6, FS_Subset
<1>8. Cardinality(T) \in Nat
  BY <1>7, FS_CardinalityType
<1>9. Cardinality(T) <= RecSize
  BY <1>2, <1>3, <1>4, <1>7, <1>8, StagesIs
<1> QED BY <1>5, <1>7, <1>9 DEF Room, HeldIn

LEMMA SendsRoom ==
  ASSUME NEW s, Typed(s), Room(s), NEW t, SendsPacket(s, t)
  PROVE  Room(t)
<1>1. PICK S : S = HeldSet(s)
  OBVIOUS
<1>2. PICK T : T = HeldSet(t)
  OBVIOUS
<1>3. PICK n : n = Len(s.rec)
  OBVIOUS
<1>4. /\ n \in Nat /\ DOMAIN s.rec = 1 .. n /\ DOMAIN t.rec = 1 .. (n - 1)
      /\ \A i \in 1 .. (n - 1) : t.rec[i] = s.rec[i + 1]
  BY <1>3, TailOf DEF SendsPacket, Typed
<1>5. \A m : BelowIn(t, m) = BelowIn(s, m)
  BY DEF BelowIn, SendsPacket, ListsKept
<1>6. \A p \in T : p = <<p[1], p[2]>> /\ p[1] \in 1 .. (n - 1) /\ p[2] \in 0 .. BelowIn(s, s.rec[p[1] + 1])
  BY <1>2, <1>4, <1>5, HeldAt
<1>7. \A p \in T : <<p[1] + 1, p[2]>> \in S
  <2> SUFFICES ASSUME NEW p \in T PROVE <<p[1] + 1, p[2]>> \in S
    OBVIOUS
  <2>1. p[1] + 1 \in DOMAIN s.rec /\ p[2] \in 0 .. BelowIn(s, s.rec[p[1] + 1])
    BY <1>4, <1>6
  <2> QED BY <1>1, <2>1, HeldAt
<1>8. PICK f : f = [p \in T |-> <<p[1] + 1, p[2]>>]
  OBVIOUS
<1>9. f \in [T -> S]
  BY <1>7, <1>8
<1>10. ASSUME NEW p \in T, NEW u \in T, f[p] = f[u] PROVE p = u
  <2>1. p[1] + 1 = u[1] + 1 /\ p[2] = u[2]
    BY <1>8, <1>10
  <2>2. p[1] \in Int /\ u[1] \in Int
    BY <1>6
  <2>3. p[1] = u[1]
    BY <2>1, <2>2
  <2> QED BY <1>6, <2>1, <2>3
<1>11. f \in Injection(T, S)
  BY <1>9, <1>10 DEF Injection, IsInjective
<1>12. IsFiniteSet(S) /\ Cardinality(S) <= RecSize
  BY <1>1 DEF Room, HeldIn
<1>13. IsFiniteSet(T) /\ Cardinality(T) <= Cardinality(S)
  BY <1>11, <1>12, FS_Injection
<1>14. Cardinality(T) \in Nat /\ Cardinality(S) \in Nat
  BY <1>12, <1>13, FS_CardinalityType
<1>15. Cardinality(T) <= RecSize
  BY <1>12, <1>13, <1>14, StagesIs
<1> QED BY <1>2, <1>13, <1>15 DEF Room, HeldIn

LEMMA KeepsRoom ==
  ASSUME NEW s, Typed(s), Located(s), Opened(s), Room(s), NEW t, Keeps(s, t)
  PROVE  Room(t)
<1>1. PICK m : m = Head(s.buf)
  OBVIOUS
<1>2. PICK n : n = Len(s.rec)
  OBVIOUS
<1>3. m \in Entry /\ Has(s.buf, m) /\ HeldIn(s) < RecSize
  BY <1>1, BufHead DEF Keeps, Compresses
<1>4. /\ n \in Nat /\ DOMAIN s.rec = 1 .. n /\ DOMAIN t.rec = 1 .. (n + 1)
      /\ t.rec[n + 1] = m /\ \A i \in 1 .. n : t.rec[i] = s.rec[i]
  BY <1>1, <1>2, <1>3, AppendOf DEF Keeps, Typed
<1>5. \A x : BelowIn(t, x) = BelowIn(s, x)
  BY DEF BelowIn, Keeps, ListsKept
<1>6. BelowIn(s, m) = 0
  <2>1. CASE m = Control
    BY <2>1 DEF BelowIn
  <2>2. CASE m # Control
    <3>1. m \in Reply
      BY <1>3, <2>2 DEF Entry
    <3>2. s.same[m] = <<>> /\ s.others[m] = <<>>
      BY <1>3, <3>1, FreshIs
    <3> QED BY <2>2, <3>2 DEF BelowIn
  <2> QED BY <2>1, <2>2
<1>7. HeldSet(t) \subseteq HeldSet(s) \cup {<<n + 1, 0>>}
  <2> SUFFICES ASSUME NEW p \in HeldSet(t)
               PROVE  p \in HeldSet(s) \/ p = <<n + 1, 0>>
    OBVIOUS
  <2>1. p = <<p[1], p[2]>>
    BY HeldAt
  <2>2. p[1] \in 1 .. (n + 1) /\ p[2] \in 0 .. BelowIn(s, t.rec[p[1]])
    BY <1>4, <1>5, <2>1, HeldAt
  <2>3. CASE p[1] = n + 1
    <3>1. p[2] \in 0 .. 0
      BY <1>4, <1>6, <2>2, <2>3
    <3>2. p[2] = 0
      BY <3>1
    <3> QED BY <2>1, <2>3, <3>2
  <2>4. CASE p[1] # n + 1
    <3>1. p[1] \in 1 .. n
      BY <1>4, <2>2, <2>4
    <3>2. p[1] \in DOMAIN s.rec /\ p[2] \in 0 .. BelowIn(s, s.rec[p[1]])
      BY <1>4, <2>2, <3>1
    <3> QED BY <2>1, <3>2, HeldAt
  <2> QED BY <2>3, <2>4
<1> QED BY <1>3, <1>7, HeldGrows

\* What has one more merged into it is one entry of the buffer.
LEMMA MergesRoom ==
  ASSUME NEW s, Typed(s), Located(s), Room(s), NEW t, t.rec = s.rec,
         HeldIn(s) < RecSize,
         NEW e \in Reply, \A x \in Entry : x # e => BelowIn(t, x) = BelowIn(s, x),
         BelowIn(s, e) \in Nat, BelowIn(t, e) = BelowIn(s, e) + 1,
         NEW j \in DOMAIN s.rec, s.rec[j] = e
  PROVE  Room(t)
<1>1. Single(s.rec, e)
  <2>1. PICK c : c = Containers(s)
    OBVIOUS
  <2>2. c[4] = s.rec /\ Has(c[4], e)
    BY <2>1, ContainersAre DEF Has
  <2>3. Single(c[4], e)
    BY <2>1, <2>2, PlacedOnce
  <2> QED BY <2>2, <2>3
<1>2. PICK d : d = BelowIn(s, e)
  OBVIOUS
<1>3. d \in Nat /\ BelowIn(t, e) = d + 1
  BY <1>2
<1>4. HeldSet(t) \subseteq HeldSet(s) \cup {<<j, d + 1>>}
  <2> SUFFICES ASSUME NEW p \in HeldSet(t)
               PROVE  p \in HeldSet(s) \/ p = <<j, d + 1>>
    OBVIOUS
  <2>1. p = <<p[1], p[2]>>
    BY HeldAt
  <2>2. p[1] \in DOMAIN s.rec /\ p[2] \in 0 .. BelowIn(t, s.rec[p[1]])
    BY <2>1, HeldAt
  <2>3. CASE s.rec[p[1]] = e
    <3>1. p[1] = j
      BY <1>1, <2>2, <2>3 DEF Single
    <3>2. p[2] \in 0 .. (d + 1)
      BY <1>3, <2>2, <2>3
    <3>3. p[2] = d + 1 \/ p[2] \in 0 .. d
      BY <1>3, <3>2
    <3>4. p[2] \in 0 .. d => <<p[1], p[2]>> \in HeldSet(s)
      BY <1>2, <2>2, <2>3, HeldAt
    <3> QED BY <2>1, <3>1, <3>3, <3>4
  <2>4. CASE s.rec[p[1]] # e
    <3>1. s.rec[p[1]] \in Entry
      BY <2>2 DEF Typed
    <3>2. p[2] \in 0 .. BelowIn(s, s.rec[p[1]])
      BY <2>2, <2>4, <3>1
    <3> QED BY <2>1, <2>2, <3>2, HeldAt
  <2> QED BY <2>3, <2>4
<1> QED BY <1>4, HeldGrows

LEMMA BelowIs ==
  ASSUME NEW s, Typed(s), NEW h \in Reply
  PROVE  /\ BelowIn(s, h) = Len(s.same[h]) + Len(s.others[h])
         /\ Len(s.same[h]) \in Nat /\ Len(s.others[h]) \in Nat
<1>1. s.same[h] \in Seq(Reply) /\ s.others[h] \in Seq(Reply)
  BY DEF Typed, Lists
<1>2. Len(s.same[h]) \in Nat /\ Len(s.others[h]) \in Nat
  BY <1>1
<1>3. h # Control
  BY NamesDiffer
<1> QED BY <1>2, <1>3 DEF BelowIn

LEMMA ExtendsLen ==
  ASSUME NEW f, NEW g, NEW h, NEW x, Extends(f, g, h, x)
  PROVE  Len(g[h]) = Len(f[h]) + 1
<1>1. f[h] \in Seq(Reply) /\ x \in Reply /\ g[h] = Append(f[h], x)
  BY DEF Extends, Lists
<1> QED BY <1>1, AppendOf

\* Room depends on the recursive compression buffer and on what is merged
\* into its entries.
LEMMA SameRoom ==
  ASSUME NEW s, Room(s), NEW t, t.rec = s.rec,
         \A i \in DOMAIN s.rec : BelowIn(t, s.rec[i]) = BelowIn(s, s.rec[i])
  PROVE  Room(t)
<1>1. HeldSet(t) = HeldSet(s)
  BY DEF HeldSet
<1> QED BY <1>1 DEF Room, HeldIn

LEMMA MovesRoom ==
  ASSUME NEW s, Typed(s), Located(s), Opened(s), Room(s), NEW t, Typed(t), Move(s, t)
  PROVE  Room(t)
<1>1. CASE SendsPacket(s, t)
  BY <1>1, SendsRoom
<1>2. CASE Keeps(s, t)
  BY <1>2, KeepsRoom
<1>3. ASSUME NEW i, Joins(s, t, i) PROVE Room(t)
  <2>1. PICK e : e = s.rec[i]
    OBVIOUS
  <2>2. Extends(s.same, t.same, e, Head(s.buf)) /\ e \in Reply
    BY <1>3, <2>1, JoinsLists
  <2>3. /\ t.rec = s.rec /\ t.others = s.others /\ HeldIn(s) < RecSize
        /\ i \in DOMAIN s.rec
    BY <1>3 DEF Joins, Compresses, HostsSame
  <2>4. \A k \in Reply : k # e => t.same[k] = s.same[k]
    BY <2>2, ExtendsHas
  <2>5. \A x \in Entry : x # e => BelowIn(t, x) = BelowIn(s, x)
    BY <2>3, <2>4 DEF BelowIn, Entry
  <2>6. /\ BelowIn(s, e) = Len(s.same[e]) + Len(s.others[e])
        /\ Len(s.same[e]) \in Nat /\ Len(s.others[e]) \in Nat
        /\ BelowIn(t, e) = Len(t.same[e]) + Len(t.others[e])
    BY <2>2, BelowIs
  <2>7. Len(t.same[e]) = Len(s.same[e]) + 1
    BY <2>2, ExtendsLen
  <2>8. Len(t.others[e]) = Len(s.others[e])
    BY <2>3
  <2>9. BelowIn(s, e) \in Nat /\ BelowIn(t, e) = BelowIn(s, e) + 1
    <3>1. PICK a \in Nat : a = Len(s.same[e])
      BY <2>6
    <3>2. PICK b \in Nat : b = Len(s.others[e])
      BY <2>6
    <3>3. BelowIn(s, e) = a + b
      BY <2>6, <3>1, <3>2
    <3>4. BelowIn(t, e) = (a + 1) + b
      BY <2>6, <2>7, <2>8, <3>1, <3>2
    <3> QED BY <3>3, <3>4
  <2> QED BY <2>1, <2>2, <2>3, <2>5, <2>9, MergesRoom
<1>4. ASSUME NEW i, NEW k, JoinsBelow(s, t, i, k) PROVE Room(t)
  <2>1. Extends(s.same, t.same, k, Head(s.buf)) /\ s.rec[i] \in Reply /\ k \in Reply
    BY <1>4, BelowLists
  <2>2. t.rec = s.rec /\ t.others = s.others /\ Has(s.others[s.rec[i]], k)
    BY <1>4 DEF JoinsBelow
  <2>3. ~Has(s.rec, k)
    BY <2>1, <2>2, Apart
  <2>4. \A x \in Reply : x # k => t.same[x] = s.same[x]
    BY <2>1, ExtendsHas
  <2>5. ASSUME NEW j \in DOMAIN s.rec PROVE BelowIn(t, s.rec[j]) = BelowIn(s, s.rec[j])
    <3>1. s.rec[j] \in Entry
      BY DEF Typed
    <3>2. s.rec[j] # k
      BY <2>3 DEF Has
    <3> QED BY <2>2, <2>4, <3>1, <3>2 DEF BelowIn, Entry
  <2> QED BY <2>2, <2>5, SameRoom
<1>5. ASSUME NEW i, JoinsBeside(s, t, i) PROVE Room(t)
  <2>1. PICK e : e = s.rec[i]
    OBVIOUS
  <2>2. Extends(s.others, t.others, e, Head(s.buf)) /\ e \in Reply
    BY <1>5, <2>1, BesideLists
  <2>3. /\ t.rec = s.rec /\ t.same = s.same /\ HeldIn(s) < RecSize
        /\ i \in DOMAIN s.rec
    BY <1>5 DEF JoinsBeside, Compresses, HostsDiff
  <2>4. \A k \in Reply : k # e => t.others[k] = s.others[k]
    BY <2>2, ExtendsHas
  <2>5. \A x \in Entry : x # e => BelowIn(t, x) = BelowIn(s, x)
    BY <2>3, <2>4 DEF BelowIn, Entry
  <2>6. /\ BelowIn(s, e) = Len(s.same[e]) + Len(s.others[e])
        /\ Len(s.same[e]) \in Nat /\ Len(s.others[e]) \in Nat
        /\ BelowIn(t, e) = Len(t.same[e]) + Len(t.others[e])
    BY <2>2, BelowIs
  <2>7. Len(t.others[e]) = Len(s.others[e]) + 1
    BY <2>2, ExtendsLen
  <2>8. Len(t.same[e]) = Len(s.same[e])
    BY <2>3
  <2>9. BelowIn(s, e) \in Nat /\ BelowIn(t, e) = BelowIn(s, e) + 1
    <3>1. PICK a \in Nat : a = Len(s.same[e])
      BY <2>6
    <3>2. PICK b \in Nat : b = Len(s.others[e])
      BY <2>6
    <3>3. BelowIn(s, e) = a + b
      BY <2>6, <3>1, <3>2
    <3>4. BelowIn(t, e) = a + (b + 1)
      BY <2>6, <2>7, <2>8, <3>1, <3>2
    <3> QED BY <3>3, <3>4
  <2> QED BY <2>1, <2>2, <2>3, <2>5, <2>9, MergesRoom
<1>6. ASSUME t.rec = s.rec, ListsKept(s, t) PROVE Room(t)
  <2>1. \A x : BelowIn(t, x) = BelowIn(s, x)
    BY <1>6 DEF BelowIn, ListsKept
  <2> QED BY <1>6, <2>1, SameRoom
<1>7. Sends(s, t) \/ GoesRound(s, t) \/ Runs(s, t) \/ Arrives(s, t)
      => t.rec = s.rec /\ ListsKept(s, t)
  BY DEF Sends, GoesRound, Runs, Feeds, Arrives
<1> QED BY <1>1, <1>2, <1>3, <1>4, <1>5, <1>6, <1>7 DEF Move

\* The compression buffer.
BufBound(s) == BufferSize + (IF s.announced THEN 1 ELSE 0)
BufBounded(s) == Len(s.buf) <= BufBound(s)

LEMMA MovesBufBounded ==
  ASSUME NEW s, Typed(s), BufBounded(s), NEW t, Move(s, t)
  PROVE  BufBounded(t)
<1>1. s.buf \in Seq(Entry) /\ Len(s.buf) \in Nat
  BY DEF Typed
<1>2. BufBound(s) \in Nat /\ BufBound(s) >= BufferSize
  BY StagesIs DEF BufBound
<1>3. BufBound(t) = BufBound(s)
  BY DEF BufBound, Move, Sends, SendsPacket, Keeps, Joins, JoinsBelow, JoinsBeside, Compresses,
         GoesRound, Runs, Feeds, Arrives, Config
<1>4. CASE t.buf = s.buf
  BY <1>3, <1>4 DEF BufBounded
<1>5. CASE s.buf # <<>> /\ t.buf = Tail(s.buf)
  <2>1. Len(t.buf) = Len(s.buf) - 1
    BY <1>1, <1>5, TailOf
  <2> QED BY <1>1, <1>2, <1>3, <2>1 DEF BufBounded
<1>6. CASE GoesRound(s, t)
  <2>1. Head(s.queue) \in Entry
    BY <1>6, HeadIn DEF GoesRound, Typed, Entry
  <2>2. Len(t.buf) = Len(s.buf) + 1
    BY <1>1, <1>6, <2>1, AppendOf DEF GoesRound
  <2>3. Len(s.buf) < BufferSize
    BY <1>6 DEF GoesRound, Feeds
  <2> QED BY <1>1, <1>2, <1>3, <2>2, <2>3, StagesIs DEF BufBounded
<1>7. CASE Runs(s, t)
  <2>1. PICK x : x = OutputOf(s)
    OBVIOUS
  <2>2. /\ x = None => t.buf = s.buf
        /\ x # None /\ ~s.announced => t.buf = Append(s.buf, x)
        /\ x # None /\ s.announced => t.buf = Append(Append(s.buf, Control), x)
        /\ x # None => x \in Reply
    BY <1>7, <2>1, RunsPush
  <2>3. Reply \subseteq Entry /\ Control \in Entry
    BY DEF Entry
  <2>4. Append(s.buf, Control) \in Seq(Entry) /\ Len(Append(s.buf, Control)) = Len(s.buf) + 1
    BY <1>1, <2>3, AppendOf
  <2>5. x # None /\ ~s.announced => Len(t.buf) = Len(s.buf) + 1
    BY <1>1, <2>2, <2>3, AppendOf
  <2>6. x # None /\ s.announced => Len(t.buf) = (Len(s.buf) + 1) + 1
    BY <2>2, <2>3, <2>4, AppendOf
  <2>7. Len(s.buf) < BufferSize
    BY <1>7 DEF Runs, Feeds
  <2>8. BufBound(s) = BufferSize + (IF s.announced THEN 1 ELSE 0)
    BY DEF BufBound
  <2>9. CASE x = None
    BY <1>4, <2>2, <2>9
  <2>10. CASE x # None /\ ~s.announced
    BY <1>1, <1>3, <2>5, <2>7, <2>8, <2>10, StagesIs DEF BufBounded
  <2>11. CASE x # None /\ s.announced
    BY <1>1, <1>3, <2>6, <2>7, <2>8, <2>11, StagesIs DEF BufBounded
  <2> QED BY <2>9, <2>10, <2>11
<1>8. SendsPacket(s, t) \/ Arrives(s, t) => t.buf = s.buf
  BY DEF SendsPacket, Arrives
<1>9. Sends(s, t) => s.buf # <<>> /\ t.buf = Tail(s.buf)
  BY DEF Sends
<1>10. Compresses(s, t) => s.buf # <<>> /\ t.buf = Tail(s.buf)
  BY DEF Compresses
<1>11. Keeps(s, t) \/ (\E i : Joins(s, t, i)) \/ (\E i, k : JoinsBelow(s, t, i, k))
       \/ (\E i : JoinsBeside(s, t, i)) => Compresses(s, t)
  BY DEF Keeps, Joins, JoinsBelow, JoinsBeside
<1> QED BY <1>4, <1>5, <1>6, <1>7, <1>8, <1>9, <1>10, <1>11 DEF Move

-----------------------------------------------------------------------------
(* What the algorithms do not do, and what the pipeline carries.           *)

InPipeline(s) == \A i \in 1 .. Stages - 1 :
  s.stage[i] # None => s.stage[i] \in Reply /\ DataIn(s, s.stage[i])

Modes(s) ==
  /\ s.merging = "off" => s.rec = <<>> /\ \A h \in Reply : s.same[h] = <<>>
  /\ s.merging \in {"off", "same"} => \A h \in Reply : s.others[h] = <<>>
  /\ InPipeline(s)

LEMMA MovesConfig ==
  ASSUME NEW s, NEW t, Move(s, t)
  PROVE  Config(s, t)
BY DEF Move, Sends, SendsPacket, Keeps, Joins, JoinsBelow, JoinsBeside, Compresses,
       GoesRound, Runs, Feeds, Arrives

LEMMA MovesInPipeline ==
  ASSUME NEW s, Typed(s), Located(s), InPipeline(s), NEW t, Move(s, t)
  PROVE  InPipeline(t)
<1>1. CASE Runs(s, t)
  <2>1. t.arrived = s.arrived /\ t.stage = [i \in 1 .. Stages - 1 |->
          IF i = 1 THEN InputOf(s) ELSE s.stage[i - 1]]
    BY <1>1 DEF Runs, Feeds
  <2>2. InputOf(s) # None => InputOf(s) \in Reply /\ DataIn(s, InputOf(s))
    BY <1>1, HeadIn DEF Runs, InputOf, Typed
  <2>3. \A m : DataIn(t, m) <=> DataIn(s, m)
    BY <2>1 DEF DataIn
  <2>4. ASSUME NEW i \in 1 .. Stages - 1, t.stage[i] # None
        PROVE  t.stage[i] \in Reply /\ DataIn(t, t.stage[i])
    <3>1. CASE i = 1
      BY <2>1, <2>2, <2>3, <2>4, <3>1
    <3>2. CASE i # 1
      <4>1. i - 1 \in 1 .. Stages - 1 /\ t.stage[i] = s.stage[i - 1]
        BY <2>1, <2>4, <3>2, StagesIs
      <4> QED BY <2>3, <2>4, <4>1 DEF InPipeline
    <3> QED BY <3>1, <3>2
  <2> QED BY <2>4 DEF InPipeline
<1>2. CASE t.stage = s.stage
  <2> SUFFICES ASSUME NEW i \in 1 .. Stages - 1, s.stage[i] # None
               PROVE  s.stage[i] \in Reply /\ DataIn(t, s.stage[i])
    BY <1>2 DEF InPipeline
  <2>1. s.stage[i] \in Reply /\ DataIn(s, s.stage[i])
    BY DEF InPipeline
  <2>2. Has(s.stage, s.stage[i])
    BY DEF Has, Typed
  <2>3. Has(Containers(s)[2], s.stage[i])
    BY <2>2, ContainersAre
  <2>4. s.stage[i] <= Len(s.arrived)
    BY <2>1, <2>3, PlacedOnce
  <2> QED BY <2>1, <2>4, KeepsData
<1>3. Runs(s, t) \/ t.stage = s.stage
  BY DEF Move, Sends, SendsPacket, Keeps, Joins, JoinsBelow, JoinsBeside, Compresses,
         Pipeline, GoesRound, Arrives
<1> QED BY <1>1, <1>2, <1>3

LEMMA MovesModes ==
  ASSUME NEW s, Typed(s), Located(s), Modes(s), NEW t, Move(s, t)
  PROVE  Modes(t)
<1>1. InPipeline(t)
  BY MovesInPipeline DEF Modes
<1>2. t.merging = s.merging
  BY MovesConfig DEF Config
<1>3. ASSUME s.merging = "off" PROVE t.rec = <<>> /\ \A h \in Reply : t.same[h] = <<>>
  <2>1. t.rec = s.rec /\ t.same = s.same
    BY <1>3 DEF Move, Sends, SendsPacket, Keeps, Joins, JoinsBelow, JoinsBeside, Compresses,
                ListsKept, GoesRound, Runs, Feeds, Arrives
  <2> QED BY <1>3, <2>1 DEF Modes
<1>4. ASSUME s.merging \in {"off", "same"} PROVE \A h \in Reply : t.others[h] = <<>>
  <2>1. t.others = s.others
    BY <1>4 DEF Move, Sends, SendsPacket, Keeps, Joins, JoinsBelow, JoinsBeside,
                ListsKept, GoesRound, Runs, Feeds, Arrives
  <2> QED BY <1>4, <2>1 DEF Modes
<1> QED BY <1>1, <1>2, <1>3, <1>4 DEF Modes

-----------------------------------------------------------------------------
(* Order, where no multicast packet overtakes: from the interconnect back  *)
(* to the queue, the replies to a cluster are younger and younger.         *)

Row(s) == <<s.net, s.rec, s.buf, s.stage, s.queue>>
Slots(s) == UNION {{l} \X DOMAIN Row(s)[l] : l \in 1 .. 5}
At(s, p) == Row(s)[p[1]][p[2]]

\* Later stages are further on their way.
Precedes(p, u) ==
  p[1] < u[1] \/ (p[1] = u[1] /\ IF p[1] = 4 THEN u[2] < p[2] ELSE p[2] < u[2])

Carries(s, m, r) == r = m \/ (m \in Reply /\ Has(s.same[m], r))

Alike(s, r, q) == DataIn(s, r) /\ DataIn(s, q) /\ SMOf(s, r) = SMOf(s, q)

\* Younger replies are behind, or below an older one.
Ordered(s) == \A p, u \in Slots(s) : \A r, q \in Reply :
  Precedes(p, u) /\ Carries(s, At(s, p), r) /\ Carries(s, At(s, u), q) /\ Alike(s, r, q)
  => r < q

Listed(s) == \A h \in Reply : \A i \in DOMAIN s.same[h] :
  /\ DataIn(s, s.same[h][i]) => h < s.same[h][i]
  /\ \A j \in DOMAIN s.same[h] :
       i < j /\ DataIn(s, s.same[h][i]) /\ DataIn(s, s.same[h][j])
       => s.same[h][i] < s.same[h][j]

InOrder(s) == s.merging \in {"off", "same"} => Ordered(s) /\ Listed(s)

LEMMA SlotsAre ==
  ASSUME NEW s
  PROVE  /\ Row(s)[1] = s.net /\ Row(s)[2] = s.rec /\ Row(s)[3] = s.buf
         /\ Row(s)[4] = s.stage /\ Row(s)[5] = s.queue
         /\ \A l, i : <<l, i>> \in Slots(s) <=> l \in 1 .. 5 /\ i \in DOMAIN Row(s)[l]
         /\ \A p \in Slots(s) : p = <<p[1], p[2]>> /\ p[1] \in 1 .. 5 /\ p[2] \in DOMAIN Row(s)[p[1]]
BY DEF Row, Slots

\* The slots and their levels.
LEMMA SlotCases ==
  ASSUME NEW s, NEW p \in Slots(s)
  PROVE  /\ p = <<p[1], p[2]>> /\ p[1] \in 1 .. 5
         /\ p[1] = 1 => p[2] \in DOMAIN s.net /\ At(s, p) = s.net[p[2]]
         /\ p[1] = 2 => p[2] \in DOMAIN s.rec /\ At(s, p) = s.rec[p[2]]
         /\ p[1] = 3 => p[2] \in DOMAIN s.buf /\ At(s, p) = s.buf[p[2]]
         /\ p[1] = 4 => p[2] \in DOMAIN s.stage /\ At(s, p) = s.stage[p[2]]
         /\ p[1] = 5 => p[2] \in DOMAIN s.queue /\ At(s, p) = s.queue[p[2]]
BY SlotsAre DEF At

LEMMA SlotIn ==
  ASSUME NEW s, NEW i
  PROVE  /\ i \in DOMAIN s.net => <<1, i>> \in Slots(s) /\ At(s, <<1, i>>) = s.net[i]
         /\ i \in DOMAIN s.rec => <<2, i>> \in Slots(s) /\ At(s, <<2, i>>) = s.rec[i]
         /\ i \in DOMAIN s.buf => <<3, i>> \in Slots(s) /\ At(s, <<3, i>>) = s.buf[i]
         /\ i \in DOMAIN s.stage => <<4, i>> \in Slots(s) /\ At(s, <<4, i>>) = s.stage[i]
         /\ i \in DOMAIN s.queue => <<5, i>> \in Slots(s) /\ At(s, <<5, i>>) = s.queue[i]
<1>1. \A l \in 1 .. 5 : i \in DOMAIN Row(s)[l] =>
         <<l, i>> \in Slots(s) /\ At(s, <<l, i>>) = Row(s)[l][i]
  BY SlotsAre DEF At
<1>2. /\ Row(s)[1] = s.net /\ Row(s)[2] = s.rec /\ Row(s)[3] = s.buf
      /\ Row(s)[4] = s.stage /\ Row(s)[5] = s.queue
  BY SlotsAre
<1>3. 1 \in 1 .. 5 /\ 2 \in 1 .. 5 /\ 3 \in 1 .. 5 /\ 4 \in 1 .. 5 /\ 5 \in 1 .. 5
  OBVIOUS
<1> QED BY <1>1, <1>2, <1>3

LEMMA DomainsAre ==
  ASSUME NEW s, Typed(s)
  PROVE  /\ DOMAIN s.net = 1 .. Len(s.net) /\ Len(s.net) \in Nat
         /\ DOMAIN s.rec = 1 .. Len(s.rec) /\ Len(s.rec) \in Nat
         /\ DOMAIN s.buf = 1 .. Len(s.buf) /\ Len(s.buf) \in Nat
         /\ DOMAIN s.stage = 1 .. (Stages - 1)
         /\ DOMAIN s.queue = 1 .. Len(s.queue) /\ Len(s.queue) \in Nat
BY DEF Typed

\* Slots that hold a reply with data.
Full(s, p) == At(s, p) \in Reply /\ DataIn(s, At(s, p))

\* Every reply of t was already behind those it is behind in t.
Back(s, t, f) ==
  /\ \A p \in Slots(t) : Full(t, p) => f[p] \in Slots(s) /\ At(s, f[p]) = At(t, p)
  /\ \A p, u \in Slots(t) :
       Full(t, p) /\ Full(t, u) /\ Precedes(p, u) => Precedes(f[p], f[u])

LEMMA CarriesFull ==
  ASSUME NEW s, Separable(s), NEW p, NEW r \in Reply, Carries(s, At(s, p), r), DataIn(s, r)
  PROVE  Full(s, p)
BY DEF Carries, Full, Separable, GoesBelow

LEMMA OrderedBack ==
  ASSUME NEW s, Ordered(s), Separable(s), NEW t, t.arrived = s.arrived, t.same = s.same,
         Separable(t), NEW f, Back(s, t, f)
  PROVE  Ordered(t)
<1> SUFFICES ASSUME NEW p \in Slots(t), NEW u \in Slots(t), NEW r \in Reply, NEW q \in Reply,
                    Precedes(p, u), Carries(t, At(t, p), r), Carries(t, At(t, u), q),
                    Alike(t, r, q)
             PROVE  r < q
  BY DEF Ordered
<1>1. Full(t, p) /\ Full(t, u)
  BY CarriesFull DEF Alike
<1>2. /\ f[p] \in Slots(s) /\ At(s, f[p]) = At(t, p)
      /\ f[u] \in Slots(s) /\ At(s, f[u]) = At(t, u) /\ Precedes(f[p], f[u])
  BY <1>1 DEF Back
<1>3. Carries(s, At(s, f[p]), r) /\ Carries(s, At(s, f[u]), q) /\ Alike(s, r, q)
  BY <1>2 DEF Carries, Alike, DataIn, SMOf
<1> QED BY <1>2, <1>3 DEF Ordered

\* One entry goes from the front of level b to the end of level a, and there
\* is nothing between.
Shifts(s, t, a, b, n, k) ==
  /\ a \in {1, 2, 3} /\ b \in {2, 3, 5} /\ a < b
  /\ n \in Nat /\ DOMAIN Row(s)[a] = 1 .. n /\ DOMAIN Row(t)[a] = 1 .. (n + 1)
  /\ \A i \in 1 .. n : Row(t)[a][i] = Row(s)[a][i]
  /\ k \in Nat /\ k >= 1 /\ DOMAIN Row(s)[b] = 1 .. k /\ DOMAIN Row(t)[b] = 1 .. (k - 1)
  /\ \A i \in 1 .. (k - 1) : Row(t)[b][i] = Row(s)[b][i + 1]
  /\ Row(t)[a][n + 1] = Row(s)[b][1]
  /\ \A l \in 1 .. 5 : l # a /\ l # b => Row(t)[l] = Row(s)[l]
  /\ \A l \in 1 .. 5 : a < l /\ l < b => DOMAIN Row(s)[l] = {}

LEMMA ShiftsBack ==
  ASSUME NEW s, NEW t, NEW a, NEW b, NEW n, NEW k, Shifts(s, t, a, b, n, k)
  PROVE  \E f : Back(s, t, f)
<1>1. PICK f : f = [p \in Slots(t) |->
                     IF p[1] = a /\ p[2] = n + 1 THEN <<b, 1>>
                     ELSE IF p[1] = b THEN <<b, p[2] + 1>> ELSE p]
  OBVIOUS
<1>2. /\ a \in {1, 2, 3} /\ b \in {2, 3, 5} /\ a < b /\ n \in Nat /\ k \in Nat /\ k >= 1
      /\ DOMAIN Row(s)[a] = 1 .. n /\ DOMAIN Row(t)[a] = 1 .. (n + 1)
      /\ DOMAIN Row(s)[b] = 1 .. k /\ DOMAIN Row(t)[b] = 1 .. (k - 1)
  BY DEF Shifts
<1>3. /\ \A i \in 1 .. n : Row(t)[a][i] = Row(s)[a][i]
      /\ \A i \in 1 .. (k - 1) : Row(t)[b][i] = Row(s)[b][i + 1]
      /\ Row(t)[a][n + 1] = Row(s)[b][1]
      /\ \A l \in 1 .. 5 : l # a /\ l # b => Row(t)[l] = Row(s)[l]
      /\ \A l \in 1 .. 5 : a < l /\ l < b => DOMAIN Row(s)[l] = {}
  BY DEF Shifts
<1>4. ASSUME NEW p \in Slots(t)
      PROVE  /\ f[p] \in Slots(s) /\ At(s, f[p]) = At(t, p)
             /\ p = <<p[1], p[2]>> /\ p[1] \in 1 .. 5 /\ p[2] \in DOMAIN Row(t)[p[1]]
             /\ p[1] = a => p[2] \in 1 .. (n + 1)
             /\ p[1] = b => p[2] \in 1 .. (k - 1)
             /\ ~(a < p[1] /\ p[1] < b)
             /\ p[1] = a /\ p[2] = n + 1 => f[p][1] = b /\ f[p][2] = 1
             /\ p[1] = b => f[p][1] = b /\ f[p][2] = p[2] + 1
             /\ p[1] # b /\ ~(p[1] = a /\ p[2] = n + 1) => f[p] = p
  <2>1. p = <<p[1], p[2]>> /\ p[1] \in 1 .. 5 /\ p[2] \in DOMAIN Row(t)[p[1]]
    BY SlotsAre
  <2>2. CASE p[1] = a /\ p[2] = n + 1
    <3>1. f[p] = <<b, 1>>
      BY <1>1, <2>2
    <3>2. 1 \in DOMAIN Row(s)[b] /\ b \in 1 .. 5
      BY <1>2
    <3>3. <<b, 1>> \in Slots(s)
      BY <3>2, SlotsAre
    <3>4. At(s, <<b, 1>>) = Row(s)[b][1]
      BY DEF At
    <3>5. At(t, p) = Row(t)[a][n + 1]
      BY <2>2 DEF At
    <3> QED BY <1>2, <1>3, <2>1, <2>2, <3>1, <3>3, <3>4, <3>5
  <2>3. CASE p[1] = b
    <3>1. p[2] \in 1 .. (k - 1)
      BY <1>2, <2>1, <2>3
    <3>2. f[p] = <<b, p[2] + 1>>
      BY <1>1, <1>2, <2>3
    <3>3. p[2] + 1 \in DOMAIN Row(s)[b] /\ b \in 1 .. 5
      BY <1>2, <3>1
    <3>4. <<b, p[2] + 1>> \in Slots(s)
      BY <3>3, SlotsAre
    <3>5. At(s, <<b, p[2] + 1>>) = Row(s)[b][p[2] + 1]
      BY DEF At
    <3>6. At(t, p) = Row(t)[b][p[2]]
      BY <2>3 DEF At
    <3>7. At(t, p) = Row(s)[b][p[2] + 1]
      BY <1>3, <3>1, <3>6
    <3>8. f[p] \in Slots(s) /\ At(s, f[p]) = At(t, p)
      BY <3>2, <3>4, <3>5, <3>7
    <3>9. f[p][1] = b /\ f[p][2] = p[2] + 1
      BY <3>2
    <3>10. p[1] # a
      BY <1>2, <2>3
    <3> QED BY <1>2, <2>1, <2>3, <3>1, <3>8, <3>9, <3>10
  <2>4. CASE p[1] # b /\ ~(p[1] = a /\ p[2] = n + 1)
    <3>1. f[p] = p
      BY <1>1, <2>4
    <3>2. CASE p[1] = a
      <4>1. p[2] \in 1 .. n
        BY <1>2, <2>1, <2>4, <3>2
      <4>2. <<a, p[2]>> \in Slots(s)
        BY <1>2, <2>1, <3>2, <4>1, SlotsAre
      <4>3. At(s, p) = Row(s)[a][p[2]] /\ At(t, p) = Row(t)[a][p[2]]
        BY <3>2 DEF At
      <4>4. At(s, p) = At(t, p)
        BY <1>3, <4>1, <4>3
      <4>5. p \in Slots(s)
        BY <2>1, <3>2, <4>2
      <4>6. p[2] \in 1 .. (n + 1)
        BY <1>2, <4>1
      <4> QED BY <1>2, <2>1, <2>4, <3>1, <3>2, <4>4, <4>5, <4>6
    <3>3. CASE p[1] # a
      <4>1. Row(t)[p[1]] = Row(s)[p[1]]
        BY <1>3, <2>1, <2>4, <3>3
      <4>2. <<p[1], p[2]>> \in Slots(s)
        BY <2>1, <4>1, SlotsAre
      <4>3. At(s, p) = At(t, p)
        BY <4>1 DEF At
      <4>4. ~(a < p[1] /\ p[1] < b)
        BY <1>3, <2>1, <4>1
      <4> QED BY <2>1, <2>4, <3>1, <3>3, <4>2, <4>3, <4>4
    <3> QED BY <3>2, <3>3
  <2> QED BY <2>2, <2>3, <2>4
<1>5. ASSUME NEW p \in Slots(t), NEW u \in Slots(t), Precedes(p, u)
      PROVE  Precedes(f[p], f[u])
  <2>1. /\ p[1] \in 1 .. 5 /\ u[1] \in 1 .. 5
        /\ p[1] = a => p[2] \in 1 .. (n + 1)
        /\ u[1] = a => u[2] \in 1 .. (n + 1)
        /\ p[1] = b => p[2] \in 1 .. (k - 1)
        /\ u[1] = b => u[2] \in 1 .. (k - 1)
        /\ ~(a < p[1] /\ p[1] < b) /\ ~(a < u[1] /\ u[1] < b)
    BY <1>4
  <2>2. /\ p[1] = a /\ p[2] = n + 1 => f[p][1] = b /\ f[p][2] = 1
        /\ p[1] = b => f[p][1] = b /\ f[p][2] = p[2] + 1
        /\ p[1] # b /\ ~(p[1] = a /\ p[2] = n + 1) => f[p] = p
    BY <1>4
  <2>3. /\ u[1] = a /\ u[2] = n + 1 => f[u][1] = b /\ f[u][2] = 1
        /\ u[1] = b => f[u][1] = b /\ f[u][2] = u[2] + 1
        /\ u[1] # b /\ ~(u[1] = a /\ u[2] = n + 1) => f[u] = u
    BY <1>4
  <2>4. CASE p[1] = a /\ p[2] = n + 1
    <3>1. u[1] # a
      BY <1>2, <1>5, <2>1, <2>4 DEF Precedes
    <3>2. u[1] >= b
      BY <1>2, <1>5, <2>1, <2>4, <3>1 DEF Precedes
    <3>3. CASE u[1] = b
      BY <1>2, <1>5, <2>1, <2>2, <2>3, <2>4, <3>3 DEF Precedes
    <3>4. CASE u[1] # b
      BY <1>2, <1>5, <2>1, <2>2, <2>3, <2>4, <3>1, <3>2, <3>4 DEF Precedes
    <3> QED BY <3>3, <3>4
  <2>5. CASE p[1] = b
    <3>1. u[1] >= b
      BY <1>2, <1>5, <2>1, <2>5 DEF Precedes
    <3>2. CASE u[1] = b
      BY <1>2, <1>5, <2>1, <2>2, <2>3, <2>5, <3>2 DEF Precedes
    <3>3. CASE u[1] # b
      BY <1>2, <1>5, <2>1, <2>2, <2>3, <2>5, <3>1, <3>3 DEF Precedes
    <3> QED BY <3>2, <3>3
  <2>6. CASE p[1] # b /\ ~(p[1] = a /\ p[2] = n + 1)
    <3>1. f[p] = p
      BY <2>2, <2>6
    <3>2. CASE u[1] = b
      <4>1. p[1] < b
        BY <1>2, <1>5, <2>1, <2>6, <3>2 DEF Precedes
      <4> QED BY <1>5, <2>3, <3>1, <3>2, <4>1 DEF Precedes
    <3>3. CASE u[1] = a /\ u[2] = n + 1
      <4>1. p[1] <= a
        BY <1>2, <1>5, <2>1, <3>3 DEF Precedes
      <4>2. p[1] < b
        BY <1>2, <1>5, <2>1, <4>1
      <4> QED BY <1>5, <2>3, <3>1, <3>3, <4>2 DEF Precedes
    <3>4. CASE u[1] # b /\ ~(u[1] = a /\ u[2] = n + 1)
      BY <1>5, <2>3, <3>1, <3>4
    <3> QED BY <3>2, <3>3, <3>4
  <2> QED BY <2>4, <2>5, <2>6
<1> QED BY <1>4, <1>5 DEF Back

\* An entry that goes from one sequence to another.
LEMMA HeadGoes ==
  ASSUME NEW S, NEW q \in Seq(S), NEW v \in Seq(S), v # <<>>
  PROVE  /\ Len(q) \in Nat /\ DOMAIN q = 1 .. Len(q)
         /\ DOMAIN Append(q, Head(v)) = 1 .. (Len(q) + 1)
         /\ \A i \in 1 .. Len(q) : Append(q, Head(v))[i] = q[i]
         /\ Len(v) \in Nat /\ Len(v) >= 1
         /\ DOMAIN v = 1 .. Len(v) /\ DOMAIN Tail(v) = 1 .. (Len(v) - 1)
         /\ \A i \in 1 .. (Len(v) - 1) : Tail(v)[i] = v[i + 1]
         /\ Append(q, Head(v))[Len(q) + 1] = v[1]
<1>1. /\ Head(v) = v[1] /\ Head(v) \in S /\ Len(v) \in Nat /\ Len(v) >= 1
      /\ DOMAIN v = 1 .. Len(v) /\ DOMAIN Tail(v) = 1 .. (Len(v) - 1)
      /\ \A i \in 1 .. (Len(v) - 1) : Tail(v)[i] = v[i + 1]
  BY TailOf
<1>2. /\ Len(q) \in Nat /\ DOMAIN q = 1 .. Len(q)
      /\ DOMAIN Append(q, Head(v)) = 1 .. (Len(q) + 1)
      /\ \A i \in 1 .. Len(q) : Append(q, Head(v))[i] = q[i]
      /\ Append(q, Head(v))[Len(q) + 1] = Head(v)
  BY <1>1, AppendOf
<1> QED BY <1>1, <1>2

LEMMA LevelsAre ==
  \A l \in 1 .. 5 : l \in {1, 2, 3, 4, 5}
OBVIOUS

LEMMA SendsShifts ==
  ASSUME NEW s, Typed(s), Modes(s), NEW t, Sends(s, t)
  PROVE  Shifts(s, t, 1, 3, Len(s.net), Len(s.buf))
<1>1. /\ Row(s)[1] = s.net /\ Row(s)[2] = s.rec /\ Row(s)[3] = s.buf
      /\ Row(s)[4] = s.stage /\ Row(s)[5] = s.queue
      /\ Row(t)[1] = Append(s.net, Head(s.buf)) /\ Row(t)[2] = s.rec /\ Row(t)[3] = Tail(s.buf)
      /\ Row(t)[4] = s.stage /\ Row(t)[5] = s.queue
  BY SlotsAre DEF Sends, Pipeline
<1>2. s.net \in Seq(Entry) /\ s.buf \in Seq(Entry) /\ s.buf # <<>>
  BY DEF Typed, Sends
<1>3. /\ Len(s.net) \in Nat /\ DOMAIN s.net = 1 .. Len(s.net)
      /\ DOMAIN Append(s.net, Head(s.buf)) = 1 .. (Len(s.net) + 1)
      /\ \A i \in 1 .. Len(s.net) : Append(s.net, Head(s.buf))[i] = s.net[i]
      /\ Len(s.buf) \in Nat /\ Len(s.buf) >= 1
      /\ DOMAIN s.buf = 1 .. Len(s.buf) /\ DOMAIN Tail(s.buf) = 1 .. (Len(s.buf) - 1)
      /\ \A i \in 1 .. (Len(s.buf) - 1) : Tail(s.buf)[i] = s.buf[i + 1]
      /\ Append(s.net, Head(s.buf))[Len(s.net) + 1] = s.buf[1]
  BY <1>2, HeadGoes
<1>4. \A l \in 1 .. 5 : l # 1 /\ l # 3 => Row(t)[l] = Row(s)[l]
  BY <1>1, LevelsAre
<1>5. \A l \in 1 .. 5 : 1 < l /\ l < 3 => DOMAIN Row(s)[l] = {}
  <2>1. DOMAIN s.rec = {}
    BY DEF Modes, Sends
  <2> QED BY <1>1, <2>1
<1> QED BY <1>1, <1>3, <1>4, <1>5 DEF Shifts

LEMMA PacketShifts ==
  ASSUME NEW s, Typed(s), NEW t, SendsPacket(s, t)
  PROVE  Shifts(s, t, 1, 2, Len(s.net), Len(s.rec))
<1>1. /\ Row(s)[1] = s.net /\ Row(s)[2] = s.rec /\ Row(s)[3] = s.buf
      /\ Row(s)[4] = s.stage /\ Row(s)[5] = s.queue
      /\ Row(t)[1] = Append(s.net, Head(s.rec)) /\ Row(t)[2] = Tail(s.rec) /\ Row(t)[3] = s.buf
      /\ Row(t)[4] = s.stage /\ Row(t)[5] = s.queue
  BY SlotsAre DEF SendsPacket, Pipeline
<1>2. s.net \in Seq(Entry) /\ s.rec \in Seq(Entry) /\ s.rec # <<>>
  BY DEF Typed, SendsPacket
<1>3. /\ Len(s.net) \in Nat /\ DOMAIN s.net = 1 .. Len(s.net)
      /\ DOMAIN Append(s.net, Head(s.rec)) = 1 .. (Len(s.net) + 1)
      /\ \A i \in 1 .. Len(s.net) : Append(s.net, Head(s.rec))[i] = s.net[i]
      /\ Len(s.rec) \in Nat /\ Len(s.rec) >= 1
      /\ DOMAIN s.rec = 1 .. Len(s.rec) /\ DOMAIN Tail(s.rec) = 1 .. (Len(s.rec) - 1)
      /\ \A i \in 1 .. (Len(s.rec) - 1) : Tail(s.rec)[i] = s.rec[i + 1]
      /\ Append(s.net, Head(s.rec))[Len(s.net) + 1] = s.rec[1]
  BY <1>2, HeadGoes
<1>4. \A l \in 1 .. 5 : l # 1 /\ l # 2 => Row(t)[l] = Row(s)[l]
  BY <1>1, LevelsAre
<1> QED BY <1>1, <1>3, <1>4 DEF Shifts

LEMMA KeepsShifts ==
  ASSUME NEW s, Typed(s), NEW t, Keeps(s, t)
  PROVE  Shifts(s, t, 2, 3, Len(s.rec), Len(s.buf))
<1>1. /\ Row(s)[1] = s.net /\ Row(s)[2] = s.rec /\ Row(s)[3] = s.buf
      /\ Row(s)[4] = s.stage /\ Row(s)[5] = s.queue
      /\ Row(t)[1] = s.net /\ Row(t)[2] = Append(s.rec, Head(s.buf)) /\ Row(t)[3] = Tail(s.buf)
      /\ Row(t)[4] = s.stage /\ Row(t)[5] = s.queue
  BY SlotsAre DEF Keeps, Compresses, Pipeline
<1>2. s.rec \in Seq(Entry) /\ s.buf \in Seq(Entry) /\ s.buf # <<>>
  BY DEF Typed, Keeps, Compresses
<1>3. /\ Len(s.rec) \in Nat /\ DOMAIN s.rec = 1 .. Len(s.rec)
      /\ DOMAIN Append(s.rec, Head(s.buf)) = 1 .. (Len(s.rec) + 1)
      /\ \A i \in 1 .. Len(s.rec) : Append(s.rec, Head(s.buf))[i] = s.rec[i]
      /\ Len(s.buf) \in Nat /\ Len(s.buf) >= 1
      /\ DOMAIN s.buf = 1 .. Len(s.buf) /\ DOMAIN Tail(s.buf) = 1 .. (Len(s.buf) - 1)
      /\ \A i \in 1 .. (Len(s.buf) - 1) : Tail(s.buf)[i] = s.buf[i + 1]
      /\ Append(s.rec, Head(s.buf))[Len(s.rec) + 1] = s.buf[1]
  BY <1>2, HeadGoes
<1>4. \A l \in 1 .. 5 : l # 2 /\ l # 3 => Row(t)[l] = Row(s)[l]
  BY <1>1, LevelsAre
<1> QED BY <1>1, <1>3, <1>4 DEF Shifts

\* A level that stays.
LEMMA SlotSame ==
  ASSUME NEW s, NEW t, NEW p \in Slots(t), Row(t)[p[1]] = Row(s)[p[1]]
  PROVE  p \in Slots(s) /\ At(s, p) = At(t, p)
<1>1. p = <<p[1], p[2]>> /\ p[1] \in 1 .. 5 /\ p[2] \in DOMAIN Row(s)[p[1]]
  BY SlotsAre
<1>2. <<p[1], p[2]>> \in Slots(s)
  BY <1>1, SlotsAre
<1> QED BY <1>1, <1>2 DEF At

\* A reply without data goes round: it is behind nothing that matters.
LEMMA GoesRoundBack ==
  ASSUME NEW s, Typed(s), NEW t, GoesRound(s, t)
  PROVE  \E f : Back(s, t, f)
<1>1. PICK f : f = [p \in Slots(t) |-> IF p[1] = 5 THEN <<5, p[2] + 1>> ELSE p]
  OBVIOUS
<1>2. PICK m : m = Head(s.queue)
  OBVIOUS
<1>3. /\ t.net = s.net /\ t.rec = s.rec /\ t.stage = s.stage /\ t.arrived = s.arrived
      /\ t.buf = Append(s.buf, m) /\ t.queue = Tail(s.queue) /\ s.queue # <<>>
      /\ ~DataIn(s, m)
  BY <1>2 DEF GoesRound, Feeds
<1>4. m \in Entry /\ s.buf \in Seq(Entry) /\ s.queue \in Seq(Reply)
  BY <1>2, <1>3, HeadIn DEF Typed, Entry
<1>5. /\ DOMAIN t.buf = 1 .. (Len(s.buf) + 1) /\ DOMAIN s.buf = 1 .. Len(s.buf)
      /\ t.buf[Len(s.buf) + 1] = m /\ Len(s.buf) \in Nat
      /\ \A i \in 1 .. Len(s.buf) : t.buf[i] = s.buf[i]
  BY <1>3, <1>4, AppendOf
<1>6. /\ DOMAIN t.queue = 1 .. (Len(s.queue) - 1) /\ DOMAIN s.queue = 1 .. Len(s.queue)
      /\ \A i \in 1 .. (Len(s.queue) - 1) : t.queue[i] = s.queue[i + 1]
      /\ Len(s.queue) \in Nat
  BY <1>3, <1>4, TailOf
<1>7. ASSUME NEW p \in Slots(t), Full(t, p)
      PROVE  f[p] \in Slots(s) /\ At(s, f[p]) = At(t, p)
  <2>1. /\ p = <<p[1], p[2]>> /\ p[1] \in 1 .. 5
        /\ p[1] = 1 => p[2] \in DOMAIN t.net /\ At(t, p) = t.net[p[2]]
        /\ p[1] = 2 => p[2] \in DOMAIN t.rec /\ At(t, p) = t.rec[p[2]]
        /\ p[1] = 3 => p[2] \in DOMAIN t.buf /\ At(t, p) = t.buf[p[2]]
        /\ p[1] = 4 => p[2] \in DOMAIN t.stage /\ At(t, p) = t.stage[p[2]]
        /\ p[1] = 5 => p[2] \in DOMAIN t.queue /\ At(t, p) = t.queue[p[2]]
    BY SlotCases
  <2>2. CASE p[1] = 5
    <3>1. f[p] = <<5, p[2] + 1>>
      BY <1>1, <2>2
    <3>2. p[2] \in 1 .. (Len(s.queue) - 1) /\ At(t, p) = t.queue[p[2]]
      BY <1>6, <2>1, <2>2
    <3>3. PICK i : i = p[2] + 1
      OBVIOUS
    <3>4. i \in DOMAIN s.queue /\ At(t, p) = s.queue[i]
      BY <1>6, <3>2, <3>3
    <3>5. <<5, i>> \in Slots(s) /\ At(s, <<5, i>>) = s.queue[i]
      BY <3>4, SlotIn
    <3> QED BY <3>1, <3>3, <3>4, <3>5
  <2>3. CASE p[1] = 3
    <3>1. f[p] = <<3, p[2]>>
      BY <1>1, <2>1, <2>3
    <3>2. p[2] \in 1 .. (Len(s.buf) + 1) /\ At(t, p) = t.buf[p[2]]
      BY <1>5, <2>1, <2>3
    <3>3. p[2] # Len(s.buf) + 1
      <4>1. At(t, p) # m
        BY <1>3, <1>7 DEF Full, DataIn
      <4> QED BY <1>5, <3>2, <4>1
    <3>4. p[2] \in 1 .. Len(s.buf)
      BY <1>5, <3>2, <3>3
    <3>5. PICK i : i = p[2]
      OBVIOUS
    <3>6. i \in DOMAIN s.buf /\ At(t, p) = s.buf[i]
      BY <1>5, <3>2, <3>4, <3>5
    <3>7. <<3, i>> \in Slots(s) /\ At(s, <<3, i>>) = s.buf[i]
      BY <3>6, SlotIn
    <3> QED BY <3>1, <3>5, <3>6, <3>7
  <2>4. CASE p[1] \in {1, 2, 4}
    <3>1. f[p] = p
      BY <1>1, <2>4
    <3>2. Row(t)[p[1]] = Row(s)[p[1]]
      BY <1>3, <2>4, SlotsAre
    <3> QED BY <3>1, <3>2, SlotSame
  <2> QED BY <2>1, <2>2, <2>3, <2>4
<1>8. ASSUME NEW p \in Slots(t), NEW u \in Slots(t), Precedes(p, u)
      PROVE  Precedes(f[p], f[u])
  <2>1. /\ p[1] = 5 => f[p][1] = 5 /\ f[p][2] = p[2] + 1
        /\ p[1] # 5 => f[p] = p
        /\ u[1] = 5 => f[u][1] = 5 /\ f[u][2] = u[2] + 1
        /\ u[1] # 5 => f[u] = u
    BY <1>1
  <2>2. /\ p[1] \in 1 .. 5 /\ u[1] \in 1 .. 5
        /\ p[1] = 5 => p[2] \in Int
        /\ u[1] = 5 => u[2] \in Int
    BY <1>6, SlotCases
  <2>3. CASE p[1] = 5
    BY <1>8, <2>1, <2>2, <2>3 DEF Precedes
  <2>4. CASE p[1] # 5 /\ u[1] = 5
    BY <1>8, <2>1, <2>2, <2>4 DEF Precedes
  <2>5. CASE p[1] # 5 /\ u[1] # 5
    BY <1>8, <2>1, <2>5
  <2> QED BY <2>3, <2>4, <2>5
<1> QED BY <1>7, <1>8 DEF Back

\* What the pipeline pushes is at the end of the buffer.
LEMMA RunsTail ==
  ASSUME NEW s, Typed(s), NEW t, Runs(s, t), NEW i \in DOMAIN t.buf, t.buf[i] \in Reply,
         i \notin 1 .. Len(s.buf)
  PROVE  i = Len(t.buf) /\ t.buf[i] = OutputOf(s) /\ i > Len(s.buf) /\ i \in Int
<1>1. PICK x : x = OutputOf(s)
  OBVIOUS
<1>2. /\ x = None => t.buf = s.buf
      /\ x # None /\ ~s.announced => t.buf = Append(s.buf, x)
      /\ x # None /\ s.announced => t.buf = Append(Append(s.buf, Control), x)
      /\ x # None => x \in Reply
  BY <1>1, RunsPush
<1>3. s.buf \in Seq(Entry) /\ Reply \subseteq Entry /\ Control \in Entry
  BY DEF Typed, Entry
<1>4. PICK n \in Nat : n = Len(s.buf)
  BY <1>3
<1>5. DOMAIN s.buf = 1 .. n
  BY <1>3, <1>4
<1>6. x # None
  BY <1>2, <1>4, <1>5
<1>7. CASE ~s.announced
  <2>1. x \in Entry /\ t.buf = Append(s.buf, x)
    BY <1>2, <1>3, <1>6, <1>7
  <2>2. DOMAIN t.buf = 1 .. (n + 1) /\ t.buf[n + 1] = x /\ Len(t.buf) = n + 1
    BY <1>3, <1>4, <2>1, AppendOf
  <2>3. i = n + 1
    BY <1>4, <2>2
  <2> QED BY <1>1, <1>4, <2>2, <2>3
<1>8. CASE s.announced
  <2>1. PICK v : v = Append(s.buf, Control)
    OBVIOUS
  <2>2. v \in Seq(Entry) /\ Len(v) = n + 1 /\ v[n + 1] = Control /\ DOMAIN v = 1 .. (n + 1)
    BY <1>3, <1>4, <2>1, AppendOf
  <2>3. x \in Entry /\ t.buf = Append(v, x)
    BY <1>2, <1>3, <1>6, <1>8, <2>1
  <2>4. /\ DOMAIN t.buf = 1 .. ((n + 1) + 1) /\ t.buf[(n + 1) + 1] = x
        /\ Len(t.buf) = (n + 1) + 1 /\ \A j \in 1 .. (n + 1) : t.buf[j] = v[j]
    BY <2>2, <2>3, AppendOf
  <2>5. t.buf[n + 1] = Control
    BY <1>4, <2>2, <2>4
  <2>6. i # n + 1
    BY <2>5, NamesDiffer
  <2>7. i = (n + 1) + 1
    BY <1>4, <2>4, <2>6
  <2> QED BY <1>1, <1>4, <2>4, <2>7
<1> QED BY <1>7, <1>8

\* What was in the buffer stays where it is.
LEMMA RunsFront ==
  ASSUME NEW s, Typed(s), NEW t, Runs(s, t), NEW i \in 1 .. Len(s.buf)
  PROVE  i \in DOMAIN t.buf /\ t.buf[i] = s.buf[i] /\ i \in DOMAIN s.buf
<1>1. PICK x : x = OutputOf(s)
  OBVIOUS
<1>2. /\ x = None => t.buf = s.buf
      /\ x # None /\ ~s.announced => t.buf = Append(s.buf, x)
      /\ x # None /\ s.announced => t.buf = Append(Append(s.buf, Control), x)
      /\ x # None => x \in Reply
  BY <1>1, RunsPush
<1>3. s.buf \in Seq(Entry) /\ Reply \subseteq Entry /\ Control \in Entry
  BY DEF Typed, Entry
<1>4. PICK n \in Nat : n = Len(s.buf)
  BY <1>3
<1>5. DOMAIN s.buf = 1 .. n /\ i \in 1 .. n
  BY <1>3, <1>4
<1>6. CASE x = None
  BY <1>2, <1>5, <1>6
<1>7. CASE x # None /\ ~s.announced
  <2>1. x \in Entry /\ t.buf = Append(s.buf, x)
    BY <1>2, <1>3, <1>7
  <2>2. DOMAIN t.buf = 1 .. (n + 1) /\ \A j \in 1 .. n : t.buf[j] = s.buf[j]
    BY <1>3, <1>4, <2>1, AppendOf
  <2> QED BY <1>5, <2>2
<1>8. CASE x # None /\ s.announced
  <2>1. PICK v : v = Append(s.buf, Control)
    OBVIOUS
  <2>2. v \in Seq(Entry) /\ Len(v) = n + 1 /\ \A j \in 1 .. n : v[j] = s.buf[j]
    BY <1>3, <1>4, <2>1, AppendOf
  <2>3. x \in Entry /\ t.buf = Append(v, x)
    BY <1>2, <1>3, <1>8, <2>1
  <2>4. DOMAIN t.buf = 1 .. ((n + 1) + 1) /\ \A j \in 1 .. (n + 1) : t.buf[j] = v[j]
    BY <2>2, <2>3, AppendOf
  <2>5. i \in 1 .. (n + 1) /\ i \in 1 .. ((n + 1) + 1)
    BY <1>5
  <2> QED BY <1>5, <2>2, <2>4, <2>5
<1> QED BY <1>6, <1>7, <1>8

\* The reply that enters the pipeline was the first in the queue.
LEMMA EntersFrom ==
  ASSUME NEW s, Typed(s), InputOf(s) \in Reply
  PROVE  <<5, 1>> \in Slots(s) /\ At(s, <<5, 1>>) = InputOf(s)
<1>1. s.queue # <<>> /\ InputOf(s) = Head(s.queue)
  BY NamesDiffer DEF InputOf
<1>2. PICK i : i = 1
  OBVIOUS
<1>3. i \in DOMAIN s.queue /\ s.queue[i] = InputOf(s)
  BY <1>1, <1>2, TailOf DEF Typed
<1>4. <<5, i>> \in Slots(s) /\ At(s, <<5, i>>) = s.queue[i]
  BY <1>3, SlotIn
<1> QED BY <1>2, <1>3, <1>4

\* Where what is in the path after the pipeline has run came from.
RunsOrigin(s, t) == [p \in Slots(t) |->
  CASE p[1] = 5 -> <<5, p[2] + 1>>
    [] p[1] = 4 /\ p[2] = 1 -> <<5, 1>>
    [] p[1] = 4 /\ p[2] # 1 -> <<4, p[2] - 1>>
    [] p[1] = 3 /\ p[2] > Len(s.buf) -> IF Stages = 1 THEN <<5, 1>> ELSE <<4, Stages - 1>>
    [] OTHER -> p]

LEMMA RunsOriginIs ==
  ASSUME NEW s, Typed(s), NEW t, Runs(s, t), NEW p \in Slots(t), Full(t, p),
         NEW o, o = RunsOrigin(s, t)[p]
  PROVE  /\ p[1] \in 1 .. 5 /\ p[2] \in Int
         /\ p[1] = 5 => o[1] = 5 /\ o[2] = p[2] + 1 /\ p[2] >= 1
         /\ p[1] = 4 => p[2] >= 1 /\ p[2] <= Stages - 1
         /\ p[1] = 4 /\ p[2] = 1 => o[1] = 5 /\ o[2] = 1
         /\ p[1] = 4 /\ p[2] # 1 => o[1] = 4 /\ o[2] = p[2] - 1
         /\ p[1] = 3 /\ p[2] > Len(s.buf) =>
              /\ p[2] = Len(t.buf)
              /\ IF Stages = 1 THEN o[1] = 5 /\ o[2] = 1 ELSE o[1] = 4 /\ o[2] = Stages - 1
         /\ (p[1] = 3 /\ p[2] <= Len(s.buf)) \/ p[1] < 3 => o = p
         /\ o \in Slots(s) /\ At(s, o) = At(t, p)
<1>1. /\ p = <<p[1], p[2]>> /\ p[1] \in 1 .. 5
      /\ p[1] = 1 => p[2] \in DOMAIN t.net /\ At(t, p) = t.net[p[2]]
      /\ p[1] = 2 => p[2] \in DOMAIN t.rec /\ At(t, p) = t.rec[p[2]]
      /\ p[1] = 3 => p[2] \in DOMAIN t.buf /\ At(t, p) = t.buf[p[2]]
      /\ p[1] = 4 => p[2] \in DOMAIN t.stage /\ At(t, p) = t.stage[p[2]]
      /\ p[1] = 5 => p[2] \in DOMAIN t.queue /\ At(t, p) = t.queue[p[2]]
  BY SlotCases
<1>2. Typed(t)
  BY MovesTyped DEF Move
<1>3. /\ DOMAIN t.net = 1 .. Len(t.net) /\ DOMAIN t.rec = 1 .. Len(t.rec)
      /\ DOMAIN t.buf = 1 .. Len(t.buf) /\ Len(t.buf) \in Nat
      /\ DOMAIN t.stage = 1 .. (Stages - 1) /\ DOMAIN t.queue = 1 .. Len(t.queue)
      /\ Len(t.queue) \in Nat /\ Len(t.net) \in Nat /\ Len(t.rec) \in Nat
  BY <1>2, DomainsAre
<1>4. p[2] \in Int /\ p[2] >= 1
  BY <1>1, <1>3
<1>5. At(t, p) \in Reply
  BY DEF Full
<1>6. Len(s.buf) \in Nat /\ DOMAIN s.buf = 1 .. Len(s.buf)
  BY DEF Typed
<1>7. CASE p[1] = 5
  <2>1. o = <<5, p[2] + 1>>
    BY <1>7 DEF RunsOrigin
  <2>2. s.queue # <<>> /\ t.queue = Tail(s.queue)
    BY <1>1, <1>7 DEF Runs
  <2>3. /\ DOMAIN t.queue = 1 .. (Len(s.queue) - 1) /\ DOMAIN s.queue = 1 .. Len(s.queue)
        /\ \A i \in 1 .. (Len(s.queue) - 1) : t.queue[i] = s.queue[i + 1]
        /\ Len(s.queue) \in Nat
    BY <2>2, TailOf DEF Typed
  <2>4. PICK i : i = p[2] + 1
    OBVIOUS
  <2>5. i \in DOMAIN s.queue /\ At(t, p) = s.queue[i]
    BY <1>1, <1>7, <2>3, <2>4
  <2>6. <<5, i>> \in Slots(s) /\ At(s, <<5, i>>) = s.queue[i]
    BY <2>5, SlotIn
  <2>7. o \in Slots(s) /\ At(s, o) = At(t, p)
    BY <2>1, <2>4, <2>5, <2>6
  <2>8. o[1] = 5 /\ o[2] = p[2] + 1
    BY <2>1
  <2> QED BY <1>4, <1>7, <2>7, <2>8
<1>8. CASE p[1] = 4 /\ p[2] = 1
  <2>1. o = <<5, 1>>
    BY <1>8 DEF RunsOrigin
  <2>2. At(t, p) = InputOf(s) /\ p[2] <= Stages - 1
    BY <1>1, <1>3, <1>8, StagesIs DEF Runs
  <2>3. o \in Slots(s) /\ At(s, o) = At(t, p)
    BY <1>5, <2>1, <2>2, EntersFrom
  <2>4. o[1] = 5 /\ o[2] = 1
    BY <2>1
  <2> QED BY <1>4, <1>8, <2>2, <2>3, <2>4
<1>9. CASE p[1] = 4 /\ p[2] # 1
  <2>1. o = <<4, p[2] - 1>>
    BY <1>9 DEF RunsOrigin
  <2>2. PICK i : i = p[2] - 1
    OBVIOUS
  <2>3. i \in 1 .. (Stages - 1) /\ p[2] \in 1 .. (Stages - 1) /\ At(t, p) = s.stage[i]
    BY <1>1, <1>3, <1>9, <2>2, StagesIs DEF Runs
  <2>4. i \in DOMAIN s.stage
    BY <2>3 DEF Typed
  <2>5. <<4, i>> \in Slots(s) /\ At(s, <<4, i>>) = s.stage[i]
    BY <2>4, SlotIn
  <2>6. o \in Slots(s) /\ At(s, o) = At(t, p)
    BY <2>1, <2>2, <2>3, <2>5
  <2>7. o[1] = 4 /\ o[2] = p[2] - 1
    BY <2>1
  <2>8. p[2] <= Stages - 1
    BY <2>3
  <2> QED BY <1>4, <1>9, <2>6, <2>7, <2>8
<1>10. CASE p[1] = 3 /\ p[2] > Len(s.buf)
  <2>1. o = IF Stages = 1 THEN <<5, 1>> ELSE <<4, Stages - 1>>
    BY <1>10 DEF RunsOrigin
  <2>2. p[2] \in DOMAIN t.buf /\ t.buf[p[2]] \in Reply /\ p[2] \notin 1 .. Len(s.buf)
    BY <1>1, <1>5, <1>6, <1>10
  <2>3. p[2] = Len(t.buf) /\ At(t, p) = OutputOf(s)
    BY <1>1, <1>10, <2>2, RunsTail
  <2>4. CASE Stages = 1
    <3>1. o = <<5, 1>> /\ At(t, p) = InputOf(s)
      BY <2>1, <2>3, <2>4 DEF OutputOf
    <3>2. o \in Slots(s) /\ At(s, o) = At(t, p)
      BY <1>5, <3>1, EntersFrom
    <3>3. o[1] = 5 /\ o[2] = 1
      BY <3>1
    <3> QED BY <1>4, <1>10, <2>3, <2>4, <3>2, <3>3
  <2>5. CASE Stages # 1
    <3>1. PICK i : i = Stages - 1
      OBVIOUS
    <3>2. o = <<4, i>> /\ At(t, p) = s.stage[i]
      BY <2>1, <2>3, <2>5, <3>1 DEF OutputOf
    <3>3. i \in DOMAIN s.stage
      BY <2>5, <3>1, StagesIs DEF Typed
    <3>4. <<4, i>> \in Slots(s) /\ At(s, <<4, i>>) = s.stage[i]
      BY <3>3, SlotIn
    <3>5. o[1] = 4 /\ o[2] = Stages - 1
      BY <3>1, <3>2
    <3> QED BY <1>4, <1>10, <2>3, <2>5, <3>2, <3>4, <3>5
  <2> QED BY <2>4, <2>5
<1>11. CASE p[1] = 3 /\ p[2] <= Len(s.buf)
  <2>1. o = p
    BY <1>4, <1>6, <1>11 DEF RunsOrigin
  <2>2. PICK i : i = p[2]
    OBVIOUS
  <2>3. i \in 1 .. Len(s.buf)
    BY <1>4, <1>6, <1>11, <2>2
  <2>4. t.buf[i] = s.buf[i] /\ i \in DOMAIN s.buf
    BY <2>3, RunsFront
  <2>5. <<3, i>> \in Slots(s) /\ At(s, <<3, i>>) = s.buf[i]
    BY <2>4, SlotIn
  <2>6. p = <<3, i>> /\ At(t, p) = t.buf[i]
    BY <1>1, <1>11, <2>2
  <2> QED BY <1>4, <1>6, <1>11, <2>1, <2>4, <2>5, <2>6
<1>12. CASE p[1] < 3
  <2>1. o = p
    BY <1>1, <1>12 DEF RunsOrigin
  <2>2. Row(t)[p[1]] = Row(s)[p[1]]
    <3>1. p[1] = 1 \/ p[1] = 2
      BY <1>1, <1>12
    <3>2. t.net = s.net /\ t.rec = s.rec
      BY DEF Runs, Feeds
    <3> QED BY <3>1, <3>2, SlotsAre
  <2>3. p \in Slots(s) /\ At(s, p) = At(t, p)
    BY <2>2, SlotSame
  <2> QED BY <1>1, <1>4, <1>12, <2>1, <2>3
<1> QED BY <1>1, <1>4, <1>6, <1>7, <1>8, <1>9, <1>10, <1>11, <1>12

LEMMA RunsBack ==
  ASSUME NEW s, Typed(s), NEW t, Runs(s, t)
  PROVE  \E f : Back(s, t, f)
<1>1. PICK f : f = RunsOrigin(s, t)
  OBVIOUS
<1>2. ASSUME NEW p \in Slots(t), Full(t, p)
      PROVE  f[p] \in Slots(s) /\ At(s, f[p]) = At(t, p)
  BY <1>1, <1>2, RunsOriginIs
<1>3. ASSUME NEW p \in Slots(t), NEW u \in Slots(t), Full(t, p), Full(t, u), Precedes(p, u)
      PROVE  Precedes(f[p], f[u])
  <2>1. PICK o : o = f[p]
    OBVIOUS
  <2>2. PICK v : v = f[u]
    OBVIOUS
  <2>3. PICK n \in Nat : n = Len(s.buf)
    BY DEF Typed
  <2>4. /\ p[1] \in 1 .. 5 /\ p[2] \in Int
        /\ p[1] = 5 => o[1] = 5 /\ o[2] = p[2] + 1 /\ p[2] >= 1
        /\ p[1] = 4 => p[2] >= 1 /\ p[2] <= Stages - 1
        /\ p[1] = 4 /\ p[2] = 1 => o[1] = 5 /\ o[2] = 1
        /\ p[1] = 4 /\ p[2] # 1 => o[1] = 4 /\ o[2] = p[2] - 1
        /\ p[1] = 3 /\ p[2] > n =>
             /\ p[2] = Len(t.buf)
             /\ IF Stages = 1 THEN o[1] = 5 /\ o[2] = 1 ELSE o[1] = 4 /\ o[2] = Stages - 1
        /\ (p[1] = 3 /\ p[2] <= n) \/ p[1] < 3 => o = p
    BY <1>1, <1>3, <2>1, <2>3, RunsOriginIs
  <2>5. /\ u[1] \in 1 .. 5 /\ u[2] \in Int
        /\ u[1] = 5 => v[1] = 5 /\ v[2] = u[2] + 1 /\ u[2] >= 1
        /\ u[1] = 4 => u[2] >= 1 /\ u[2] <= Stages - 1
        /\ u[1] = 4 /\ u[2] = 1 => v[1] = 5 /\ v[2] = 1
        /\ u[1] = 4 /\ u[2] # 1 => v[1] = 4 /\ v[2] = u[2] - 1
        /\ u[1] = 3 /\ u[2] > n =>
             /\ u[2] = Len(t.buf)
             /\ IF Stages = 1 THEN v[1] = 5 /\ v[2] = 1 ELSE v[1] = 4 /\ v[2] = Stages - 1
        /\ (u[1] = 3 /\ u[2] <= n) \/ u[1] < 3 => v = u
    BY <1>1, <1>3, <2>2, <2>3, RunsOriginIs
  <2>6. /\ p[1] <= u[1]
        /\ p[1] = u[1] => IF p[1] = 4 THEN u[2] < p[2] ELSE p[2] < u[2]
    BY <1>3, <2>4, <2>5 DEF Precedes
  <2>7. Stages \in Nat
    BY StagesIs
  <2>8. CASE p[1] = 5
    <3>1. u[1] = 5 /\ p[2] < u[2]
      BY <2>4, <2>5, <2>6, <2>8
    <3>2. o[1] = 5 /\ v[1] = 5 /\ o[2] < v[2]
      BY <2>4, <2>5, <2>8, <3>1
    <3> QED BY <2>1, <2>2, <3>2 DEF Precedes
  <2>9. CASE p[1] = 4 /\ u[1] = 5
    BY <2>1, <2>2, <2>4, <2>5, <2>9 DEF Precedes
  <2>10. CASE p[1] = 4 /\ u[1] = 4
    <3>1. u[2] < p[2] /\ p[2] # 1
      BY <2>4, <2>5, <2>6, <2>10
    <3>2. o[1] = 4 /\ o[2] = p[2] - 1
      BY <2>4, <2>10, <3>1
    <3>3. CASE u[2] = 1
      BY <2>1, <2>2, <2>5, <2>10, <3>2, <3>3 DEF Precedes
    <3>4. CASE u[2] # 1
      BY <2>1, <2>2, <2>4, <2>5, <2>10, <3>1, <3>2, <3>4 DEF Precedes
    <3> QED BY <3>3, <3>4
  <2>11. CASE p[1] = 3 /\ p[2] > n
    <3>1. u[1] # 3
      <4>1. ASSUME u[1] = 3 PROVE FALSE
        <5>1. p[2] < u[2]
          BY <2>6, <2>11, <4>1
        <5>2. u[2] > n
          BY <2>3, <2>4, <2>5, <2>11, <5>1
        <5>3. u[2] = Len(t.buf) /\ p[2] = Len(t.buf)
          BY <2>4, <2>5, <2>11, <4>1, <5>2
        <5> QED BY <2>4, <2>5, <5>1, <5>3
      <4> QED BY <4>1
    <3>2. u[1] = 4 \/ u[1] = 5
      BY <2>4, <2>5, <2>6, <2>11, <3>1
    <3>3. CASE u[1] = 5
      <4>1. o[1] = 4 \/ (o[1] = 5 /\ o[2] = 1)
        BY <2>4, <2>11
      <4>2. v[1] = 5 /\ v[2] > 1
        BY <2>5, <3>3
      <4> QED BY <2>1, <2>2, <4>1, <4>2 DEF Precedes
    <3>4. CASE u[1] = 4
      <4>1. Stages # 1
        BY <2>5, <2>7, <3>4
      <4>2. o[1] = 4 /\ o[2] = Stages - 1
        BY <2>4, <2>11, <4>1
      <4>3. CASE u[2] = 1
        BY <2>1, <2>2, <2>5, <3>4, <4>2, <4>3 DEF Precedes
      <4>4. CASE u[2] # 1
        BY <2>1, <2>2, <2>5, <2>7, <3>4, <4>2, <4>4 DEF Precedes
      <4> QED BY <4>3, <4>4
    <3> QED BY <3>2, <3>3, <3>4
  <2>12. CASE (p[1] = 3 /\ p[2] <= n) \/ p[1] < 3
    <3>1. o = p
      BY <2>4, <2>12
    <3>2. CASE (u[1] = 3 /\ u[2] <= n) \/ u[1] < 3
      BY <1>3, <2>1, <2>2, <2>5, <3>1, <3>2
    <3>3. CASE ~((u[1] = 3 /\ u[2] <= n) \/ u[1] < 3)
      <4>1. v[1] = 4 \/ v[1] = 5
        BY <2>3, <2>5, <3>3
      <4>2. p[1] <= 3
        BY <2>4, <2>12
      <4> QED BY <2>1, <2>2, <2>4, <3>1, <4>1, <4>2 DEF Precedes
    <3> QED BY <3>2, <3>3
  <2>13. p[1] = 5 \/ p[1] = 4 \/ (p[1] = 3 /\ p[2] > n) \/ (p[1] = 3 /\ p[2] <= n) \/ p[1] < 3
    BY <2>3, <2>4
  <2>14. p[1] = 4 => u[1] = 4 \/ u[1] = 5
    BY <2>4, <2>5, <2>6
  <2> QED BY <2>8, <2>9, <2>10, <2>11, <2>12, <2>13, <2>14
<1> QED BY <1>2, <1>3 DEF Back

\* Every slot is a place of one container.
LEMMA SlotContainer ==
  ASSUME NEW s, NEW p \in Slots(s), NEW r, r = At(s, p)
  PROVE  /\ 6 - p[1] \in 1 .. 7 /\ Has(Containers(s)[6 - p[1]], r)
         /\ p[2] \in DOMAIN Containers(s)[6 - p[1]] /\ Containers(s)[6 - p[1]][p[2]] = r
<1>1. p[1] \in 1 .. 5 /\ p[2] \in DOMAIN Row(s)[p[1]] /\ Row(s)[p[1]][p[2]] = r
  BY SlotsAre DEF At
<1>2. Row(s)[p[1]] = Containers(s)[6 - p[1]]
  <2>1. CASE p[1] = 1
    BY <2>1, SlotsAre, ContainersAre
  <2>2. CASE p[1] = 2
    BY <2>2, SlotsAre, ContainersAre
  <2>3. CASE p[1] = 3
    BY <2>3, SlotsAre, ContainersAre
  <2>4. CASE p[1] = 4
    BY <2>4, SlotsAre, ContainersAre
  <2>5. CASE p[1] = 5
    BY <2>5, SlotsAre, ContainersAre
  <2> QED BY <1>1, <2>1, <2>2, <2>3, <2>4, <2>5
<1>3. 6 - p[1] \in 1 .. 7
  BY <1>1
<1> QED BY <1>1, <1>2, <1>3 DEF Has

LEMMA SlotOnce ==
  ASSUME NEW s, Located(s), NEW p \in Slots(s), NEW u \in Slots(s),
         NEW r \in Reply, r = At(s, p), r = At(s, u)
  PROVE  p = u
<1>1. PICK c : c = Containers(s)
  OBVIOUS
<1>2. PICK g \in 1 .. 7 : g = 6 - p[1]
  BY SlotContainer
<1>3. PICK h \in 1 .. 7 : h = 6 - u[1]
  BY SlotContainer
<1>4. /\ Has(c[g], r) /\ p[2] \in DOMAIN c[g] /\ c[g][p[2]] = r
      /\ Has(c[h], r) /\ u[2] \in DOMAIN c[h] /\ c[h][u[2]] = r
  BY <1>1, <1>2, <1>3, SlotContainer
<1>5. g = h /\ Single(c[g], r)
  BY <1>1, <1>4, PlacedOnce
<1>6. p[2] = u[2]
  BY <1>4, <1>5 DEF Single
<1>7. p[1] \in 1 .. 5 /\ u[1] \in 1 .. 5 /\ p = <<p[1], p[2]>> /\ u = <<u[1], u[2]>>
  BY SlotsAre
<1>8. p[1] = u[1]
  BY <1>2, <1>3, <1>5, <1>7
<1> QED BY <1>6, <1>7, <1>8

LEMMA CarriedArrived ==
  ASSUME NEW s, Located(s), NEW p \in Slots(s), NEW r \in Reply, Carries(s, At(s, p), r)
  PROVE  r <= Len(s.arrived)
<1>1. CASE r = At(s, p)
  <2>1. 6 - p[1] \in 1 .. 7 /\ Has(Containers(s)[6 - p[1]], r)
    BY <1>1, SlotContainer
  <2> QED BY <2>1, PlacedOnce
<1>2. CASE At(s, p) \in Reply /\ Has(s.same[At(s, p)], r)
  BY <1>2, ArrivedIs
<1> QED BY <1>1, <1>2 DEF Carries

\* The compression buffer loses its first entry to a list.
JoinsOrigin(t) == [p \in Slots(t) |-> IF p[1] = 3 THEN <<3, p[2] + 1>> ELSE p]

LEMMA JoinsOriginIs ==
  ASSUME NEW s, Typed(s), NEW t, NEW i, Joins(s, t, i), NEW p \in Slots(t),
         NEW o, o = JoinsOrigin(t)[p]
  PROVE  /\ p[1] \in 1 .. 5 /\ o \in Slots(s) /\ At(s, o) = At(t, p)
         /\ p[1] = 3 => o[1] = 3 /\ o[2] = p[2] + 1 /\ p[2] \in Int /\ p[2] >= 1
         /\ p[1] # 3 => o = p
<1>1. /\ t.net = s.net /\ t.rec = s.rec /\ t.stage = s.stage /\ t.queue = s.queue
      /\ t.buf = Tail(s.buf) /\ s.buf # <<>>
  BY DEF Joins, Compresses, Pipeline
<1>2. p[1] \in 1 .. 5 /\ (p[1] = 3 => p[2] \in DOMAIN t.buf /\ At(t, p) = t.buf[p[2]])
  BY SlotCases
<1>3. CASE p[1] = 3
  <2>1. /\ DOMAIN t.buf = 1 .. (Len(s.buf) - 1) /\ DOMAIN s.buf = 1 .. Len(s.buf)
        /\ \A k \in 1 .. (Len(s.buf) - 1) : t.buf[k] = s.buf[k + 1]
        /\ Len(s.buf) \in Nat
    BY <1>1, TailOf DEF Typed
  <2>2. PICK k : k = p[2] + 1
    OBVIOUS
  <2>3. p[2] \in 1 .. (Len(s.buf) - 1)
    BY <1>2, <1>3, <2>1
  <2>4. k \in DOMAIN s.buf /\ At(t, p) = s.buf[k]
    BY <1>2, <1>3, <2>1, <2>2, <2>3
  <2>5. <<3, k>> \in Slots(s) /\ At(s, <<3, k>>) = s.buf[k]
    BY <2>4, SlotIn
  <2>6. o = <<3, k>>
    BY <1>3, <2>2 DEF JoinsOrigin
  <2>7. o[1] = 3 /\ o[2] = p[2] + 1 /\ p[2] \in Int /\ p[2] >= 1
    BY <2>1, <2>2, <2>3, <2>6
  <2> QED BY <1>3, <2>4, <2>5, <2>6, <2>7
<1>4. CASE p[1] # 3
  <2>1. o = p
    BY <1>4 DEF JoinsOrigin
  <2>2. Row(t)[p[1]] = Row(s)[p[1]]
    <3>1. p[1] \in {1, 2, 4, 5}
      BY <1>2, <1>4
    <3> QED BY <1>1, <3>1, SlotsAre
  <2>3. p \in Slots(s) /\ At(s, p) = At(t, p)
    BY <2>2, SlotSame
  <2> QED BY <1>2, <1>4, <2>1, <2>3
<1> QED BY <1>3, <1>4

\* Who carries an alike reply could host it as well.
LEMMA HostsToo ==
  ASSUME NEW s, Typed(s), Separable(s), Modes(s), s.merging \in {"off", "same"},
         NEW m \in Reply, NEW j \in DOMAIN s.rec, NEW q \in Reply,
         Carries(s, s.rec[j], q), Alike(s, m, q)
  PROVE  HostsSame(s, m, j)
<1>1. CASE q = s.rec[j]
  BY <1>1 DEF HostsSame, Alike, Modes
<1>2. CASE s.rec[j] \in Reply /\ Has(s.same[s.rec[j]], q)
  <2>1. GoesBelow(s, s.rec[j], q)
    BY <1>2 DEF Separable
  <2>2. s.others[s.rec[j]] = <<>>
    BY <1>2 DEF Modes
  <2> QED BY <2>1, <2>2 DEF HostsSame, Alike, GoesBelow
<1> QED BY <1>1, <1>2 DEF Carries

\* The slots of the host and of what it takes.
LEMMA JoinsSlots ==
  ASSUME NEW s, Typed(s), NEW t, NEW i, Joins(s, t, i)
  PROVE  /\ <<2, i>> \in Slots(s) /\ At(s, <<2, i>>) = s.rec[i]
         /\ <<3, 1>> \in Slots(s) /\ At(s, <<3, 1>>) = Head(s.buf)
         /\ <<2, i>> \in Slots(t) /\ At(t, <<2, i>>) = s.rec[i]
<1>1. i \in DOMAIN s.rec /\ t.rec = s.rec /\ s.buf # <<>> /\ s.buf \in Seq(Entry)
  BY DEF Joins, HostsSame, Compresses, Typed
<1>2. PICK k : k = 1
  OBVIOUS
<1>3. k \in DOMAIN s.buf /\ s.buf[k] = Head(s.buf)
  BY <1>1, <1>2, TailOf
<1>4. <<3, k>> \in Slots(s) /\ At(s, <<3, k>>) = s.buf[k]
  BY <1>3, SlotIn
<1>5. i \in DOMAIN t.rec
  BY <1>1
<1>6. <<2, i>> \in Slots(s) /\ At(s, <<2, i>>) = s.rec[i]
  BY <1>1, SlotIn
<1>7. <<2, i>> \in Slots(t) /\ At(t, <<2, i>>) = t.rec[i]
  BY <1>5, SlotIn
<1> QED BY <1>1, <1>2, <1>3, <1>4, <1>6, <1>7

LEMMA JoinsOrdered ==
  ASSUME NEW s, Typed(s), Located(s), Opened(s), Separable(s), Modes(s),
         s.merging \in {"off", "same"}, Ordered(s), NEW t, Located(t), NEW i, Joins(s, t, i)
  PROVE  Ordered(t)
<1>1. PICK m : m = Head(s.buf)
  OBVIOUS
<1>2. PICK e : e = s.rec[i]
  OBVIOUS
<1>3. PICK f : f = JoinsOrigin(t)
  OBVIOUS
<1>4. Extends(s.same, t.same, e, m) /\ e \in Reply /\ m \in Reply
  BY <1>1, <1>2, JoinsLists
<1>5. \A k, r \in Reply : Has(t.same[k], r) <=> Has(s.same[k], r) \/ (k = e /\ r = m)
  BY <1>4, ExtendsHas
<1>6. \A x : \A r \in Reply : Carries(t, x, r) => Carries(s, x, r) \/ (x = e /\ r = m)
  BY <1>5 DEF Carries
<1>7. t.arrived = s.arrived /\ DataIn(s, m)
  BY <1>1 DEF Joins, Compresses, Pipeline
<1>8. \A r, q : Alike(t, r, q) => Alike(s, r, q)
  BY <1>7 DEF Alike, DataIn, SMOf
<1>9. /\ <<2, i>> \in Slots(s) /\ At(s, <<2, i>>) = e
      /\ <<3, 1>> \in Slots(s) /\ At(s, <<3, 1>>) = m
      /\ <<2, i>> \in Slots(t) /\ At(t, <<2, i>>) = e
  BY <1>1, <1>2, JoinsSlots
<1>10. \A p \in Slots(t) : At(t, p) = e => p = <<2, i>>
  BY <1>4, <1>9, SlotOnce
<1>11. ASSUME NEW p \in Slots(t)
       PROVE  /\ p[1] \in 1 .. 5 /\ f[p] \in Slots(s) /\ At(s, f[p]) = At(t, p)
              /\ p[1] = 3 => f[p][1] = 3 /\ f[p][2] = p[2] + 1 /\ p[2] \in Int /\ p[2] >= 1
              /\ p[1] # 3 => f[p] = p
  BY <1>3, JoinsOriginIs
<1> SUFFICES ASSUME NEW p \in Slots(t), NEW u \in Slots(t), NEW r \in Reply, NEW q \in Reply,
                    Precedes(p, u), Carries(t, At(t, p), r), Carries(t, At(t, u), q),
                    Alike(t, r, q)
             PROVE  r < q
  BY DEF Ordered
<1>12. Alike(s, r, q)
  BY <1>8
<1>13. CASE Carries(s, At(t, p), r) /\ Carries(s, At(t, u), q)
  <2>1. /\ p[1] \in 1 .. 5
        /\ p[1] = 3 => f[p][1] = 3 /\ f[p][2] = p[2] + 1 /\ p[2] \in Int /\ p[2] >= 1
        /\ p[1] # 3 => f[p] = p
    BY <1>11
  <2>2. /\ u[1] \in 1 .. 5
        /\ u[1] = 3 => f[u][1] = 3 /\ f[u][2] = u[2] + 1 /\ u[2] \in Int /\ u[2] >= 1
        /\ u[1] # 3 => f[u] = u
    BY <1>11
  <2>3. Precedes(f[p], f[u])
    <3>1. CASE p[1] = 3 /\ u[1] = 3
      BY <2>1, <2>2, <3>1 DEF Precedes
    <3>2. CASE p[1] = 3 /\ u[1] # 3
      BY <2>1, <2>2, <3>2 DEF Precedes
    <3>3. CASE p[1] # 3 /\ u[1] = 3
      BY <2>1, <2>2, <3>3 DEF Precedes
    <3>4. CASE p[1] # 3 /\ u[1] # 3
      BY <2>1, <2>2, <3>4
    <3> QED BY <3>1, <3>2, <3>3, <3>4
  <2>4. Carries(s, At(s, f[p]), r) /\ Carries(s, At(s, f[u]), q)
    BY <1>11, <1>13
  <2>5. f[p] \in Slots(s) /\ f[u] \in Slots(s)
    BY <1>11
  <2> QED BY <1>12, <2>3, <2>4, <2>5 DEF Ordered
<1>14. Carries(s, m, m)
  BY DEF Carries
<1>15. CASE At(t, p) = e /\ r = m
  <2>1. p = <<2, i>>
    BY <1>10, <1>15
  <2>2. p[1] = 2 /\ p[2] = i
    BY <2>1
  <2>3. u # p
    <3>1. i \in Int
      BY DEF Joins, HostsSame, Typed
    <3> QED BY <2>2, <3>1 DEF Precedes
  <2>4. At(t, u) # e
    BY <1>10, <2>1, <2>3
  <2>5. Carries(s, At(t, u), q)
    BY <1>6, <2>4
  <2>6. u[1] \in 1 .. 5 /\ ((u[1] = 2 /\ i < u[2]) \/ u[1] > 2)
    BY <1>11, <2>2 DEF Precedes
  <2>7. CASE u[1] = 2
    <3>1. PICK j : j = u[2]
      OBVIOUS
    <3>2. j \in DOMAIN s.rec /\ At(t, u) = s.rec[j]
      BY <2>7, <3>1, SlotCases DEF Joins
    <3>3. HostsSame(s, m, j)
      BY <1>4, <1>12, <1>15, <2>5, <3>2, HostsToo
    <3>4. j <= i
      BY <1>1, <3>2, <3>3 DEF Joins
    <3>5. j \in Int /\ i \in Int
      BY <3>2 DEF Joins, HostsSame, Typed
    <3>6. i < j
      BY <2>6, <2>7, <3>1
    <3> QED BY <3>4, <3>5, <3>6
  <2>8. CASE u[1] > 2
    <3>1. Precedes(<<3, 1>>, f[u])
      <4>1. CASE u[1] = 3
        <5>1. f[u][1] = 3 /\ f[u][2] = u[2] + 1 /\ u[2] \in Int /\ u[2] >= 1
          BY <1>11, <4>1
        <5> QED BY <5>1 DEF Precedes
      <4>2. CASE u[1] # 3
        <5>1. f[u] = u /\ u[1] > 3
          BY <1>11, <2>6, <2>8, <4>2
        <5> QED BY <5>1 DEF Precedes
      <4> QED BY <4>1, <4>2
    <3>2. f[u] \in Slots(s) /\ Carries(s, At(s, f[u]), q)
      BY <1>11, <2>5
    <3>3. Carries(s, At(s, <<3, 1>>), r)
      BY <1>9, <1>14, <1>15
    <3> QED BY <1>9, <1>12, <3>1, <3>2, <3>3 DEF Ordered
  <2> QED BY <2>6, <2>7, <2>8
<1>16. CASE At(t, u) = e /\ q = m
  <2>1. u = <<2, i>>
    BY <1>10, <1>16
  <2>2. u[1] = 2 /\ u[2] = i /\ i \in Int
    BY <2>1 DEF Joins, HostsSame, Typed
  <2>3. p # u
    BY <2>2 DEF Precedes
  <2>4. At(t, p) # e
    BY <1>10, <2>1, <2>3
  <2>5. Carries(s, At(t, p), r)
    BY <1>6, <2>4
  <2>6. p[1] \in 1 .. 5 /\ p[1] <= 2
    BY <1>11, <2>2 DEF Precedes
  <2>7. f[p] = p /\ p \in Slots(s) /\ At(s, p) = At(t, p)
    <3>1. p[1] # 3
      BY <2>6
    <3>2. f[p] = p
      BY <1>11, <3>1
    <3>3. f[p] \in Slots(s) /\ At(s, f[p]) = At(t, p)
      BY <1>11
    <3> QED BY <3>2, <3>3
  <2>8. Precedes(p, <<3, 1>>)
    BY <2>6 DEF Precedes
  <2>9. Carries(s, At(s, <<3, 1>>), q) /\ Carries(s, At(s, p), r)
    BY <1>9, <1>14, <1>16, <2>5, <2>7
  <2> QED BY <1>9, <1>12, <2>7, <2>8, <2>9 DEF Ordered
<1> QED BY <1>6, <1>13, <1>15, <1>16

\* Listed and Separable say what the lists of one reply hold.
LEMMA JoinsListed ==
  ASSUME NEW s, Typed(s), Separable(s), Ordered(s), Listed(s), NEW t, NEW i, Joins(s, t, i)
  PROVE  Listed(t)
<1>1. PICK m : m = Head(s.buf)
  OBVIOUS
<1>2. PICK e : e = s.rec[i]
  OBVIOUS
<1>3. Extends(s.same, t.same, e, m) /\ e \in Reply /\ m \in Reply
  BY <1>1, <1>2, JoinsLists
<1>4. \A k \in Reply : k # e => t.same[k] = s.same[k]
  BY <1>3, ExtendsHas
<1>5. /\ t.arrived = s.arrived /\ DataIn(s, m) /\ DataIn(s, e) /\ SMOf(s, e) = SMOf(s, m)
  BY <1>1, <1>2 DEF Joins, Compresses, Pipeline, HostsSame
<1>6. \A r : DataIn(t, r) <=> DataIn(s, r)
  BY <1>5 DEF DataIn
<1>7. /\ <<2, i>> \in Slots(s) /\ At(s, <<2, i>>) = e
      /\ <<3, 1>> \in Slots(s) /\ At(s, <<3, 1>>) = m
  BY <1>1, <1>2, JoinsSlots
<1>8. \A r \in Reply : Carries(s, e, r) /\ DataIn(s, r) => r < m
  <2> SUFFICES ASSUME NEW r \in Reply, Carries(s, e, r), DataIn(s, r) PROVE r < m
    OBVIOUS
  <2>1. SMOf(s, r) = SMOf(s, e)
    <3>1. CASE r = e
      BY <3>1
    <3>2. CASE Has(s.same[e], r)
      BY <1>3, <3>2 DEF Separable, GoesBelow
    <3> QED BY <3>1, <3>2 DEF Carries
  <2>2. Alike(s, r, m)
    BY <1>5, <2>1 DEF Alike
  <2>3. Precedes(<<2, i>>, <<3, 1>>)
    BY DEF Precedes
  <2>4. Carries(s, At(s, <<2, i>>), r) /\ Carries(s, At(s, <<3, 1>>), m)
    BY <1>7 DEF Carries
  <2> QED BY <1>3, <1>7, <2>2, <2>3, <2>4 DEF Ordered
<1>9. PICK q : q = s.same[e]
  OBVIOUS
<1>10. q \in Seq(Reply) /\ t.same[e] = Append(q, m)
  BY <1>3, <1>9 DEF Extends, Lists
<1>11. PICK n \in Nat : n = Len(q)
  BY <1>10
<1>12. PICK v : v = t.same[e]
  OBVIOUS
<1>13. /\ DOMAIN q = 1 .. n /\ DOMAIN v = 1 .. (n + 1) /\ v[n + 1] = m
       /\ \A k \in 1 .. n : v[k] = q[k]
  BY <1>3, <1>10, <1>11, <1>12, AppendOf
<1>14. \A k \in 1 .. n : DataIn(s, q[k]) => e < q[k] /\ q[k] < m
  <2> SUFFICES ASSUME NEW k \in 1 .. n, DataIn(s, q[k]) PROVE e < q[k] /\ q[k] < m
    OBVIOUS
  <2>1. e < q[k]
    BY <1>3, <1>9, <1>13 DEF Listed
  <2>2. q[k] \in Reply
    BY <1>10, <1>13
  <2>3. Has(s.same[e], q[k])
    BY <1>9, <1>13 DEF Has
  <2>4. Carries(s, e, q[k])
    BY <1>3, <2>3 DEF Carries
  <2> QED BY <1>8, <2>1, <2>2, <2>4
<1>15. e < m
  BY <1>3, <1>5, <1>8 DEF Carries
<1>16. \A a, b \in 1 .. n : a < b /\ DataIn(s, q[a]) /\ DataIn(s, q[b]) => q[a] < q[b]
  BY <1>3, <1>9, <1>13 DEF Listed
<1>17. ASSUME NEW a \in DOMAIN v, DataIn(s, v[a]) PROVE e < v[a]
  <2>1. CASE a = n + 1
    BY <1>13, <1>15, <2>1
  <2>2. CASE a # n + 1
    <3>1. a \in 1 .. n
      BY <1>13, <2>2
    <3> QED BY <1>13, <1>14, <1>17, <3>1
  <2> QED BY <2>1, <2>2
<1>18. ASSUME NEW a \in DOMAIN v, NEW b \in DOMAIN v, a < b, DataIn(s, v[a]), DataIn(s, v[b])
       PROVE  v[a] < v[b]
  <2>1. a \in 1 .. n
    BY <1>13, <1>18
  <2>2. CASE b = n + 1
    BY <1>13, <1>14, <1>18, <2>1, <2>2
  <2>3. CASE b # n + 1
    <3>1. b \in 1 .. n
      BY <1>13, <2>3
    <3> QED BY <1>13, <1>16, <1>18, <2>1, <3>1
  <2> QED BY <2>2, <2>3
<1> SUFFICES ASSUME NEW h \in Reply, NEW a \in DOMAIN t.same[h]
             PROVE  /\ DataIn(t, t.same[h][a]) => h < t.same[h][a]
                    /\ \A b \in DOMAIN t.same[h] :
                         a < b /\ DataIn(t, t.same[h][a]) /\ DataIn(t, t.same[h][b])
                         => t.same[h][a] < t.same[h][b]
  BY DEF Listed
<1>19. CASE h = e
  BY <1>6, <1>12, <1>17, <1>18, <1>19
<1>20. CASE h # e
  <2>1. t.same[h] = s.same[h]
    BY <1>4, <1>20
  <2> QED BY <1>6, <2>1 DEF Listed
<1> QED BY <1>19, <1>20

\* Lists that stay, of replies that have arrived.
LEMMA StaysListed ==
  ASSUME NEW s, Typed(s), Located(s), Listed(s), NEW t, Move(s, t), t.same = s.same
  PROVE  Listed(t)
<1>1. ASSUME NEW h \in Reply, NEW a \in DOMAIN s.same[h]
      PROVE  DataIn(t, s.same[h][a]) <=> DataIn(s, s.same[h][a])
  <2>1. s.same[h] \in Seq(Reply)
    BY DEF Typed, Lists
  <2>2. s.same[h][a] \in Reply /\ Has(s.same[h], s.same[h][a])
    BY <2>1 DEF Has
  <2>3. s.same[h][a] <= Len(s.arrived)
    BY <2>2, ArrivedIs
  <2> QED BY <2>2, <2>3, KeepsData
<1> SUFFICES ASSUME NEW h \in Reply, NEW a \in DOMAIN s.same[h]
             PROVE  /\ DataIn(t, s.same[h][a]) => h < s.same[h][a]
                    /\ \A b \in DOMAIN s.same[h] :
                         a < b /\ DataIn(t, s.same[h][a]) /\ DataIn(t, s.same[h][b])
                         => s.same[h][a] < s.same[h][b]
  BY DEF Listed
<1> QED BY <1>1 DEF Listed

\* The reply that arrives is the last, and the youngest.
LEMMA ArrivesOrdered ==
  ASSUME NEW s, Typed(s), Located(s), Opened(s), Ordered(s), NEW t, Arrives(s, t)
  PROVE  Ordered(t)
<1>1. PICK a \in Nat : a = Len(s.arrived)
  <2>1. s.arrived \in Seq(Packets)
    BY DEF Typed
  <2>2. Len(s.arrived) \in Nat
    BY <2>1
  <2> QED BY <2>2
<1>2. /\ t.net = s.net /\ t.rec = s.rec /\ t.buf = s.buf /\ t.stage = s.stage
      /\ t.queue = Append(s.queue, a + 1) /\ t.same = s.same
  BY <1>1 DEF Arrives, ListsKept
<1>3. a + 1 \in Reply
  BY <1>1, CompressorAssumption DEF Arrives, Reply
<1>4. PICK n \in Nat : n = Len(s.queue)
  BY DEF Typed
<1>5. /\ DOMAIN t.queue = 1 .. (n + 1) /\ DOMAIN s.queue = 1 .. n
      /\ t.queue[n + 1] = a + 1 /\ \A i \in 1 .. n : t.queue[i] = s.queue[i]
  BY <1>2, <1>3, <1>4, AppendOf DEF Typed
<1>6. ASSUME NEW p \in Slots(t)
      PROVE  \/ p \in Slots(s) /\ At(s, p) = At(t, p)
             \/ p[1] = 5 /\ p[2] = n + 1 /\ At(t, p) = a + 1
  <2>1. /\ p = <<p[1], p[2]>> /\ p[1] \in 1 .. 5
        /\ p[1] = 5 => p[2] \in DOMAIN t.queue /\ At(t, p) = t.queue[p[2]]
    BY SlotCases
  <2>2. CASE p[1] = 5 /\ p[2] # n + 1
    <3>1. PICK i : i = p[2]
      OBVIOUS
    <3>2. i \in 1 .. n
      BY <1>5, <2>1, <2>2, <3>1
    <3>3. i \in DOMAIN s.queue /\ At(t, p) = s.queue[i]
      BY <1>5, <2>1, <2>2, <3>1, <3>2
    <3>4. <<5, i>> \in Slots(s) /\ At(s, <<5, i>>) = s.queue[i]
      BY <3>3, SlotIn
    <3>5. p = <<5, i>>
      BY <2>1, <2>2, <3>1
    <3> QED BY <3>3, <3>4, <3>5
  <2>3. CASE p[1] # 5
    <3>1. p[1] \in {1, 2, 3, 4}
      BY <2>1, <2>3
    <3>2. Row(t)[p[1]] = Row(s)[p[1]]
      BY <1>2, <3>1, SlotsAre
    <3> QED BY <3>2, SlotSame
  <2>4. CASE p[1] = 5 /\ p[2] = n + 1
    BY <1>5, <2>1, <2>4
  <2> QED BY <2>2, <2>3, <2>4
<1>7. s.same[a + 1] = <<>>
  <2>1. ~(a + 1 <= Len(s.arrived))
    BY <1>1
  <2>2. /\ ~Has(s.rec, a + 1) /\ ~Has(s.net, a + 1)
        /\ \A g \in Reply : ~Has(s.others[g], a + 1)
    BY <1>3, <2>1, ArrivedIs
  <2>3. ~Headed(s, a + 1)
    BY <2>2 DEF Headed
  <2> QED BY <1>3, <2>2, <2>3 DEF Opened
<1>8. \A x : \A r : Carries(t, x, r) <=> Carries(s, x, r)
  BY <1>2 DEF Carries
<1> SUFFICES ASSUME NEW p \in Slots(t), NEW u \in Slots(t), NEW r \in Reply, NEW q \in Reply,
                    Precedes(p, u), Carries(t, At(t, p), r), Carries(t, At(t, u), q),
                    Alike(t, r, q)
             PROVE  r < q
  BY DEF Ordered
<1>9. u[1] \in 1 .. 5 /\ (u[1] = 5 => u[2] \in 1 .. (n + 1))
  BY <1>5, SlotCases
<1>10. ~(p[1] = 5 /\ p[2] = n + 1)
  <2> SUFFICES ASSUME p[1] = 5, p[2] = n + 1 PROVE FALSE
    OBVIOUS
  <2>1. u[1] = 5 /\ n + 1 < u[2]
    BY <1>9 DEF Precedes
  <2> QED BY <1>9, <2>1
<1>11. p \in Slots(s) /\ At(s, p) = At(t, p)
  BY <1>6, <1>10
<1>12. Carries(s, At(s, p), r)
  BY <1>8, <1>11
<1>13. r <= a
  BY <1>1, <1>11, <1>12, CarriedArrived
<1>14. r \in Int
  BY DEF Reply
<1>15. CASE u \in Slots(s) /\ At(s, u) = At(t, u)
  <2>1. Carries(s, At(s, u), q)
    BY <1>8, <1>15
  <2>2. q <= Len(s.arrived) /\ r <= Len(s.arrived)
    BY <1>11, <1>12, <1>15, <2>1, CarriedArrived
  <2>3. Move(s, t)
    BY DEF Move
  <2>4. SMOf(t, r) = SMOf(s, r) /\ (DataIn(t, r) <=> DataIn(s, r))
    BY <2>2, <2>3, KeepsData
  <2>5. SMOf(t, q) = SMOf(s, q) /\ (DataIn(t, q) <=> DataIn(s, q))
    BY <2>2, <2>3, KeepsData
  <2>6. Alike(s, r, q)
    BY <2>4, <2>5 DEF Alike
  <2> QED BY <1>11, <1>12, <1>15, <2>1, <2>6 DEF Ordered
<1>16. CASE At(t, u) = a + 1
  <2>1. Carries(s, a + 1, q)
    BY <1>8, <1>16
  <2>2. q = a + 1
    BY <1>7, <2>1 DEF Carries, Has
  <2> QED BY <1>13, <1>14, <2>2
<1> QED BY <1>6, <1>15, <1>16

LEMMA MovesInOrder ==
  ASSUME NEW s, Typed(s), Located(s), Opened(s), Separable(s), Modes(s), InOrder(s),
         NEW t, Located(t), Separable(t), Move(s, t)
  PROVE  InOrder(t)
<1>1. t.merging = s.merging
  BY MovesConfig DEF Config
<1> SUFFICES ASSUME s.merging \in {"off", "same"}
             PROVE  Ordered(t) /\ Listed(t)
  BY <1>1 DEF InOrder
<1>2. Ordered(s) /\ Listed(s)
  BY DEF InOrder
<1>3. ~(\E i, k : JoinsBelow(s, t, i, k)) /\ ~(\E i : JoinsBeside(s, t, i))
  BY DEF JoinsBelow, JoinsBeside
<1>4. ASSUME NEW f, Back(s, t, f), t.arrived = s.arrived, ListsKept(s, t)
      PROVE  Ordered(t) /\ Listed(t)
  <2>1. t.same = s.same
    BY <1>4 DEF ListsKept
  <2>2. Ordered(t)
    BY <1>2, <1>4, <2>1, OrderedBack
  <2>3. Listed(t)
    BY <1>2, <2>1, StaysListed
  <2> QED BY <2>2, <2>3
<1>5. CASE Sends(s, t) \/ SendsPacket(s, t) \/ Keeps(s, t)
  <2>1. \E a, b, n, k : Shifts(s, t, a, b, n, k)
    BY <1>5, SendsShifts, PacketShifts, KeepsShifts
  <2>2. \E f : Back(s, t, f)
    BY <2>1, ShiftsBack
  <2>3. t.arrived = s.arrived /\ ListsKept(s, t)
    BY <1>5 DEF Sends, SendsPacket, Keeps, Compresses, Pipeline
  <2> QED BY <1>4, <2>2, <2>3
<1>6. CASE GoesRound(s, t) \/ Runs(s, t)
  <2>1. \E f : Back(s, t, f)
    BY <1>6, GoesRoundBack, RunsBack
  <2>2. t.arrived = s.arrived /\ ListsKept(s, t)
    BY <1>6 DEF GoesRound, Runs, Feeds
  <2> QED BY <1>4, <2>1, <2>2
<1>7. ASSUME NEW i, Joins(s, t, i) PROVE Ordered(t) /\ Listed(t)
  BY <1>2, <1>7, JoinsOrdered, JoinsListed
<1>8. CASE Arrives(s, t)
  <2>1. t.same = s.same
    BY <1>8 DEF Arrives, ListsKept
  <2> QED BY <1>2, <1>8, <2>1, ArrivesOrdered, StaysListed
<1> QED BY <1>3, <1>5, <1>6, <1>7, <1>8 DEF Move

-----------------------------------------------------------------------------
(* Without recursive compression, what leaves the compression buffer goes  *)
(* to the interconnect as it is: replies with data are announced.          *)

Line(s) == s.net \o s.buf

Behind(l, i) == i - 1 \in DOMAIN l /\ l[i - 1] = Control

Marked(s, l) == \A i \in DOMAIN l :
  /\ l[i] # Control => (s.announced /\ DataIn(s, l[i]) <=> Behind(l, i))
  /\ l[i] = Control => ~Behind(l, i) /\ i + 1 \in DOMAIN l

Announces(s) == s.merging = "off" => Marked(s, Line(s))

LEMMA LineIs ==
  ASSUME NEW S, NEW n \in Seq(S), NEW b \in Seq(S)
  PROVE  /\ n \o b \in Seq(S) /\ Len(n \o b) = Len(n) + Len(b)
         /\ DOMAIN (n \o b) = 1 .. (Len(n) + Len(b))
         /\ Len(n) \in Nat /\ Len(b) \in Nat
         /\ \A i \in 1 .. Len(n) : (n \o b)[i] = n[i]
         /\ \A i \in 1 .. Len(b) : (n \o b)[Len(n) + i] = b[i]
OBVIOUS

LEMMA LineSends ==
  ASSUME NEW S, NEW n \in Seq(S), NEW b \in Seq(S), b # <<>>
  PROVE  Append(n, Head(b)) \o Tail(b) = n \o b
<1>1. Head(b) \in S /\ Tail(b) \in Seq(S)
  BY TailOf
<1> QED BY <1>1

LEMMA LineGains ==
  ASSUME NEW S, NEW n \in Seq(S), NEW b \in Seq(S), NEW x \in S,
         NEW l, l = n \o b, NEW v, v = Append(b, x)
  PROVE  n \o v = Append(l, x) /\ v \in Seq(S) /\ l \in Seq(S)
<1>1. n \o Append(b, x) = Append(n \o b, x)
  OBVIOUS
<1>2. Append(b, x) \in Seq(S) /\ n \o b \in Seq(S)
  OBVIOUS
<1> QED BY <1>1, <1>2

LEMMA LineHolds ==
  ASSUME NEW S, NEW n \in Seq(S), NEW b \in Seq(S), NEW l, l = n \o b,
         NEW i \in DOMAIN l
  PROVE  Has(n, l[i]) \/ Has(b, l[i])
<1>1. PICK x \in Nat : x = Len(n)
  OBVIOUS
<1>2. PICK y \in Nat : y = Len(b)
  OBVIOUS
<1>3. /\ DOMAIN l = 1 .. (x + y) /\ DOMAIN n = 1 .. x /\ DOMAIN b = 1 .. y
      /\ \A k \in 1 .. x : l[k] = n[k]
      /\ \A k \in 1 .. y : l[x + k] = b[k]
  BY <1>1, <1>2
<1>4. CASE i \in 1 .. x
  BY <1>3, <1>4 DEF Has
<1>5. CASE i \notin 1 .. x
  <2>1. PICK k : k = i - x
    OBVIOUS
  <2>2. k \in 1 .. y /\ x + k = i
    BY <1>3, <1>5, <2>1
  <2>3. b[k] = l[i]
    BY <1>3, <2>2
  <2> QED BY <1>3, <2>2, <2>3 DEF Has
<1> QED BY <1>4, <1>5

\* The line ends in a reply, so a reply that is not announced may follow.
LEMMA MarkedGains ==
  ASSUME NEW s, NEW l \in Seq(Entry), Marked(s, l), NEW m \in Reply,
         ~(s.announced /\ DataIn(s, m))
  PROVE  Marked(s, Append(l, m))
<1>1. PICK v : v = Append(l, m)
  OBVIOUS
<1>2. PICK n \in Nat : n = Len(l)
  OBVIOUS
<1>3. m \in Entry /\ m # Control
  BY NamesDiffer DEF Entry
<1>4. DOMAIN l = 1 .. n /\ DOMAIN v = 1 .. (n + 1) /\ v[n + 1] = m /\ \A i \in 1 .. n : v[i] = l[i]
  BY <1>1, <1>2, <1>3, AppendOf
<1>5. \A i \in 1 .. n : Behind(v, i) <=> Behind(l, i)
  BY <1>4 DEF Behind
<1>6. ~Behind(v, n + 1)
  <2> SUFFICES ASSUME Behind(v, n + 1) PROVE FALSE
    OBVIOUS
  <2>1. n \in 1 .. n /\ l[n] = Control
    BY <1>4 DEF Behind
  <2>2. n + 1 \in DOMAIN l
    BY <1>4, <2>1 DEF Marked
  <2> QED BY <1>4, <2>2
<1>7. ASSUME NEW i \in DOMAIN v
      PROVE  /\ v[i] # Control => (s.announced /\ DataIn(s, v[i]) <=> Behind(v, i))
             /\ v[i] = Control => ~Behind(v, i) /\ i + 1 \in DOMAIN v
  <2>1. CASE i = n + 1
    BY <1>3, <1>4, <1>6, <2>1
  <2>2. CASE i # n + 1
    <3>1. i \in 1 .. n
      BY <1>4, <2>2
    <3>2. v[i] = l[i] /\ (Behind(v, i) <=> Behind(l, i))
      BY <1>4, <1>5, <3>1
    <3>3. i + 1 \in 1 .. (n + 1)
      BY <3>1
    <3> QED BY <1>4, <3>1, <3>2, <3>3 DEF Marked
  <2> QED BY <2>1, <2>2
<1> QED BY <1>1, <1>7 DEF Marked

\* A control message and the reply it announces.
LEMMA MarkedBoth ==
  ASSUME NEW s, NEW l \in Seq(Entry), Marked(s, l), NEW m \in Reply,
         s.announced, DataIn(s, m)
  PROVE  Marked(s, Append(Append(l, Control), m))
<1>1. PICK w : w = Append(l, Control)
  OBVIOUS
<1>2. PICK v : v = Append(w, m)
  OBVIOUS
<1>3. PICK n \in Nat : n = Len(l)
  OBVIOUS
<1>4. m \in Entry /\ m # Control /\ Control \in Entry
  BY NamesDiffer DEF Entry
<1>5. /\ w \in Seq(Entry) /\ Len(w) = n + 1 /\ DOMAIN l = 1 .. n /\ DOMAIN w = 1 .. (n + 1)
      /\ w[n + 1] = Control /\ \A i \in 1 .. n : w[i] = l[i]
  BY <1>1, <1>3, <1>4, AppendOf
<1>6. DOMAIN v = 1 .. ((n + 1) + 1) /\ v[(n + 1) + 1] = m /\ \A i \in 1 .. (n + 1) : v[i] = w[i]
  BY <1>2, <1>4, <1>5, AppendOf
<1>7. v[n + 1] = Control
  BY <1>5, <1>6
<1>8. \A i \in 1 .. n : v[i] = l[i]
  BY <1>5, <1>6
<1>9. \A i \in 1 .. n : Behind(v, i) <=> Behind(l, i)
  BY <1>5, <1>6, <1>8 DEF Behind
<1>10. ~Behind(v, n + 1)
  <2> SUFFICES ASSUME Behind(v, n + 1) PROVE FALSE
    OBVIOUS
  <2>1. n \in 1 .. n /\ l[n] = Control
    BY <1>6, <1>8 DEF Behind
  <2>2. n + 1 \in DOMAIN l
    BY <1>5, <2>1 DEF Marked
  <2> QED BY <1>5, <2>2
<1>11. Behind(v, (n + 1) + 1)
  BY <1>6, <1>7 DEF Behind
<1>12. ASSUME NEW i \in DOMAIN v
       PROVE  /\ v[i] # Control => (s.announced /\ DataIn(s, v[i]) <=> Behind(v, i))
              /\ v[i] = Control => ~Behind(v, i) /\ i + 1 \in DOMAIN v
  <2>1. CASE i = (n + 1) + 1
    BY <1>4, <1>6, <1>11, <2>1
  <2>2. CASE i = n + 1
    <3>1. i + 1 \in DOMAIN v
      BY <1>6, <2>2
    <3> QED BY <1>7, <1>10, <2>2, <3>1
  <2>3. CASE i \in 1 .. n
    <3>1. v[i] = l[i] /\ (Behind(v, i) <=> Behind(l, i))
      BY <1>8, <1>9, <2>3
    <3>2. i + 1 \in DOMAIN v
      BY <1>6, <2>3
    <3> QED BY <1>5, <2>3, <3>1, <3>2 DEF Marked
  <2> QED BY <1>6, <2>1, <2>2, <2>3
<1> QED BY <1>1, <1>2, <1>12 DEF Marked

\* Marked looks at data only.
LEMMA MarkedStays ==
  ASSUME NEW s, NEW t, NEW l \in Seq(Entry), Marked(s, l), t.announced = s.announced,
         \A i \in DOMAIN l : l[i] # Control => (DataIn(t, l[i]) <=> DataIn(s, l[i]))
  PROVE  Marked(t, l)
BY DEF Marked

LEMMA RunsMarked ==
  ASSUME NEW s, Typed(s), InPipeline(s), NEW t, Runs(s, t), Marked(s, Line(s))
  PROVE  Marked(s, Line(t))
<1>1. PICK x : x = OutputOf(s)
  OBVIOUS
<1>2. /\ x = None => t.buf = s.buf
      /\ x # None /\ ~s.announced => t.buf = Append(s.buf, x)
      /\ x # None /\ s.announced => t.buf = Append(Append(s.buf, Control), x)
      /\ x # None => x \in Reply
  BY <1>1, RunsPush
<1>3. /\ s.buf \in Seq(Entry) /\ s.net \in Seq(Entry) /\ t.net = s.net
      /\ Reply \subseteq Entry /\ Control \in Entry
  BY DEF Typed, Entry, Runs, Feeds
<1>4. Line(s) \in Seq(Entry) /\ Line(s) = s.net \o s.buf /\ Line(t) = s.net \o t.buf
  BY <1>3, LineIs DEF Line
<1>5. CASE x = None
  BY <1>2, <1>4, <1>5
<1>6. CASE x # None /\ ~s.announced
  <2>1. x \in Reply /\ x \in Entry /\ t.buf = Append(s.buf, x)
    BY <1>2, <1>3, <1>6
  <2>2. PICK l : l = Line(s)
    OBVIOUS
  <2>3. PICK n \in Seq(Entry) : n = s.net
    BY <1>3
  <2>4. PICK b \in Seq(Entry) : b = s.buf
    BY <1>3
  <2>5. PICK v : v = t.buf
    OBVIOUS
  <2>6. l = n \o b /\ v = Append(b, x) /\ Line(t) = n \o v
    BY <1>4, <2>1, <2>2, <2>3, <2>4, <2>5
  <2>7. n \o v = Append(l, x) /\ l \in Seq(Entry)
    BY <2>1, <2>6, LineGains
  <2>8. Marked(s, Append(l, x))
    BY <1>6, <2>1, <2>2, <2>7, MarkedGains
  <2> QED BY <2>6, <2>7, <2>8
<1>7. CASE x # None /\ s.announced
  <2>1. x \in Reply /\ x \in Entry /\ t.buf = Append(Append(s.buf, Control), x)
    BY <1>2, <1>3, <1>7
  <2>2. PICK l : l = Line(s)
    OBVIOUS
  <2>3. PICK n \in Seq(Entry) : n = s.net
    BY <1>3
  <2>4. PICK b \in Seq(Entry) : b = s.buf
    BY <1>3
  <2>5. PICK w : w = Append(b, Control)
    OBVIOUS
  <2>6. PICK v : v = t.buf
    OBVIOUS
  <2>7. l = n \o b /\ v = Append(w, x) /\ Line(t) = n \o v
    BY <1>4, <2>1, <2>2, <2>3, <2>4, <2>5, <2>6
  <2>8. n \o w = Append(l, Control) /\ w \in Seq(Entry) /\ l \in Seq(Entry)
    BY <1>3, <2>5, <2>7, LineGains
  <2>9. PICK k : k = n \o w
    OBVIOUS
  <2>10. n \o v = Append(k, x)
    <3>1. w \in Seq(Entry) /\ x \in Entry /\ v = Append(w, x)
      BY <2>1, <2>7, <2>8
    <3> QED BY <2>9, <3>1, LineGains
  <2>11. Line(t) = Append(Append(l, Control), x)
    BY <2>7, <2>8, <2>9, <2>10
  <2>12. DataIn(s, x)
    <3>1. CASE Stages = 1
      <4>1. x = InputOf(s)
        BY <1>1, <3>1 DEF OutputOf
      <4>2. s.queue # <<>> /\ x = Head(s.queue)
        BY <1>7, <4>1 DEF InputOf
      <4> QED BY <4>2 DEF Runs
    <3>2. CASE Stages # 1
      <4>1. x = s.stage[Stages - 1] /\ Stages - 1 \in 1 .. Stages - 1
        BY <1>1, <3>2, StagesIs DEF OutputOf
      <4> QED BY <1>7, <4>1 DEF InPipeline
    <3> QED BY <3>1, <3>2
  <2>13. Marked(s, Append(Append(l, Control), x))
    BY <1>7, <2>1, <2>2, <2>8, <2>12, MarkedBoth
  <2> QED BY <2>11, <2>13
<1> QED BY <1>5, <1>6, <1>7

LEMMA MovesAnnounces ==
  ASSUME NEW s, Typed(s), Located(s), Modes(s), Announces(s), NEW t, Move(s, t)
  PROVE  Announces(t)
<1>1. Config(s, t)
  BY MovesConfig
<1>2. t.merging = s.merging /\ t.announced = s.announced
  BY <1>1 DEF Config
<1> SUFFICES ASSUME s.merging = "off" PROVE Marked(t, Line(t))
  BY <1>2 DEF Announces
<1>3. Marked(s, Line(s))
  BY DEF Announces
<1>4. /\ s.buf \in Seq(Entry) /\ s.net \in Seq(Entry) /\ s.queue \in Seq(Reply)
      /\ Reply \subseteq Entry
  BY DEF Typed, Entry
<1>5. Line(s) \in Seq(Entry) /\ Line(s) = s.net \o s.buf
  BY <1>4, LineIs DEF Line
<1>6. ASSUME t.arrived = s.arrived, NEW l \in Seq(Entry), Marked(s, l)
      PROVE  Marked(t, l)
  <2>1. \A m : DataIn(t, m) <=> DataIn(s, m)
    BY <1>6 DEF DataIn
  <2> QED BY <1>2, <1>6, <2>1, MarkedStays
<1>7. CASE Sends(s, t)
  <2>1. Line(t) = Line(s)
    BY <1>4, <1>5, <1>7, LineSends DEF Line, Sends
  <2>2. t.arrived = s.arrived
    BY <1>7 DEF Sends, Pipeline
  <2> QED BY <1>3, <1>5, <1>6, <2>1, <2>2
<1>8. CASE GoesRound(s, t)
  <2>1. PICK m : m = Head(s.queue)
    OBVIOUS
  <2>2. m \in Reply /\ ~DataIn(s, m) /\ t.buf = Append(s.buf, m) /\ t.net = s.net
    BY <1>4, <1>8, <2>1, HeadIn DEF GoesRound, Feeds
  <2>3. Line(t) = Append(Line(s), m)
    <3>1. PICK l : l = Line(s)
      OBVIOUS
    <3>2. PICK n \in Seq(Entry) : n = s.net
      BY <1>4
    <3>3. PICK b \in Seq(Entry) : b = s.buf
      BY <1>4
    <3>4. PICK v : v = t.buf
      OBVIOUS
    <3>5. l = n \o b /\ v = Append(b, m) /\ Line(t) = n \o v /\ m \in Entry
      BY <1>4, <1>5, <2>2, <3>1, <3>2, <3>3, <3>4 DEF Line
    <3>6. n \o v = Append(l, m)
      BY <3>5, LineGains
    <3> QED BY <3>1, <3>5, <3>6
  <2>4. Marked(s, Append(Line(s), m))
    BY <1>3, <1>5, <2>2, MarkedGains
  <2>5. Append(Line(s), m) \in Seq(Entry)
    BY <1>4, <1>5, <2>2, AppendType
  <2>6. t.arrived = s.arrived
    BY <1>8 DEF GoesRound, Feeds
  <2> QED BY <1>6, <2>3, <2>4, <2>5, <2>6
<1>9. CASE Runs(s, t)
  <2>1. Marked(s, Line(t))
    BY <1>3, <1>9, RunsMarked DEF Modes
  <2>2. Typed(t)
    BY <1>9, MovesTyped
  <2>3. Line(t) \in Seq(Entry)
    BY <2>2, LineIs DEF Typed, Line
  <2>4. t.arrived = s.arrived
    BY <1>9 DEF Runs, Feeds
  <2> QED BY <1>6, <2>1, <2>3, <2>4
<1>10. CASE Arrives(s, t)
  <2>1. Line(t) = Line(s)
    BY <1>10 DEF Arrives, Line
  <2>2. ASSUME NEW i \in DOMAIN Line(s), Line(s)[i] # Control
        PROVE  DataIn(t, Line(s)[i]) <=> DataIn(s, Line(s)[i])
    <3>1. PICK m : m = Line(s)[i]
      OBVIOUS
    <3>2. PICK n \in Seq(Entry) : n = s.net
      BY <1>4
    <3>3. PICK b \in Seq(Entry) : b = s.buf
      BY <1>4
    <3>4. PICK l : l = Line(s)
      OBVIOUS
    <3>5. l = n \o b /\ m = l[i] /\ i \in DOMAIN l /\ l \in Seq(Entry)
      BY <1>5, <2>2, <3>1, <3>2, <3>3, <3>4
    <3>6. m \in Reply
      BY <2>2, <3>1, <3>5 DEF Entry
    <3>7. Has(n, m) \/ Has(b, m)
      BY <3>5, LineHolds
    <3>8. m <= Len(s.arrived)
      BY <3>2, <3>3, <3>6, <3>7, ArrivedIs
    <3> QED BY <3>1, <3>6, <3>8, KeepsData
  <2>3. Marked(t, Line(s))
    BY <1>2, <1>3, <1>5, <2>2, MarkedStays
  <2> QED BY <2>1, <2>3
<1>11. ~SendsPacket(s, t) /\ ~Compresses(s, t)
  BY DEF SendsPacket, Compresses
<1>12. /\ ~Keeps(s, t) /\ ~(\E i : Joins(s, t, i)) /\ ~(\E i, k : JoinsBelow(s, t, i, k))
       /\ ~(\E i : JoinsBeside(s, t, i))
  BY <1>11 DEF Keeps, Joins, JoinsBelow, JoinsBeside
<1> QED BY <1>7, <1>8, <1>9, <1>10, <1>11, <1>12 DEF Move

-----------------------------------------------------------------------------
(* The inductive invariant, and the steps of the path as moves.            *)

Sound(s) ==
  /\ Typed(s) /\ Located(s) /\ Opened(s) /\ Separable(s) /\ Room(s)
  /\ BufBounded(s) /\ Modes(s) /\ InOrder(s) /\ Announces(s)

IInv == Sound(Now)

LEMMA MovesSound ==
  ASSUME NEW s, Sound(s), NEW t, Move(s, t)
  PROVE  Sound(t)
<1>1. /\ Typed(s) /\ Located(s) /\ Opened(s) /\ Separable(s) /\ Room(s)
      /\ BufBounded(s) /\ Modes(s) /\ InOrder(s) /\ Announces(s)
  BY DEF Sound
<1>2. Typed(t)
  BY <1>1, MovesTyped
<1>3. Located(t)
  BY <1>1, MovesLocated
<1>4. Opened(t)
  BY <1>1, MovesOpened
<1>5. Separable(t)
  BY <1>1, MovesSeparable
<1>6. Room(t)
  BY <1>1, <1>2, MovesRoom
<1>7. BufBounded(t)
  BY <1>1, MovesBufBounded
<1>8. Modes(t)
  BY <1>1, MovesModes
<1>9. InOrder(t)
  BY <1>1, <1>3, <1>5, MovesInOrder
<1>10. Announces(t)
  BY <1>1, MovesAnnounces
<1> QED BY <1>2, <1>3, <1>4, <1>5, <1>6, <1>7, <1>8, <1>9, <1>10 DEF Sound

\* Every non-empty set of natural numbers has a least element: the intervals
\* up to its elements, below one of them, are ordered by inclusion.
LEMMA LeastNatural ==
  ASSUME NEW T \in SUBSET Nat, T # {}
  PROVE  \E n \in T : \A m \in T : n <= m
<1>1. PICK top \in T : TRUE
  OBVIOUS
<1>2. IsWellFoundedOn(StrictSubsetOrdering(0 .. top), SUBSET (0 .. top))
  <2>1. IsFiniteSet(0 .. top)
    BY FS_Interval
  <2> QED BY <2>1, FS_StrictSubsetOrderingWellFounded, FS_FiniteSubsetsOfFinite
<1>3. PICK M : M = {0 .. m : m \in {k \in T : k <= top}}
  OBVIOUS
<1>4. M # {} /\ M \subseteq SUBSET (0 .. top)
  BY <1>3
<1>5. PICK x \in M :
        \A y \in M : ~(<<y, x>> \in StrictSubsetOrdering(0 .. top))
  BY <1>2, <1>4, WFMin
<1>6. PICK n \in T : n <= top /\ x = 0 .. n
  BY <1>3
<1>7. ASSUME NEW m \in T, m < n PROVE FALSE
  <2>1. 0 .. m \in M
    BY <1>3, <1>6, <1>7
  <2>2. 0 .. m \subseteq 0 .. n /\ n \in 0 .. n /\ n \notin 0 .. m
    BY <1>7
  <2>3. 0 .. m \in SUBSET (0 .. top) /\ 0 .. n \in SUBSET (0 .. top)
    BY <1>6, <1>7
  <2> QED BY <1>5, <1>6, <2>1, <2>2, <2>3 DEF StrictSubsetOrdering
<1> QED BY <1>7

\* Of some entries of a buffer, one is the newest.
LEMMA NewestIs ==
  ASSUME NEW n \in Nat, NEW H \in SUBSET (1 .. n), H # {}
  PROVE  Newest(H) \in H /\ \A j \in H : j <= Newest(H)
<1>1. PICK T : T = {n - k : k \in H}
  OBVIOUS
<1>2. T \in SUBSET Nat /\ T # {}
  <2>1. \A k \in H : n - k \in Nat
    OBVIOUS
  <2> QED BY <1>1, <2>1
<1>3. PICK d \in T : \A m \in T : d <= m
  BY <1>2, LeastNatural
<1>4. PICK i \in H : d = n - i
  BY <1>1
<1>5. \A j \in H : n - i <= n - j
  BY <1>1, <1>3, <1>4
<1>6. \A j \in H : j <= i
  BY <1>5
<1> QED BY <1>6 DEF Newest

-----------------------------------------------------------------------------
(* Injection.                                                              *)

\* The states between the stages of a cycle.
BufSent(room) == IF merging = "off" /\ Injects(room) THEN Tail(buf) ELSE buf

Sent(room) ==
  [announced |-> announced, merging |-> merging, arrived |-> arrived,
   queue |-> queue, stage |-> stage, buf |-> BufSent(room), rec |-> RecLeft(room),
   same |-> same, others |-> others, net |-> net']

Compressed(room) ==
  [announced |-> announced, merging |-> merging, arrived |-> arrived,
   queue |-> queue, stage |-> stage, buf |-> BufLeft(room), rec |-> rec',
   same |-> same', others |-> others', net |-> net']

Then ==
  [announced |-> announced', merging |-> merging', arrived |-> arrived',
   queue |-> queue', stage |-> stage', buf |-> buf', rec |-> rec', same |-> same',
   others |-> others', net |-> net']

LEMMA SentIs ==
  ASSUME NEW room, NEW s, s = Sent(room)
  PROVE  /\ s.announced = announced /\ s.merging = merging /\ s.arrived = arrived
         /\ s.queue = queue /\ s.stage = stage /\ s.buf = BufSent(room)
         /\ s.rec = RecLeft(room) /\ s.same = same /\ s.others = others
         /\ s.net = net'
BY DEF Sent

LEMMA CompressedIs ==
  ASSUME NEW room, NEW s, s = Compressed(room)
  PROVE  /\ s.announced = announced /\ s.merging = merging /\ s.arrived = arrived
         /\ s.queue = queue /\ s.stage = stage /\ s.buf = BufLeft(room)
         /\ s.rec = rec' /\ s.same = same' /\ s.others = others'
         /\ s.net = net'
BY DEF Compressed

LEMMA ThenIs ==
  ASSUME NEW s, s = Then
  PROVE  /\ s.announced = announced' /\ s.merging = merging' /\ s.arrived = arrived'
         /\ s.queue = queue' /\ s.stage = stage' /\ s.buf = buf'
         /\ s.rec = rec' /\ s.same = same' /\ s.others = others'
         /\ s.net = net'
BY DEF Then

LEMMA NowIs ==
  ASSUME NEW s, s = Now
  PROVE  /\ s.announced = announced /\ s.merging = merging /\ s.arrived = arrived
         /\ s.queue = queue /\ s.stage = stage /\ s.buf = buf
         /\ s.rec = rec /\ s.same = same /\ s.others = others
         /\ s.net = net
BY DEF Now

LEMMA SendStep ==
  ASSUME NEW room, Inject(room), NEW s, s = Now, NEW t, t = Sent(room)
  PROVE  t = s \/ Move(s, t)
<1>1. /\ s.announced = announced /\ s.merging = merging /\ s.arrived = arrived
      /\ s.queue = queue /\ s.stage = stage /\ s.buf = buf
      /\ s.rec = rec /\ s.same = same /\ s.others = others
      /\ s.net = net
  BY NowIs
<1>2. /\ t.announced = announced /\ t.merging = merging /\ t.arrived = arrived
      /\ t.queue = queue /\ t.stage = stage /\ t.buf = BufSent(room)
      /\ t.rec = RecLeft(room) /\ t.same = same /\ t.others = others
      /\ t.net = net'
  BY SentIs
<1>3. CASE ~Injects(room)
  <2>1. BufSent(room) = buf /\ RecLeft(room) = rec /\ net' = net
    BY <1>3 DEF BufSent, RecLeft, Inject
  <2> QED BY <2>1 DEF Sent, Now
<1>4. CASE Injects(room) /\ merging = "off"
  <2>1. BufSent(room) = Tail(buf) /\ RecLeft(room) = rec /\ buf # <<>>
        /\ net' = Append(net, Head(buf))
    BY <1>4 DEF BufSent, RecLeft, Inject, Injects
  <2>2. Sends(s, t)
    BY <1>1, <1>2, <1>4, <2>1 DEF Sends, Config, Pipeline, ListsKept
  <2> QED BY <2>2 DEF Move
<1>5. CASE Injects(room) /\ merging # "off"
  <2>1. BufSent(room) = buf /\ RecLeft(room) = Tail(rec) /\ rec # <<>>
        /\ net' = Append(net, Head(rec))
    BY <1>5 DEF BufSent, RecLeft, Inject, Injects
  <2>2. SendsPacket(s, t)
    BY <1>1, <1>2, <1>5, <2>1 DEF SendsPacket, Config, Pipeline, ListsKept
  <2> QED BY <2>2 DEF Move
<1> QED BY <1>3, <1>4, <1>5

-----------------------------------------------------------------------------
(* Recursive compression.                                                  *)

LEMMA MergeStep ==
  ASSUME NEW room, RecCompress(room),
         NEW s, s = Sent(room), Sound(s), NEW t, t = Compressed(room)
  PROVE  t = s \/ Move(s, t)
<1>1. /\ s.announced = announced /\ s.merging = merging /\ s.arrived = arrived
      /\ s.queue = queue /\ s.stage = stage /\ s.buf = BufSent(room)
      /\ s.rec = RecLeft(room) /\ s.same = same /\ s.others = others
      /\ s.net = net'
  BY SentIs
<1>2. /\ t.announced = announced /\ t.merging = merging /\ t.arrived = arrived
      /\ t.queue = queue /\ t.stage = stage /\ t.buf = BufLeft(room)
      /\ t.rec = rec' /\ t.same = same' /\ t.others = others'
      /\ t.net = net'
  BY CompressedIs
<1>3. CASE ~Takes(room)
  <2>1. rec' = RecLeft(room) /\ same' = same /\ others' = others
    BY <1>3 DEF RecCompress
  <2>2. BufLeft(room) = BufSent(room)
    BY <1>3 DEF BufLeft, BufSent
  <2> QED BY <2>1, <2>2 DEF Sent, Compressed, Now
<1>4. CASE Takes(room)
  <2>1. merging # "off" /\ buf # <<>> /\ Held(RecLeft(room)) < RecSize
    BY <1>4 DEF Takes
  <2>2. s.buf = buf /\ t.buf = Tail(s.buf)
    BY <1>1, <1>2, <1>4, <2>1 DEF BufLeft, BufSent
  <2>3. HeldIn(s) = Held(RecLeft(room))
    BY <1>1 DEF HeldIn, HeldSet, Held, BelowIn, Below
  <2>4. Compresses(s, t)
    BY <1>1, <1>2, <2>1, <2>2, <2>3 DEF Compresses, Config, Pipeline
  <2>5. PICK m : m = Head(s.buf)
    OBVIOUS
  <2>6. PICK b : b = s.rec
    OBVIOUS
  <2>7. Merge(m, b)
    BY <1>1, <1>4, <2>2, <2>5, <2>6 DEF RecCompress
  <2>8. b \in Seq(Entry) /\ Typed(s)
    BY <2>6 DEF Sound, Typed
  <2>9. \A x : (HasData(x) <=> DataIn(s, x)) /\ SM(x) = SMOf(s, x)
    BY <1>1 DEF HasData, DataIn, SM, SMOf
  <2>10. CASE Keep(m, b)
    <3>1. t.rec = Append(s.rec, Head(s.buf)) /\ t.same = s.same /\ t.others = s.others
      BY <1>1, <1>2, <2>5, <2>6, <2>10 DEF Keep
    <3>2. Keeps(s, t)
      BY <2>4, <3>1 DEF Keeps, ListsKept
    <3> QED BY <3>2 DEF Move
  <2>11. CASE HasData(m) /\ MergeSame(m, b)
    <3>1. PICK i : i = Newest(SameHosts(m, b))
      OBVIOUS
    <3>2. DOMAIN b = 1 .. Len(b) /\ Len(b) \in Nat
      BY <2>8
    <3>3. SameHosts(m, b) \in SUBSET (1 .. Len(b)) /\ SameHosts(m, b) # {}
      BY <2>11, <3>2 DEF SameHosts, MergeSame
    <3>4. i \in SameHosts(m, b) /\ \A j \in SameHosts(m, b) : j <= i
      BY <3>1, <3>2, <3>3, NewestIs
    <3>5. \A j : j \in SameHosts(m, b) <=> HostsSame(s, m, j)
      BY <1>1, <2>6, <2>9 DEF SameHosts, HostsSame
    <3>6. /\ t.same = [s.same EXCEPT ![s.rec[i]] = Append(@, Head(s.buf))]
          /\ t.others = s.others /\ t.rec = s.rec
      BY <1>1, <1>2, <2>5, <2>6, <2>11, <3>1 DEF MergeSame
    <3>7. DataIn(s, m)
      BY <2>9, <2>11
    <3>8. HostsSame(s, m, i) /\ \A j \in DOMAIN s.rec : HostsSame(s, m, j) => j <= i
      BY <3>4, <3>5
    <3>9. Joins(s, t, i)
      BY <2>4, <2>5, <3>6, <3>7, <3>8 DEF Joins
    <3> QED BY <3>9 DEF Move
  <2>12. CASE HasData(m) /\ MergeDiff(m, b) /\ merging \in {"diff", "diff same", "same diff"}
    <3>1. PICK i \in DiffHosts(m, b) :
            /\ rec' = b
            /\ \/ \E k \in ToSet(others[b[i]]) :
                    /\ SM(k) = SM(m)
                    /\ same' = [same EXCEPT ![k] = Append(@, m)]
                    /\ UNCHANGED others
               \/ /\ \A k \in ToSet(others[b[i]]) : SM(k) # SM(m)
                  /\ others' = [others EXCEPT ![b[i]] = Append(@, m)]
                  /\ UNCHANGED same
      BY <2>12 DEF MergeDiff
    <3>2. HostsDiff(s, m, i)
      BY <1>1, <2>6, <2>9 DEF DiffHosts, HostsDiff
    <3>3. \A k : k \in ToSet(others[b[i]]) <=> Has(s.others[s.rec[i]], k)
      BY <1>1, <2>6 DEF ToSet, Has
    <3>4. s.merging \notin {"off", "same"} /\ DataIn(s, m) /\ t.rec = s.rec
      BY <1>1, <1>2, <2>6, <2>9, <2>12, <3>1
    <3>5. ASSUME NEW k \in ToSet(others[b[i]]), SM(k) = SM(m),
                 same' = [same EXCEPT ![k] = Append(@, m)], UNCHANGED others
          PROVE  Move(s, t)
      <4>1. /\ t.same = [s.same EXCEPT ![k] = Append(@, Head(s.buf))]
            /\ t.others = s.others
        BY <1>1, <1>2, <2>5, <3>5
      <4>2. Has(s.others[s.rec[i]], k) /\ SMOf(s, k) = SMOf(s, m)
        BY <2>9, <3>3, <3>5
      <4>3. JoinsBelow(s, t, i, k)
        BY <2>4, <2>5, <3>2, <3>4, <4>1, <4>2 DEF JoinsBelow
      <4> QED BY <4>3 DEF Move
    <3>6. ASSUME \A k \in ToSet(others[b[i]]) : SM(k) # SM(m),
                 others' = [others EXCEPT ![b[i]] = Append(@, m)], UNCHANGED same
          PROVE  Move(s, t)
      <4>1. /\ t.others = [s.others EXCEPT ![s.rec[i]] = Append(@, Head(s.buf))]
            /\ t.same = s.same
        BY <1>1, <1>2, <2>5, <2>6, <3>6
      <4>2. \A k : Has(s.others[s.rec[i]], k) => SMOf(s, k) # SMOf(s, m)
        BY <2>9, <3>3, <3>6
      <4>3. JoinsBeside(s, t, i)
        BY <2>4, <2>5, <3>2, <3>4, <4>1, <4>2 DEF JoinsBeside
      <4> QED BY <4>3 DEF Move
    <3> QED BY <3>1, <3>5, <3>6
  <2> QED BY <2>7, <2>10, <2>11, <2>12 DEF Merge
<1> QED BY <1>3, <1>4

-----------------------------------------------------------------------------
(* The compressor.                                                         *)

LEMMA CompressStep ==
  ASSUME NEW room, Compress(BufLeft(room)), UNCHANGED <<config, arrived>>,
         NEW s, s = Compressed(room), NEW t, t = Then
  PROVE  t = s \/ Move(s, t)
<1>1. /\ s.announced = announced /\ s.merging = merging /\ s.arrived = arrived
      /\ s.queue = queue /\ s.stage = stage /\ s.buf = BufLeft(room)
      /\ s.rec = rec' /\ s.same = same' /\ s.others = others'
      /\ s.net = net'
  BY CompressedIs
<1>2. /\ t.announced = announced' /\ t.merging = merging' /\ t.arrived = arrived'
      /\ t.queue = queue' /\ t.stage = stage' /\ t.buf = buf'
      /\ t.rec = rec' /\ t.same = same' /\ t.others = others'
      /\ t.net = net'
  BY ThenIs
<1>3. announced' = announced /\ merging' = merging /\ arrived' = arrived
  BY DEF config
<1>4. PICK b : b = BufLeft(room)
  OBVIOUS
<1>5. Compress(b) /\ s.buf = b
  BY <1>1, <1>4
<1>6. \A x : HasData(x) <=> DataIn(s, x)
  BY <1>1 DEF HasData, DataIn
<1>7. CASE Stall(b)
  <2>1. buf' = b /\ queue' = queue /\ stage' = stage
    BY <1>7 DEF Stall
  <2> QED BY <1>3, <1>4, <2>1 DEF Compressed, Then, Now
<1>8. CASE GoRound(b)
  <2>1. Feeds(s, t)
    BY <1>1, <1>2, <1>3, <1>5, <1>8 DEF Feeds, Config, ListsKept, GoRound
  <2>2. /\ s.queue # <<>> /\ ~DataIn(s, Head(s.queue))
        /\ t.buf = Append(s.buf, Head(s.queue))
        /\ t.queue = Tail(s.queue) /\ t.stage = s.stage
    BY <1>1, <1>2, <1>5, <1>6, <1>8 DEF GoRound
  <2>3. GoesRound(s, t)
    BY <2>1, <2>2 DEF GoesRound
  <2> QED BY <2>3 DEF Move
<1>9. CASE RunPipeline(b)
  <2>1. Feeds(s, t)
    BY <1>1, <1>2, <1>3, <1>5, <1>9 DEF Feeds, Config, ListsKept, RunPipeline
  <2>2. Input = InputOf(s) /\ Output = OutputOf(s)
    BY <1>1 DEF Input, InputOf, Output, OutputOf
  <2>3. s.queue # <<>> => DataIn(s, Head(s.queue))
    BY <1>1, <1>6, <1>9 DEF RunPipeline
  <2>4. t.buf = IF OutputOf(s) = None THEN s.buf
                ELSE s.buf \o (IF s.announced THEN <<Control, OutputOf(s)>>
                                              ELSE <<OutputOf(s)>>)
    BY <1>1, <1>2, <1>5, <1>9, <2>2 DEF RunPipeline, Push
  <2>5. t.stage = [i \in 1 .. Stages - 1 |->
                     IF i = 1 THEN InputOf(s) ELSE s.stage[i - 1]]
    BY <1>1, <1>2, <1>9, <2>2 DEF RunPipeline, Shift
  <2>6. t.queue = IF s.queue = <<>> THEN s.queue ELSE Tail(s.queue)
    BY <1>1, <1>2, <1>9 DEF RunPipeline
  <2>7. Runs(s, t)
    BY <2>1, <2>3, <2>4, <2>5, <2>6 DEF Runs
  <2> QED BY <2>7 DEF Move
<1> QED BY <1>5, <1>7, <1>8, <1>9 DEF Compress

LEMMA ArriveStep ==
  ASSUME Arrive, NEW s, s = Now, NEW t, t = Then
  PROVE  Move(s, t)
<1>1. /\ s.announced = announced /\ s.merging = merging /\ s.arrived = arrived
      /\ s.queue = queue /\ s.stage = stage /\ s.buf = buf
      /\ s.rec = rec /\ s.same = same /\ s.others = others
      /\ s.net = net
  BY NowIs
<1>2. /\ t.announced = announced' /\ t.merging = merging' /\ t.arrived = arrived'
      /\ t.queue = queue' /\ t.stage = stage' /\ t.buf = buf'
      /\ t.rec = rec' /\ t.same = same' /\ t.others = others'
      /\ t.net = net'
  BY ThenIs
<1>3. PICK sm \in SMs, data \in BOOLEAN :
        /\ Len(arrived) < MaxReplies
        /\ arrived' = Append(arrived, [sm |-> sm, data |-> data])
        /\ queue' = Append(queue, Len(arrived) + 1)
        /\ UNCHANGED <<config, stage, buf, rec, same, others, net>>
  BY DEF Arrive
<1>4. PICK p \in Packets : p = [sm |-> sm, data |-> data]
  BY DEF Packets
<1>5. Config(s, t) /\ ListsKept(s, t)
  BY <1>1, <1>2, <1>3 DEF Config, ListsKept, config
<1>6. t.stage = s.stage /\ t.buf = s.buf /\ t.rec = s.rec /\ t.net = s.net
  BY <1>1, <1>2, <1>3
<1>7. Len(s.arrived) < MaxReplies /\ t.arrived = Append(s.arrived, p)
      /\ t.queue = Append(s.queue, Len(s.arrived) + 1)
  BY <1>1, <1>2, <1>3, <1>4
<1>8. Arrives(s, t)
  BY <1>5, <1>6, <1>7 DEF Arrives
<1> QED BY <1>8 DEF Move

-----------------------------------------------------------------------------
(* The invariant.                                                          *)

LEMMA EmptyIs ==
  /\ \A r : ~Has(<<>>, r)
  /\ DOMAIN <<>> = {} /\ Len(<<>>) = 0
BY DEF Has

LEMMA NoLists ==
  ASSUME NEW f, f = [r \in Reply |-> <<>>]
  PROVE  f \in Lists /\ (\A h \in Reply : f[h] = <<>>) /\ \A r : ~Has(Merged(f), r)
<1>1. f \in Lists /\ \A h \in Reply : f[h] = <<>>
  BY DEF Lists
<1>2. \A h \in Reply : \A r : ~Has(f[h], r)
  BY <1>1, EmptyIs
<1> QED BY <1>1, <1>2, MergedHas

LEMMA InitSound == Init => IInv
<1> SUFFICES ASSUME Init PROVE IInv
  OBVIOUS
<1>1. PICK s : s = Now
  OBVIOUS
<1>2. /\ s.announced = announced /\ s.merging = merging /\ s.arrived = arrived
      /\ s.queue = queue /\ s.stage = stage /\ s.buf = buf
      /\ s.rec = rec /\ s.same = same /\ s.others = others
      /\ s.net = net
  BY <1>1, NowIs
<1>3. /\ s.announced \in BOOLEAN /\ s.merging \in Mergings
      /\ s.arrived = <<>> /\ s.queue = <<>> /\ s.buf = <<>> /\ s.rec = <<>>
      /\ s.net = <<>> /\ s.stage = [i \in 1 .. Stages - 1 |-> None]
  BY <1>2, CompressorAssumption DEF Init
<1>4. /\ s.same \in Lists /\ (\A h \in Reply : s.same[h] = <<>>)
      /\ \A r : ~Has(Merged(s.same), r)
  BY <1>2, NoLists DEF Init
<1>5. /\ s.others \in Lists /\ (\A h \in Reply : s.others[h] = <<>>)
      /\ \A r : ~Has(Merged(s.others), r)
  BY <1>2, NoLists DEF Init
<1>6. /\ \A r : ~Has(<<>>, r)
      /\ DOMAIN <<>> = {} /\ Len(<<>>) = 0
  BY EmptyIs
<1>7. Typed(s)
  BY <1>3, <1>4, <1>5, <1>6, CompressorAssumption DEF Typed
<1>8. \A r \in Reply : ~Has(s.stage, r)
  BY <1>3, NamesDiffer DEF Has
<1>9. Located(s)
  <2>1. PICK c : c = Containers(s)
    OBVIOUS
  <2>2. /\ c[1] = s.queue /\ c[2] = s.stage /\ c[3] = s.buf /\ c[4] = s.rec
        /\ c[5] = s.net /\ c[6] = Merged(s.same) /\ c[7] = Merged(s.others)
    BY <2>1, ContainersAre
  <2>3. ASSUME NEW r \in Reply PROVE Never(c, r) /\ ~(r <= Len(s.arrived))
    <3>1. ~Has(c[1], r) /\ ~Has(c[3], r) /\ ~Has(c[4], r) /\ ~Has(c[5], r)
      BY <1>3, <1>6, <2>2
    <3>2. ~Has(c[2], r) /\ ~Has(c[6], r) /\ ~Has(c[7], r)
      BY <1>4, <1>5, <1>8, <2>2
    <3>3. ~(r <= Len(s.arrived))
      BY <1>3, <1>6 DEF Reply
    <3> QED BY <3>1, <3>2, <3>3, SevenAre DEF Never
  <2> QED BY <2>1, <2>3 DEF Located, Placed
<1>10. Opened(s)
  BY <1>4, <1>5 DEF Opened
<1>11. Separable(s)
  BY <1>4, <1>5, <1>6 DEF Separable
<1>12. Room(s)
  <2>1. HeldSet(s) = {}
    BY <1>3, <1>6 DEF HeldSet
  <2> QED BY <2>1, FS_EmptySet, StagesIs DEF Room, HeldIn
<1>13. BufBounded(s)
  BY <1>3, <1>6, StagesIs DEF BufBounded, BufBound
<1>14. Modes(s)
  BY <1>3, <1>4, <1>5 DEF Modes, InPipeline
<1>15. Listed(s)
  BY <1>4, <1>6 DEF Listed
<1>16. Ordered(s)
  <2> SUFFICES ASSUME NEW p \in Slots(s), NEW r \in Reply, Carries(s, At(s, p), r)
               PROVE  FALSE
    BY DEF Ordered
  <2>1. p[1] = 4 /\ p[2] \in DOMAIN s.stage /\ At(s, p) = s.stage[p[2]]
    <3>1. p[1] \in 1 .. 5
      BY SlotCases
    <3>2. p[1] # 1 /\ p[1] # 2 /\ p[1] # 3 /\ p[1] # 5
      BY <1>3, <1>6, SlotCases
    <3>3. p[1] = 4
      BY <3>1, <3>2
    <3> QED BY <3>3, SlotCases
  <2>2. At(s, p) = None
    BY <1>3, <2>1
  <2> QED BY <2>2, NamesDiffer DEF Carries
<1>17. Marked(s, Line(s))
  <2>1. Line(s) = <<>>
    BY <1>3 DEF Line
  <2> QED BY <1>6, <2>1 DEF Marked
<1>18. Sound(s)
  BY <1>7, <1>9, <1>10, <1>11, <1>12, <1>13, <1>14, <1>15, <1>16, <1>17
     DEF Sound, InOrder, Announces
<1> QED BY <1>1, <1>18 DEF IInv

\* A step of the path ends in a state that satisfies the invariant.
LEMMA NextSound ==
  ASSUME IInv, Next, NEW t, t = Then
  PROVE  Sound(t)
<1>1. PICK s : s = Now
  OBVIOUS
<1>2. Sound(s)
  BY <1>1 DEF IInv
<1>3. CASE Arrive
  <2>1. Move(s, t)
    BY <1>1, <1>3, ArriveStep
  <2> QED BY <1>2, <2>1, MovesSound
<1>4. ASSUME NEW room \in BOOLEAN, IcntCycle(room) PROVE Sound(t)
  <2>1. PICK a : a = Sent(room)
    OBVIOUS
  <2>2. PICK c : c = Compressed(room)
    OBVIOUS
  <2>3. /\ Inject(room) /\ RecCompress(room) /\ Compress(BufLeft(room))
        /\ UNCHANGED <<config, arrived>>
    BY <1>4 DEF IcntCycle
  <2>4. a = s \/ Move(s, a)
    BY <1>1, <2>1, <2>3, SendStep
  <2>5. Sound(a)
    BY <1>2, <2>4, MovesSound
  <2>6. c = a \/ Move(a, c)
    BY <2>1, <2>2, <2>3, <2>5, MergeStep
  <2>7. Sound(c)
    BY <2>5, <2>6, MovesSound
  <2>8. t = c \/ Move(c, t)
    BY <2>2, <2>3, CompressStep
  <2> QED BY <2>7, <2>8, MovesSound
<1> QED BY <1>3, <1>4 DEF Next

LEMMA StepSound == IInv /\ [Next]_vars => IInv'
<1> SUFFICES ASSUME IInv, [Next]_vars PROVE IInv'
  OBVIOUS
<1>1. CASE Next
  <2>1. Sound(Then)
    BY <1>1, NextSound
  <2> QED BY <2>1 DEF IInv, Now, Then
<1>2. CASE UNCHANGED vars
  <2>1. Then = Now
    BY <1>2 DEF Then, Now, vars, config
  <2>2. Sound(Then)
    BY <2>1 DEF IInv
  <2> QED BY <2>2 DEF IInv, Now, Then
<1> QED BY <1>1, <1>2

\* After every cycle of the reply path each reply is in one place, packets can
\* be taken apart, the buffers have room for what they hold, and replies that
\* no multicast packet overtakes are in order.
THEOREM Inductive == Spec => []IInv
BY InitSound, StepSound, PTL DEF Spec

-----------------------------------------------------------------------------
(* What the invariant says of the properties of ReplyCompressor.           *)

LEMMA BoundedSound ==
  ASSUME IInv
  PROVE  BuffersBounded
<1>1. PICK s : s = Now
  OBVIOUS
<1>2. /\ s.announced = announced /\ s.merging = merging /\ s.arrived = arrived
      /\ s.queue = queue /\ s.stage = stage /\ s.buf = buf
      /\ s.rec = rec /\ s.same = same /\ s.others = others
      /\ s.net = net
  BY <1>1, NowIs
<1>3. Typed(s) /\ Room(s) /\ BufBounded(s)
  BY <1>1 DEF IInv, Sound
<1>4. TypeOK
  BY <1>2, <1>3 DEF TypeOK, Typed, Packets, Entry, Lists
<1>5. HeldIn(s) = Held(rec)
  BY <1>2 DEF HeldIn, HeldSet, Held, BelowIn, Below
<1>6. Held(rec) <= RecSize /\ Len(buf) <= BufferSize + (IF announced THEN 1 ELSE 0)
  BY <1>2, <1>3, <1>5 DEF Room, BufBounded, BufBound
<1> QED BY <1>4, <1>6 DEF BuffersBounded

\* The places of container q that hold r.
InPlaces(q, r) == {p \in DOMAIN q : q[p] = r}

LEMMA OneOrNone ==
  ASSUME NEW q, NEW r, Single(q, r)
  PROVE  Has(q, r) => \E p : InPlaces(q, r) = {p}
<1> SUFFICES ASSUME Has(q, r) PROVE \E p : InPlaces(q, r) = {p}
  OBVIOUS
<1>1. PICK p \in DOMAIN q : q[p] = r
  BY DEF Has
<1>2. InPlaces(q, r) = {p}
  BY <1>1 DEF Single, InPlaces
<1> QED BY <1>2

Tags == <<"queue", "stage", "buf", "rec", "net", "same", "others">>

\* The places of a reply, each with the name of its container.
Tagged(c, r) == UNION {{Tags[h]} \X InPlaces(c[h], r) : h \in 1 .. 7}

LEMMA OncePlace ==
  ASSUME NEW c, NEW r, Once(c, r)
  PROVE  \E x : Tagged(c, r) = {x}
<1>1. PICK h \in 1 .. 7 : Has(c[h], r)
  BY DEF Once
<1>2. \A g \in 1 .. 7 : g # h => ~Has(c[g], r)
  BY <1>1 DEF Once
<1>3. \A g \in 1 .. 7 : g # h => InPlaces(c[g], r) = {}
  BY <1>2 DEF Has, InPlaces
<1>4. Single(c[h], r)
  BY DEF Once
<1>5. PICK p : InPlaces(c[h], r) = {p}
  BY <1>1, <1>4, OneOrNone
<1>6. \A g \in 1 .. 7 : g # h => {Tags[g]} \X InPlaces(c[g], r) = {}
  BY <1>3
<1>7. {Tags[h]} \X InPlaces(c[h], r) = {<<Tags[h], p>>}
  BY <1>5
<1>8. Tagged(c, r) = {<<Tags[h], p>>}
  BY <1>6, <1>7 DEF Tagged
<1> QED BY <1>8

LEMMA NeverPlace ==
  ASSUME NEW c, NEW r, Never(c, r)
  PROVE  Tagged(c, r) = {}
<1>1. \A g \in 1 .. 7 : InPlaces(c[g], r) = {}
  BY DEF Never, Has, InPlaces
<1> QED BY <1>1 DEF Tagged

LEMMA ListsPlaces ==
  ASSUME NEW f, NEW r
  PROVE  UNION {{h} \X InPlaces(f[h], r) : h \in Reply} = InPlaces(Merged(f), r)
<1>1. ASSUME NEW x
      PROVE  x \in UNION {{h} \X InPlaces(f[h], r) : h \in Reply}
               <=> \E h \in Reply : \E i \in DOMAIN f[h] : x = <<h, i>> /\ f[h][i] = r
  <2>1. x \in UNION {{h} \X InPlaces(f[h], r) : h \in Reply}
          <=> \E h \in Reply : x \in {h} \X InPlaces(f[h], r)
    OBVIOUS
  <2>2. ASSUME NEW h \in Reply
        PROVE  x \in {h} \X InPlaces(f[h], r)
                 <=> \E i \in DOMAIN f[h] : x = <<h, i>> /\ f[h][i] = r
    BY DEF InPlaces
  <2> QED BY <2>1, <2>2
<1>2. /\ DOMAIN Merged(f) = ListPlaces(f)
      /\ \A h \in Reply : \A i \in DOMAIN f[h] :
           <<h, i>> \in ListPlaces(f) /\ Merged(f)[<<h, i>>] = f[h][i]
      /\ \A p \in ListPlaces(f) : \E h \in Reply : \E i \in DOMAIN f[h] :
           p = <<h, i>> /\ Merged(f)[p] = f[h][i]
  BY MergedAt
<1>3. ASSUME NEW x
      PROVE  x \in InPlaces(Merged(f), r)
               <=> \E h \in Reply : \E i \in DOMAIN f[h] : x = <<h, i>> /\ f[h][i] = r
  <2>1. x \in InPlaces(Merged(f), r) <=> x \in ListPlaces(f) /\ Merged(f)[x] = r
    BY <1>2 DEF InPlaces
  <2> QED BY <1>2, <2>1
<1> QED BY <1>1, <1>3

LEMMA PlacesAre ==
  ASSUME NEW c, c = Containers(Now), NEW r
  PROVE  Places(r) = Tagged(c, r)
<1>1. PICK s : s = Now
  OBVIOUS
<1>2. /\ c[1] = queue /\ c[2] = stage /\ c[3] = buf /\ c[4] = rec
      /\ c[5] = net /\ c[6] = Merged(same) /\ c[7] = Merged(others)
  BY <1>1, NowIs, ContainersAre
<1>3. UNION {{h} \X InPlaces(same[h], r) : h \in Reply} = InPlaces(c[6], r)
  BY <1>2, ListsPlaces
<1>4. UNION {{h} \X InPlaces(others[h], r) : h \in Reply} = InPlaces(c[7], r)
  BY <1>2, ListsPlaces
<1>5. Places(r) =
        ({"queue"} \X InPlaces(queue, r)) \cup ({"stage"} \X InPlaces(stage, r))
        \cup ({"buf"} \X InPlaces(buf, r)) \cup ({"rec"} \X InPlaces(rec, r))
        \cup ({"net"} \X InPlaces(net, r))
        \cup ({"same"} \X UNION {{h} \X InPlaces(same[h], r) : h \in Reply})
        \cup ({"others"} \X UNION {{h} \X InPlaces(others[h], r) : h \in Reply})
  BY DEF Places, InPlaces
<1>6. /\ Tags[1] = "queue" /\ Tags[2] = "stage" /\ Tags[3] = "buf" /\ Tags[4] = "rec"
      /\ Tags[5] = "net" /\ Tags[6] = "same" /\ Tags[7] = "others"
  BY DEF Tags
<1> PICK A1, A2, A3, A4, A5, A6, A7 :
      /\ A1 = InPlaces(c[1], r) /\ A2 = InPlaces(c[2], r) /\ A3 = InPlaces(c[3], r)
      /\ A4 = InPlaces(c[4], r) /\ A5 = InPlaces(c[5], r) /\ A6 = InPlaces(c[6], r)
      /\ A7 = InPlaces(c[7], r)
  OBVIOUS
<1>7. Places(r) = UNION {{"queue"} \X A1, {"stage"} \X A2, {"buf"} \X A3, {"rec"} \X A4,
                         {"net"} \X A5, {"same"} \X A6, {"others"} \X A7}
  BY <1>2, <1>3, <1>4, <1>5
<1>8. 1 .. 7 = {1, 2, 3, 4, 5, 6, 7}
  OBVIOUS
<1>9. {{Tags[h]} \X InPlaces(c[h], r) : h \in 1 .. 7}
         = {{"queue"} \X A1, {"stage"} \X A2, {"buf"} \X A3, {"rec"} \X A4,
            {"net"} \X A5, {"same"} \X A6, {"others"} \X A7}
  BY <1>6, <1>8
<1> QED BY <1>7, <1>9 DEF Tagged

LEMMA HeadsAre ==
  ASSUME IInv, NEW s, s = Now, NEW h \in Reply
  PROVE  h \in Heads <=> Headed(s, h)
<1>1. s.rec = rec /\ s.net = net
  BY NowIs
<1>2. h # Control
  BY NamesDiffer
<1> QED BY <1>1, <1>2 DEF Heads, Headed, Has, ToSet

LEMMA OnceSound ==
  ASSUME IInv
  PROVE  OncePerReply
<1>1. BuffersBounded
  BY BoundedSound
<1>2. PICK s : s = Now
  OBVIOUS
<1>3. s.arrived = arrived /\ s.same = same /\ s.others = others
  BY <1>2, NowIs
<1>4. PICK c : c = Containers(s)
  OBVIOUS
<1>5. Typed(s) /\ Located(s) /\ Opened(s)
  BY <1>2 DEF IInv, Sound
<1>6. ASSUME NEW r \in Reply
      PROVE  Cardinality(Places(r)) = IF r \in DOMAIN arrived THEN 1 ELSE 0
  <2>1. r \in DOMAIN arrived <=> r <= Len(s.arrived)
    BY <1>3, <1>5 DEF Typed, Reply
  <2>2. Places(r) = Tagged(c, r)
    BY <1>2, <1>4, PlacesAre
  <2>3. CASE r <= Len(s.arrived)
    <3>1. Once(c, r)
      BY <1>4, <1>5, <2>3 DEF Located, Placed
    <3>2. PICK x : Places(r) = {x}
      BY <2>2, <3>1, OncePlace
    <3> QED BY <2>1, <2>3, <3>2, FS_Singleton
  <2>4. CASE ~(r <= Len(s.arrived))
    <3>1. Never(c, r)
      BY <1>4, <1>5, <2>4 DEF Located, Placed
    <3>2. Places(r) = {}
      BY <2>2, <3>1, NeverPlace
    <3> QED BY <2>1, <2>4, <3>2, FS_EmptySet
  <2> QED BY <2>3, <2>4
<1>7. ASSUME NEW h \in Reply
      PROVE  /\ others[h] # <<>> => h \in Heads
             /\ same[h] # <<>> => h \in Heads \/ \E g \in Heads : h \in ToSet(others[g])
  <2>1. /\ others[h] # <<>> => Headed(s, h)
        /\ same[h] # <<>> =>
             Headed(s, h) \/ \E g \in Reply : Headed(s, g) /\ Has(s.others[g], h)
    BY <1>3, <1>5 DEF Opened
  <2>2. \A g \in Reply : Headed(s, g) => g \in Heads
    BY <1>2, HeadsAre
  <2>3. \A g : Has(s.others[g], h) => h \in ToSet(others[g])
    BY <1>3 DEF Has, ToSet
  <2> QED BY <2>1, <2>2, <2>3
<1> QED BY <1>1, <1>6, <1>7 DEF OncePerReply

LEMMA SeparableSound ==
  ASSUME IInv
  PROVE  PacketsSeparable
<1>1. PICK s : s = Now
  OBVIOUS
<1>2. s.arrived = arrived /\ s.same = same /\ s.others = others
  BY <1>1, NowIs
<1>3. Typed(s) /\ Located(s) /\ Separable(s)
  BY <1>1 DEF IInv, Sound
<1>4. \A r : SM(r) = SMOf(s, r)
  BY <1>2 DEF SM, SMOf
<1> SUFFICES ASSUME NEW h \in DOMAIN arrived
             PROVE  /\ \A r \in ToSet(same[h]) :
                         SM(r) = SM(h) /\ same[r] = <<>> /\ others[r] = <<>>
                    /\ IsInjective([i \in 0 .. Len(others[h]) |->
                                      IF i = 0 THEN SM(h) ELSE SM(others[h][i])])
                    /\ \A r \in ToSet(others[h]) : others[r] = <<>>
                    /\ others[h] # <<>> => same[h] = <<>>
  BY DEF PacketsSeparable
<1>5. h \in Reply
  BY <1>2, <1>3, CompressorAssumption DEF Typed, Reply
<1>6. same[h] \in Seq(Reply) /\ others[h] \in Seq(Reply)
  BY <1>2, <1>3, <1>5 DEF Typed, Lists
<1>7. \A r \in ToSet(same[h]) : r \in Reply /\ Has(s.same[h], r)
  BY <1>2, <1>6 DEF ToSet, Has
<1>8. \A r \in ToSet(others[h]) : r \in Reply /\ Has(s.others[h], r)
  BY <1>2, <1>6 DEF ToSet, Has
<1>9. \A r \in ToSet(same[h]) : SM(r) = SM(h) /\ same[r] = <<>> /\ others[r] = <<>>
  BY <1>2, <1>3, <1>4, <1>5, <1>7 DEF Separable, GoesBelow
<1>10. \A r \in ToSet(others[h]) : others[r] = <<>>
  BY <1>2, <1>3, <1>5, <1>8 DEF Separable, GoesBeside
<1>11. others[h] # <<>> => same[h] = <<>>
  BY <1>2, <1>3, <1>5 DEF Separable
<1>12. PICK n \in Nat : n = Len(others[h])
  BY <1>6
<1>13. PICK f : f = [i \in 0 .. n |-> IF i = 0 THEN SM(h) ELSE SM(others[h][i])]
  OBVIOUS
<1>14. DOMAIN others[h] = 1 .. n /\ \A i \in 1 .. n : others[h][i] \in Reply
  BY <1>6, <1>12
<1>15. ASSUME NEW i \in 1 .. n
       PROVE  f[i] = SMOf(s, others[h][i]) /\ Has(s.others[h], others[h][i])
  <2>1. i \in 0 .. n /\ i # 0
    OBVIOUS
  <2>2. Has(s.others[h], others[h][i])
    BY <1>2, <1>14 DEF Has
  <2> QED BY <1>4, <1>13, <2>1, <2>2
<1>16. f[0] = SMOf(s, h) /\ DOMAIN f = 0 .. n
  BY <1>4, <1>13
<1>17. \A i \in 1 .. n : f[i] # f[0]
  BY <1>3, <1>5, <1>14, <1>15, <1>16 DEF Separable, GoesBeside
<1>18. ASSUME NEW i \in 1 .. n, NEW j \in 1 .. n, f[i] = f[j] PROVE i = j
  <2>1. others[h][i] = others[h][j]
    BY <1>3, <1>5, <1>14, <1>15, <1>18 DEF Separable
  <2>2. PICK r \in Reply : r = others[h][i]
    BY <1>14
  <2>3. Has(Merged(s.others), r)
    BY <1>2, <1>5, <1>14, <2>2, MergedHas DEF Has
  <2>4. Containers(s)[7] = Merged(s.others)
    BY ContainersAre
  <2>5. Single(Merged(s.others), r)
    BY <1>3, <2>3, <2>4, PlacedOnce
  <2> QED BY <1>2, <1>5, <1>14, <2>1, <2>2, <2>5, MergedOnce
<1>19. \A i, j \in 0 .. n : f[i] = f[j] => i = j
  <2> SUFFICES ASSUME NEW i \in 0 .. n, NEW j \in 0 .. n, f[i] = f[j] PROVE i = j
    OBVIOUS
  <2>1. (i = 0 \/ i \in 1 .. n) /\ (j = 0 \/ j \in 1 .. n)
    OBVIOUS
  <2> QED BY <1>17, <1>18, <2>1
<1>20. IsInjective(f)
  BY <1>16, <1>19 DEF IsInjective
<1> QED BY <1>9, <1>10, <1>11, <1>12, <1>13, <1>20

-----------------------------------------------------------------------------
(* Order.                                                                  *)

\* The replies of a packet are its head and what hangs below it.
LEMMA GroupAt ==
  ASSUME NEW m \in Reply, NEW q \in Seq(Reply), q = same[m], NEW a \in DOMAIN Group(m)
  PROVE  /\ a \in 1 .. (Len(q) + 1) /\ Len(q) \in Nat
         /\ a = 1 => Group(m)[a] = m
         /\ a # 1 => a - 1 \in 1 .. Len(q) /\ Group(m)[a] = q[a - 1]
<1>1. Group(m) = <<m>> \o q
  BY NamesDiffer DEF Group
<1> QED BY <1>1

LEMMA GroupCarries ==
  ASSUME NEW s, Typed(s), s.same = same, NEW m \in Entry, NEW a \in DOMAIN Group(m)
  PROVE  /\ m \in Reply /\ Group(m)[a] \in Reply /\ Carries(s, m, Group(m)[a])
<1>1. m # Control
  BY DEF Group
<1>2. m \in Reply
  BY <1>1 DEF Entry
<1>3. PICK q \in Seq(Reply) : q = same[m]
  BY <1>2 DEF Typed, Lists
<1>4. /\ a = 1 => Group(m)[a] = m
      /\ a # 1 => a - 1 \in 1 .. Len(q) /\ Group(m)[a] = q[a - 1]
  BY <1>2, <1>3, GroupAt
<1>5. CASE a = 1
  BY <1>2, <1>4, <1>5 DEF Carries
<1>6. CASE a # 1
  <2>1. a - 1 \in DOMAIN q /\ q[a - 1] \in Reply
    BY <1>4, <1>6
  <2>2. Has(s.same[m], Group(m)[a])
    BY <1>3, <1>4, <1>6, <2>1 DEF Has
  <2> QED BY <1>2, <1>4, <1>6, <2>1, <2>2 DEF Carries
<1> QED BY <1>5, <1>6

LEMMA OrderSound ==
  ASSUME IInv
  PROVE  ReadsInOrder
<1>1. PICK s : s = Now
  OBVIOUS
<1>2. /\ s.announced = announced /\ s.merging = merging /\ s.arrived = arrived
      /\ s.buf = buf /\ s.same = same /\ s.net = net
  BY <1>1, NowIs
<1>3. Typed(s) /\ InOrder(s) /\ Announces(s)
  BY <1>1 DEF IInv, Sound
<1>4. \A r : (HasData(r) <=> DataIn(s, r)) /\ SM(r) = SMOf(s, r)
  BY <1>2 DEF HasData, DataIn, SM, SMOf
<1>5. net \in Seq(Entry)
  BY <1>2, <1>3 DEF Typed
<1>6. PICK n \in Nat : n = Len(net)
  BY <1>5
<1>7. DOMAIN net = 1 .. n /\ \A i \in 1 .. n : net[i] \in Entry
  BY <1>5, <1>6
<1>8. ASSUME merging \in {"off", "same"}, NEW i \in 1 .. n, NEW j \in 1 .. n,
             NEW a \in DOMAIN Group(net[i]), NEW b \in DOMAIN Group(net[j]),
             i < j \/ (i = j /\ a < b),
             NEW r, r = Group(net[i])[a], NEW q, q = Group(net[j])[b],
             HasData(r), HasData(q), SM(r) = SM(q)
      PROVE  r < q
  <2>1. Ordered(s) /\ Listed(s)
    BY <1>2, <1>3, <1>8 DEF InOrder
  <2>2. /\ net[i] \in Reply /\ r \in Reply /\ Carries(s, net[i], r)
    BY <1>2, <1>3, <1>7, <1>8, GroupCarries
  <2>3. /\ net[j] \in Reply /\ q \in Reply /\ Carries(s, net[j], q)
    BY <1>2, <1>3, <1>7, <1>8, GroupCarries
  <2>4. Alike(s, r, q)
    BY <1>4, <1>8 DEF Alike
  <2>5. CASE i < j
    <3>1. PICK p : p = <<1, i>>
      OBVIOUS
    <3>2. PICK u : u = <<1, j>>
      OBVIOUS
    <3>3. p \in Slots(s) /\ At(s, p) = net[i] /\ u \in Slots(s) /\ At(s, u) = net[j]
      BY <1>2, <1>7, <3>1, <3>2, SlotIn
    <3>4. Precedes(p, u)
      BY <2>5, <3>1, <3>2 DEF Precedes
    <3> QED BY <2>1, <2>2, <2>3, <2>4, <3>3, <3>4 DEF Ordered
  <2>6. CASE i = j /\ a < b
    <3>1. PICK m \in Reply : m = net[i]
      BY <2>2
    <3>2. PICK l \in Seq(Reply) : l = same[m]
      BY <1>2, <1>3, <3>1 DEF Typed, Lists
    <3>3. /\ a \in 1 .. (Len(l) + 1) /\ Len(l) \in Nat
          /\ a = 1 => r = m
          /\ a # 1 => a - 1 \in 1 .. Len(l) /\ r = l[a - 1]
      BY <1>8, <3>1, <3>2, GroupAt
    <3>4. /\ b \in 1 .. (Len(l) + 1)
          /\ b # 1 => b - 1 \in 1 .. Len(l) /\ q = l[b - 1]
      BY <1>8, <2>6, <3>1, <3>2, GroupAt
    <3>5. b - 1 \in DOMAIN l /\ q = l[b - 1]
      BY <2>6, <3>3, <3>4
    <3>6. s.same[m] = l
      BY <1>2, <3>2
    <3>7. \A k \in DOMAIN l :
            /\ DataIn(s, l[k]) => m < l[k]
            /\ \A d \in DOMAIN l :
                 k < d /\ DataIn(s, l[k]) /\ DataIn(s, l[d]) => l[k] < l[d]
      BY <2>1, <3>6 DEF Listed
    <3>8. DataIn(s, r) /\ DataIn(s, q)
      BY <2>4 DEF Alike
    <3>9. CASE a = 1
      BY <3>3, <3>5, <3>7, <3>8, <3>9
    <3>10. CASE a # 1
      <4>1. a - 1 \in DOMAIN l /\ r = l[a - 1] /\ a - 1 < b - 1
        BY <2>6, <3>3, <3>4, <3>10
      <4> QED BY <3>5, <3>7, <3>8, <4>1
    <3> QED BY <3>9, <3>10
  <2> QED BY <1>8, <2>5, <2>6
<1>9. ASSUME merging = "off", NEW i \in 1 .. n
      PROVE  /\ net[i] # Control =>
                  (announced /\ HasData(net[i])
                     <=> i - 1 \in DOMAIN net /\ net[i - 1] = Control)
             /\ net[i] = Control => ~(i - 1 \in DOMAIN net /\ net[i - 1] = Control)
  <2>1. PICK l : l = Line(s)
    OBVIOUS
  <2>2. Marked(s, l)
    BY <1>2, <1>3, <1>9, <2>1 DEF Announces
  <2>3. buf \in Seq(Entry)
    BY <1>2, <1>3 DEF Typed
  <2>4. PICK k \in Nat : k = Len(buf)
    BY <2>3
  <2>5. DOMAIN l = 1 .. (n + k) /\ \A d \in 1 .. n : l[d] = net[d]
    BY <1>2, <1>5, <1>6, <2>1, <2>3, <2>4, LineIs DEF Line
  <2>6. i \in DOMAIN l /\ l[i] = net[i]
    BY <2>5
  <2>7. Behind(l, i) <=> i - 1 \in DOMAIN net /\ net[i - 1] = Control
    <3>1. i - 1 \in 1 .. (n + k) <=> i - 1 \in 1 .. n
      OBVIOUS
    <3> QED BY <1>7, <2>5, <3>1 DEF Behind
  <2> QED BY <1>2, <1>4, <2>2, <2>6, <2>7 DEF Marked
<1>10. merging \in {"off", "same"} =>
         \A i, j \in DOMAIN net : \A a \in DOMAIN Group(net[i]), b \in DOMAIN Group(net[j]) :
           (i < j \/ (i = j /\ a < b))
             /\ HasData(Group(net[i])[a]) /\ HasData(Group(net[j])[b])
             /\ SM(Group(net[i])[a]) = SM(Group(net[j])[b])
           => Group(net[i])[a] < Group(net[j])[b]
  BY <1>7, <1>8
<1> QED BY <1>7, <1>9, <1>10 DEF ReadsInOrder

\* From the L2-to-ICNT queue to the interconnect every reply that arrived is
\* at one place, whichever way compressor and recursive compressor take it,
\* and the compression buffers keep their sizes.
THEOREM OnceEach == Spec => []OncePerReply
BY Inductive, OnceSound, PTL

\* What merge_mf() puts into one packet can be taken apart at the clusters:
\* one level below a reply are those of its cluster, and a multicast packet
\* has one entry per cluster.
THEOREM Separates == Spec => []PacketsSeparable
BY Inductive, SeparableSound, PTL

\* Without multicast packets compressible replies to a cluster keep the order
\* in which they left the L2 cache, through pipeline, buffers and packets,
\* and with hpcl_rec_comp_en off the FPH control message goes right before
\* its reply.
THEOREM InOrderReads == Spec => []ReadsInOrder
BY Inductive, OrderSound, PTL
=============================================================================
